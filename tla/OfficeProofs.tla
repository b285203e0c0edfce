---------------------------- MODULE OfficeProofs ----------------------------
(***************************************************************************)
(* The pages of the office, for any number of rows and of calls under way: *)
(* for each page the inductive invariant behind what it shows.             *)
(***************************************************************************)
EXTENDS PortalProofs, FiniteSetTheorems, SequenceTheorems

------------------------------------------------------------------------------
\* The queue: what a bulk decision is about.

QueueList == [QueueIds -> {"green", "yellow", "approved", "needs_correction"}]
QueueRows == [QueueIds -> QueueRow]
QueuePage ==
  [at : {"queue"}, list : QueueList \cup {None}, error : BOOLEAN,
   ask : {None, "approve", "correct"}, running : BOOLEAN, bulkError : BOOLEAN,
   picker : BOOLEAN, selected : BOOLEAN, downloading : BOOLEAN]
Pairs == QueueIds \X Grounds
Batch == [action : {"approve", "correct"}, ids : SUBSET QueueIds, left : SUBSET Pairs,
          found : SUBSET QueueIds, ever : SUBSET Pairs]
Decides(t) == t.fn \in {"list", "triage", "decide"}
\* What triage has read so far of one application speaks for the action.
ReadSoFar(arg, a) ==
  /\ arg.action = "approve" /\ a \notin arg.found =>
       \A g \in Grounds : <<a, g>> \in arg.left \/ <<a, g>> \in arg.ever
  /\ arg.action = "correct" /\ a \in arg.found => \E g \in Grounds : <<a, g>> \in arg.ever
\* How far a batch has come: what speaks for the action now has been noted.
Sound(fn, arg, rows) ==
  /\ arg \in Batch /\ Speaking(arg.action, arg.ids, rows) \subseteq arg.ever
  /\ fn = "list" => arg.found = {}
  /\ fn = "triage" => arg.left \subseteq arg.ids \X Grounds
                      /\ \A a \in arg.ids : ReadSoFar(arg, a)
  /\ fn = "decide" => \A a \in arg.ids : Grounded(arg.action, a, arg.ever)
QueueTask(t) ==
  /\ IsTask(t) /\ t.fn \in {"load", "list", "triage", "decide", "download"}
  /\ t.fn = "load" /\ t.wire = "ok" =>
       t.reply \in QueueList /\ (~stale => t.reply = Listing(server.rows))
  /\ Decides(t) /\ t.wire = "sent" => Sound(t.fn, t.arg, server.rows)
  /\ t.fn \in {"list", "triage"} => t.wire # "ok"
\* A reading is under way, or about to begin.
QueueReread(ts) == \E t \in ts : t.fn = "load" \/ (t.fn = "decide" /\ t.wire = "ok")
QueueAwaited ==
  /\ page.running => \E t \in tasks : Decides(t)
  /\ page.downloading => \E t \in tasks : t.fn = "download"
  /\ page.list = None /\ ~page.error => \E t \in tasks : t.fn = "load"
QueueFollows ==
  ~stale /\ page.list # None /\ ~page.error =>
    page.list = Listing(server.rows) \/ QueueReread(tasks)
QueueInv ==
  /\ page \in QueuePage /\ server \in [rows : QueueRows, bulk : {{}}]
  /\ \A t \in tasks : QueueTask(t)
  /\ QueueAwaited /\ QueueFollows

\* What is shown of a row.
LEMMA ListingTypes == ASSUME NEW rows \in QueueRows PROVE Listing(rows) \in QueueList
  BY DEF QueueRows, QueueList, QueueRow, Listing, Shown
LEMMA QueueBegins == QueueInit => QueueInv
  <1> SUFFICES ASSUME QueueInit PROVE QueueInv
    OBVIOUS
  <1>1. page \in QueuePage /\ ~page.running /\ ~page.downloading /\ page.list = None
    BY DEF QueueInit, QueuePage
  <1>2. server \in [rows : QueueRows, bulk : {{}}]
    BY DEF QueueInit, QueueRows, QueueRow
  <1>3. \A t \in tasks : QueueTask(t) /\ t.fn = "load"
    BY FirstTask DEF QueueInit, QueueTask, Decides
  <1>4. tasks # {}
    BY DEF QueueInit
  <1> QED BY <1>1, <1>2, <1>3, <1>4 DEF QueueInv, QueueAwaited, QueueFollows

\* Taps that change nothing but the dialogs, and those that start a call.
LEMMA QueueTaps ==
  ASSUME QueueInv, UNCHANGED <<server, stale>>, page' \in QueuePage,
         page'.list = page.list, page'.error = page.error,
         tasks \subseteq tasks', \A u \in tasks' \ tasks : QueueTask(u),
         page'.running => page.running \/ \E t \in tasks' : Decides(t),
         page'.downloading => page.downloading \/ \E t \in tasks' : t.fn = "download"
  PROVE  QueueInv'
  <1>1. \A u \in tasks' : QueueTask(u)'
    BY DEF QueueInv, QueueTask
  <1>2. QueueAwaited' /\ QueueFollows'
    BY DEF QueueInv, QueueAwaited, QueueFollows, QueueReread
  <1> QED BY <1>1, <1>2 DEF QueueInv

LEMMA QueueAsked ==
  ASSUME QueueInv,
         \/ \E action \in {"approve", "correct"} : AskBulk(action)
         \/ CancelBulk \/ RunBulkAction \/ OpenPicker \/ DownloadSelected \/ ClosePicker
         \/ \E any \in BOOLEAN : ToggleSelected(any)
  PROVE  QueueInv'
  <1>1. page \in QueuePage /\ UNCHANGED <<server, stale>>
    BY DEF QueueInv, AskBulk, CancelBulk, RunBulkAction, OpenPicker, DownloadSelected,
           ClosePicker, ToggleSelected
  <1>2. CASE \/ \E action \in {"approve", "correct"} : AskBulk(action)
             \/ CancelBulk \/ OpenPicker \/ ClosePicker
    <2>1. /\ page' \in QueuePage /\ page'.list = page.list /\ page'.error = page.error
          /\ page'.running = page.running /\ page'.downloading = page.downloading
          /\ tasks' = tasks
      BY <1>1, <1>2 DEF QueuePage, AskBulk, CancelBulk, OpenPicker, ClosePicker
    <2> QED BY <1>1, <2>1, QueueTaps
  <1>3. CASE \E any \in BOOLEAN : ToggleSelected(any)
    <2>1. /\ page' \in QueuePage /\ page'.list = page.list /\ page'.error = page.error
          /\ page'.running = page.running /\ page'.downloading = page.downloading
          /\ tasks' = tasks
      BY <1>1, <1>3 DEF QueuePage, ToggleSelected
    <2> QED BY <1>1, <2>1, QueueTaps
  <1>4. CASE RunBulkAction
    <2> DEFINE ids == BulkTargets(page.ask)
               ever == Speaking(page.ask, ids, server.rows)
               arg == [action |-> page.ask, ids |-> ids, left |-> {}, found |-> {},
                       ever |-> ever]
               new == New("list", arg)
    <2>1. /\ page' \in QueuePage /\ page'.list = page.list /\ page'.error = page.error
          /\ page'.downloading = page.downloading /\ page.ask \in {"approve", "correct"}
      BY <1>1, <1>4 DEF QueuePage, RunBulkAction
    <2>2. tasks' = tasks \cup {new} /\ IsTask(new) /\ new.fn = "list" /\ new.wire = "sent"
          /\ new.arg = arg
      BY <1>4, NewTask DEF RunBulkAction, Start
    <2>3. ids \in SUBSET QueueIds
      BY DEF BulkTargets
    <2> HIDE DEF ids
    <2>4. ever \in SUBSET Pairs
      BY <2>3 DEF Speaking, Pairs
    <2>5. arg \in Batch /\ arg.ever = Speaking(arg.action, arg.ids, server.rows)
          /\ arg.found = {}
      BY <2>1, <2>3, <2>4 DEF Batch
    <2> HIDE DEF new, arg
    <2>6. QueueTask(new)
      BY <2>2, <2>5 DEF QueueTask, Decides, Sound
    <2> QED BY <1>1, <2>1, <2>2, <2>6, QueueTaps DEF Decides
  <1>5. CASE DownloadSelected
    <2> DEFINE new == New("download", None)
    <2>1. /\ page' \in QueuePage /\ page'.list = page.list /\ page'.error = page.error
          /\ page'.running = page.running
      BY <1>1, <1>5 DEF QueuePage, DownloadSelected
    <2>2. tasks' = tasks \cup {new} /\ IsTask(new) /\ new.fn = "download"
      BY <1>5, NewTask DEF DownloadSelected, Start
    <2> HIDE DEF new
    <2>3. QueueTask(new)
      BY <2>2 DEF QueueTask, Decides
    <2> QED BY <1>1, <2>1, <2>2, <2>3, QueueTaps
  <1> QED BY <1>2, <1>3, <1>4, <1>5

LEMMA QueueReplies ==
  ASSUME QueueInv, NEW t \in tasks,
         QueueLoadReturns(t) \/ BulkReturns(t) \/ \E skipped \in BOOLEAN : DownloadEnds(t, skipped)
  PROVE  QueueInv'
  <1>0. UNCHANGED <<server, stale>> /\ t.wire # "sent"
    <2>1. QueueLoadReturns(t) => UNCHANGED <<server, stale>> /\ t.wire # "sent"
      BY DEF QueueLoadReturns
    <2>2. BulkReturns(t) => UNCHANGED <<server, stale>> /\ t.wire # "sent"
      BY DEF BulkReturns
    <2>3. \A skipped : DownloadEnds(t, skipped) => UNCHANGED <<server, stale>> /\ t.wire # "sent"
      BY Zenon DEF DownloadEnds
    <2> QED BY <2>1, <2>2, <2>3
  <1>1. page \in QueuePage /\ UNCHANGED <<server, stale>> /\ QueueTask(t) /\ t.wire # "sent"
        /\ t.wire \in {"ok", "failed"}
    BY <1>0 DEF QueueInv, QueueTask, IsTask
  <1>2. CASE QueueLoadReturns(t)
    <2>1. t.fn = "load" /\ tasks' = tasks \ {t}
      BY <1>2 DEF QueueLoadReturns, End
    <2>2. /\ page' \in QueuePage /\ page'.running = page.running
          /\ page'.downloading = page.downloading
          /\ IF t.wire = "ok" THEN page'.list = t.reply ELSE page'.error
      BY <1>1, <1>2, <2>1 DEF QueueLoadReturns, QueuePage, QueueTask
    <2>3. \A u \in tasks' : QueueTask(u)'
      BY <1>1, <2>1 DEF QueueInv, QueueTask
    <2>4. page'.error \/ page'.list # None
      BY <1>1, <2>1, <2>2, QueueAssumption DEF QueueAssumption, QueueTask, QueueList
    <2>5. QueueAwaited' /\ QueueFollows'
      BY <1>1, <2>1, <2>2, <2>4 DEF QueueInv, QueueAwaited, QueueFollows, QueueTask, Decides
    <2> QED BY <1>1, <2>2, <2>3, <2>5 DEF QueueInv
  <1>3. CASE \E skipped \in BOOLEAN : DownloadEnds(t, skipped)
    <2>0. PICK skipped \in BOOLEAN : DownloadEnds(t, skipped)
      BY <1>3
    <2> DEFINE open == skipped \/ t.wire = "failed"
               kept == page.selected /\ open
    <2>a. /\ t.fn = "download" /\ End(t)
          /\ page' = [page EXCEPT !.downloading = FALSE, !.picker = open, !.selected = kept]
      BY <2>0, Zenon DEF DownloadEnds
    <2>b. open \in BOOLEAN /\ kept \in BOOLEAN
      OBVIOUS
    <2> HIDE DEF open, kept
    <2>1. /\ t.fn = "download" /\ tasks' = tasks \ {t}
          /\ page' \in QueuePage /\ page'.running = page.running /\ ~page'.downloading
          /\ page'.list = page.list /\ page'.error = page.error
      BY <1>1, <2>a, <2>b DEF QueuePage, End
    <2>2. \A u \in tasks' : QueueTask(u)'
      BY <1>1, <2>1 DEF QueueInv, QueueTask
    <2>3. QueueAwaited' /\ QueueFollows'
      BY <1>1, <2>1 DEF QueueInv, QueueAwaited, QueueFollows, QueueReread, Decides
    <2> QED BY <1>1, <2>1, <2>2, <2>3 DEF QueueInv
  <1>4. CASE BulkReturns(t)
    <2>1. /\ Decides(t) /\ page' \in QueuePage /\ ~page'.running
          /\ page'.downloading = page.downloading /\ page'.list = page.list
          /\ page'.error = page.error
      BY <1>1, <1>4 DEF BulkReturns, Decides, QueuePage
    <2>2. CASE t.wire = "failed"
      <3>1. tasks' = tasks \ {t}
        BY <1>4, <2>2 DEF BulkReturns, End
      <3>2. \A u \in tasks' : QueueTask(u)'
        BY <1>1, <3>1 DEF QueueInv, QueueTask
      <3>3. QueueAwaited' /\ QueueFollows'
        BY <1>1, <2>1, <2>2, <3>1 DEF QueueInv, QueueAwaited, QueueFollows, QueueReread,
                                      Decides
      <3> QED BY <1>1, <2>1, <3>2, <3>3 DEF QueueInv
    <2>3. CASE t.wire = "ok"
      <3> DEFINE new == Task("load", 1, None)
      <3>1. tasks' = {u \in tasks \ {t} : u.fn # "load"} \cup {new}
        BY <1>4, <2>3 DEF BulkReturns
      <3>2. IsTask(new) /\ new.fn = "load" /\ new.wire = "sent"
        BY FirstTask
      <3> HIDE DEF new
      <3>3. QueueTask(new)'
        BY <3>2 DEF QueueTask, Decides
      <3>4. \A u \in tasks' : QueueTask(u)'
        BY <1>1, <3>1, <3>3 DEF QueueInv, QueueTask
      <3>5. QueueAwaited' /\ QueueFollows'
        BY <1>1, <2>1, <3>1, <3>2 DEF QueueInv, QueueAwaited, QueueFollows, QueueReread,
                                      Decides
      <3> QED BY <1>1, <2>1, <3>4, <3>5 DEF QueueInv
    <2> QED BY <1>1, <2>2, <2>3
  <1> QED BY <1>2, <1>3, <1>4

\* A batch goes on as u, and nothing else changes.
LEMMA BatchGoesOn ==
  ASSUME QueueInv, NEW t \in tasks, NEW u, UNCHANGED <<page, server, stale>>,
         Decides(t), t.wire = "sent", Decides(u), QueueTask(u),
         tasks' = (tasks \ {t}) \cup {u}
  PROVE  QueueInv'
  <1>1. \A v \in tasks' : QueueTask(v)'
    BY DEF QueueInv, QueueTask
  <1>2. QueueAwaited' /\ QueueFollows'
    BY DEF QueueInv, QueueAwaited, QueueFollows, QueueReread, Decides
  <1> QED BY <1>1, <1>2 DEF QueueInv

\* The calls about the list and the download, and a batch that fails as a whole.
LEMMA ServeQueueKeeps ==
  ASSUME QueueInv, NEW t \in tasks, ServeQueue(t)
  PROVE  QueueInv'
  <1>1. page \in QueuePage /\ UNCHANGED <<page, server>> /\ QueueTask(t) /\ t.wire = "sent"
        /\ server.rows \in QueueRows
    BY DEF QueueInv, ServeQueue, QueueTask, Awaiting, Serve
  <1>2. ASSUME NEW reply, Serve(t, TRUE, server, reply), t.fn \in {"load", "download"},
               t.fn = "load" => reply = Listing(server.rows)
        PROVE  QueueInv'
    <2>1. IsTask(t)
      BY <1>1 DEF QueueTask
    <2>2. PICK u : Ended(t, u, TRUE, server, reply)
      BY <1>1, <1>2, <2>1, CallEnds
    <2>3. /\ IsTask(u) /\ u.fn = t.fn /\ tasks' = (tasks \ {t}) \cup {u}
          /\ u.wire = "ok" => u.reply = reply
          /\ ~stale' => IF t.fn = "load" /\ u.wire = "ok"
                          THEN \A v \in tasks \ {t} : ~OnItsWay(v) ELSE ~stale
      BY <2>2 DEF Ended
    <2>4. \A v \in tasks \ {t} : QueueTask(v)'
      BY <1>1, <2>3 DEF QueueInv, QueueTask, OnItsWay
    <2>5. QueueTask(u)'
      BY <1>1, <1>2, <2>3, ListingTypes DEF QueueTask, Decides
    <2>6. QueueAwaited'
      BY <1>1, <1>2, <2>3 DEF QueueInv, QueueAwaited, Decides
    <2>7. QueueFollows'
      BY <1>1, <1>2, <2>3 DEF QueueInv, QueueFollows, QueueReread
    <2> QED BY <1>1, <2>3, <2>4, <2>5, <2>6, <2>7 DEF QueueInv
  <1>3. CASE Awaiting(t, {"load"}) /\ Serve(t, TRUE, server, Listing(server.rows))
    BY <1>2, <1>3 DEF Awaiting
  <1>4. CASE Awaiting(t, {"download"}) /\ Serve(t, TRUE, server, None)
    BY <1>2, <1>4 DEF Awaiting
  <1>5. CASE /\ Awaiting(t, {"list", "triage"}) /\ Over(t, "failed")
             /\ UNCHANGED <<page, server, stale>>
    <2> DEFINE u == [t EXCEPT !.wire = "failed", !.arg = None]
    <2>1. tasks' = (tasks \ {t}) \cup {u} /\ t.fn \in {"list", "triage"}
      BY <1>5 DEF Awaiting, Over, GoOn
    <2>2. IsTask(u) /\ u.fn = t.fn /\ u.wire = "failed"
      BY <1>1 DEF QueueTask, IsTask
    <2> HIDE DEF u
    <2>3. QueueTask(u)
      BY <2>1, <2>2 DEF QueueTask
    <2> QED BY <1>1, <1>5, <2>1, <2>2, <2>3, BatchGoesOn DEF Decides
  <1> QED BY <1>3, <1>4, <1>5 DEF ServeQueue

LEMMA ListPendingKeeps ==
  ASSUME QueueInv, NEW t \in tasks, ListPending(t)
  PROVE  QueueInv'
  <1> DEFINE ids == {a \in t.arg.ids : server.rows[a].status = "pending"}
             left == ids \X Grounds
             arg == [t.arg EXCEPT !.ids = ids, !.left = left]
             u == [t EXCEPT !.fn = "triage", !.arg.ids = ids, !.arg.left = left]
  <1>0. GoOn(t, u)
    BY Zenon DEF ListPending
  <1>a. ids \subseteq t.arg.ids /\ left = ids \X Grounds
    OBVIOUS
  <1> HIDE DEF ids, left
  <1>b. UNCHANGED <<page, server, stale>> /\ t.fn = "list" /\ t.wire = "sent"
    BY Zenon DEF ListPending, Awaiting
  <1>1. /\ tasks' = (tasks \ {t}) \cup {u} /\ UNCHANGED <<page, server, stale>>
        /\ QueueTask(t) /\ t.fn = "list" /\ t.wire = "sent"
    BY <1>0, <1>b, Zenon DEF QueueInv, GoOn
  <1>2. t.arg \in Batch /\ Speaking(t.arg.action, t.arg.ids, server.rows) \subseteq t.arg.ever
        /\ t.arg.found = {}
    BY <1>1 DEF QueueTask, Decides, Sound
  <1>3. IsTask(u) /\ u.fn = "triage" /\ u.wire = "sent" /\ u.arg = arg
    BY <1>1, <1>2 DEF QueueTask, IsTask, Batch
  <1>4. ids \subseteq t.arg.ids /\ left \subseteq Pairs
    BY <1>2, <1>a DEF Batch, Pairs
  <1> HIDE DEF u
  <1>5. arg \in Batch /\ arg.action = t.arg.action /\ arg.ids = ids /\ arg.left = ids \X Grounds
        /\ arg.found = {} /\ arg.ever = t.arg.ever
    BY <1>2, <1>4, <1>a DEF Batch
  <1> HIDE DEF arg
  <1>6. Speaking(arg.action, arg.ids, server.rows) \subseteq arg.ever
    BY <1>2, <1>4, <1>5 DEF Speaking
  <1>7. \A a \in arg.ids : ReadSoFar(arg, a)
    BY <1>5 DEF ReadSoFar
  <1>8. QueueTask(u)
    BY <1>3, <1>5, <1>6, <1>7 DEF QueueTask, Sound
  <1> QED BY <1>1, <1>3, <1>8, BatchGoesOn DEF Decides

\* A statement of triage reads one ground as it is now.
LEMMA ReadGroundKeeps ==
  ASSUME QueueInv, NEW t \in tasks, NEW p \in Pairs, ReadGround(t, p)
  PROVE  QueueInv'
  <1> DEFINE found == IF p[2] \in server.rows[p[1]].lacks THEN t.arg.found \cup {p[1]}
                      ELSE t.arg.found
             arg == [t.arg EXCEPT !.left = @ \ {p}, !.found = found]
             u == [t EXCEPT !.arg.left = @ \ {p},
                     !.arg.found = IF p[2] \in server.rows[p[1]].lacks THEN @ \cup {p[1]}
                                   ELSE @]
  <1>1. /\ tasks' = (tasks \ {t}) \cup {u} /\ UNCHANGED <<page, server, stale>>
        /\ QueueTask(t) /\ t.fn = "triage" /\ t.wire = "sent" /\ p \in t.arg.left
    BY DEF QueueInv, ReadGround, Awaiting, GoOn
  <1>2. /\ t.arg \in Batch /\ Speaking(t.arg.action, t.arg.ids, server.rows) \subseteq t.arg.ever
        /\ t.arg.left \subseteq t.arg.ids \X Grounds
        /\ \A a \in t.arg.ids : ReadSoFar(t.arg, a)
    BY <1>1 DEF QueueTask, Decides, Sound
  <1>3. IsTask(u) /\ u.fn = "triage" /\ u.wire = "sent" /\ u.arg = arg
    BY <1>1, <1>2 DEF QueueTask, IsTask, Batch
  <1> HIDE DEF u
  <1>4. PICK b \in t.arg.ids, h \in Grounds : p = <<b, h>>
    BY <1>1, <1>2
  <1>5. t.arg.ids \in SUBSET QueueIds
    BY <1>2 DEF Batch
  <1>6. (h \in server.rows[b].lacks <=> t.arg.action = "correct") => p \in t.arg.ever
    <2>1. \A a \in t.arg.ids, g \in Grounds :
            <<a, g>> \in Speaking(t.arg.action, t.arg.ids, server.rows)
              <=> (g \in server.rows[a].lacks <=> t.arg.action = "correct")
      BY DEF Speaking
    <2> QED BY <1>2, <1>4, <2>1
  <1>7. found = IF h \in server.rows[b].lacks THEN t.arg.found \cup {b} ELSE t.arg.found
    BY <1>4
  <1>8. found \in SUBSET QueueIds
    BY <1>2, <1>5, <1>7 DEF Batch
  <1> HIDE DEF found
  <1>9. /\ arg \in Batch /\ arg.action = t.arg.action /\ arg.ids = t.arg.ids
        /\ arg.left = t.arg.left \ {p} /\ arg.found = found /\ arg.ever = t.arg.ever
    BY <1>2, <1>8 DEF Batch
  <1> HIDE DEF arg
  <1>10. t.arg.action \in {"approve", "correct"}
    BY <1>2 DEF Batch
  <1>11. ASSUME NEW a \in arg.ids PROVE ReadSoFar(arg, a)
    <2>1. ReadSoFar(t.arg, a)
      BY <1>2, <1>9
    <2>2. ASSUME arg.action = "approve", a \notin arg.found, NEW g \in Grounds
          PROVE  <<a, g>> \in arg.left \/ <<a, g>> \in arg.ever
      <3>1. a \notin t.arg.found /\ (a = b => h \notin server.rows[b].lacks)
        BY <1>7, <1>9, <2>2
      <3>2. <<a, g>> \in t.arg.left \/ <<a, g>> \in t.arg.ever
        BY <1>9, <2>1, <2>2, <3>1 DEF ReadSoFar
      <3>3. <<a, g>> = p => p \in t.arg.ever
        BY <1>4, <1>6, <1>9, <2>2, <3>1
      <3> QED BY <1>9, <3>2, <3>3
    <2>3. ASSUME arg.action = "correct", a \in arg.found
          PROVE  \E g \in Grounds : <<a, g>> \in arg.ever
      <3>1. CASE a \in t.arg.found
        BY <1>9, <2>1, <2>3, <3>1 DEF ReadSoFar
      <3>2. CASE a \notin t.arg.found
        BY <1>4, <1>6, <1>7, <1>9, <2>3, <3>2
      <3> QED BY <3>1, <3>2
    <2> QED BY <2>2, <2>3 DEF ReadSoFar
  <1>12. QueueTask(u)
    BY <1>2, <1>3, <1>9, <1>11 DEF QueueTask, Sound
  <1> QED BY <1>1, <1>3, <1>12, BatchGoesOn DEF Decides

\* Triage keeps those for which it has read enough.
LEMMA ReTriageKeeps ==
  ASSUME QueueInv, NEW t \in tasks, ReTriage(t)
  PROVE  QueueInv'
  <1> DEFINE ids == IF t.arg.action = "approve" THEN t.arg.ids \ t.arg.found
                    ELSE t.arg.ids \cap t.arg.found
             arg == [t.arg EXCEPT !.found = {}, !.ids = ids]
             u == [t EXCEPT !.fn = "decide", !.arg.found = {},
                     !.arg.ids = IF t.arg.action = "approve" THEN @ \ t.arg.found
                                 ELSE @ \cap t.arg.found]
  <1>1. /\ tasks' = (tasks \ {t}) \cup {u} /\ UNCHANGED <<page, server, stale>>
        /\ QueueTask(t) /\ t.fn = "triage" /\ t.wire = "sent" /\ t.arg.left = {}
    BY DEF QueueInv, ReTriage, Awaiting, GoOn
  <1>2. /\ t.arg \in Batch /\ Speaking(t.arg.action, t.arg.ids, server.rows) \subseteq t.arg.ever
        /\ \A a \in t.arg.ids : ReadSoFar(t.arg, a)
    BY <1>1 DEF QueueTask, Decides, Sound
  <1>3. IsTask(u) /\ u.fn = "decide" /\ u.wire = "sent" /\ u.arg = arg
    BY <1>1, <1>2 DEF QueueTask, IsTask, Batch
  <1> HIDE DEF u
  <1>4. ids \in SUBSET QueueIds /\ ids \subseteq t.arg.ids
        /\ \A a \in ids : (t.arg.action = "approve" <=> a \notin t.arg.found)
    BY <1>2 DEF Batch
  <1> HIDE DEF ids
  <1>5. /\ arg \in Batch /\ arg.action = t.arg.action /\ arg.ids = ids /\ arg.ever = t.arg.ever
        /\ t.arg.action \in {"approve", "correct"}
    BY <1>2, <1>4 DEF Batch
  <1> HIDE DEF arg
  <1>6. \A a \in arg.ids : Grounded(arg.action, a, arg.ever)
    BY <1>1, <1>2, <1>4, <1>5 DEF Grounded, ReadSoFar
  <1>7. Speaking(arg.action, arg.ids, server.rows) \subseteq arg.ever
    BY <1>2, <1>4, <1>5 DEF Speaking
  <1>8. QueueTask(u)
    BY <1>3, <1>5, <1>6, <1>7 DEF QueueTask, Sound
  <1> QED BY <1>1, <1>3, <1>8, BatchGoesOn DEF Decides

LEMMA DecideBatchKeeps ==
  ASSUME QueueInv, NEW t \in tasks, DecideBatch(t)
  PROVE  QueueInv'
  <1>1. page \in QueuePage /\ UNCHANGED page /\ QueueTask(t) /\ t.wire = "sent"
        /\ t.fn = "decide" /\ server.rows \in QueueRows /\ server.bulk = {}
    BY DEF QueueInv, DecideBatch, QueueTask, Awaiting
  <1>2. t.arg \in Batch /\ \A a \in t.arg.ids : Grounded(t.arg.action, a, t.arg.ever)
    BY <1>1 DEF QueueTask, Decides, Sound
  <1>3. PICK done \in SUBSET {a \in t.arg.ids : server.rows[a].status = "pending"} :
          /\ server' = [rows |-> [a \in QueueIds |-> IF a \in done
                          THEN [server.rows[a] EXCEPT !.status = StatusAfter(t.arg.action)]
                          ELSE server.rows[a]],
                        bulk |-> server.bulk \cup
                           {a \in done : ~Grounded(t.arg.action, a, t.arg.ever)}]
          /\ \/ Over(t, "ok") /\ stale' = (stale \/ (done # {} /\ ReadUnderWay(t)))
             \/ Over(t, "failed") /\ stale' = (stale \/ done # {})
    BY DEF DecideBatch
  <1>4. /\ server' \in [rows : QueueRows, bulk : {{}}]
        /\ \A a \in QueueIds : server'.rows[a].lacks = server.rows[a].lacks
        /\ done = {} => server'.rows = server.rows
    <2> DEFINE after(a) == IF a \in done
                             THEN [server.rows[a] EXCEPT !.status = StatusAfter(t.arg.action)]
                             ELSE server.rows[a]
    <2>1. server'.rows = [a \in QueueIds |-> after(a)]
      BY <1>3
    <2>2. server' = [rows |-> server'.rows, bulk |-> {}]
      BY <1>1, <1>2, <1>3
    <2>3. ASSUME NEW a \in QueueIds
          PROVE  after(a) \in QueueRow /\ after(a).lacks = server.rows[a].lacks
      <3>1. server.rows[a] \in QueueRow
        BY <1>1 DEF QueueRows
      <3> QED BY <3>1 DEF QueueRow, StatusAfter
    <2>4. done = {} => \A a \in QueueIds : after(a) = server.rows[a]
      OBVIOUS
    <2> HIDE DEF after
    <2> QED BY <1>1, <2>1, <2>2, <2>3, <2>4 DEF QueueRows
  <1>5. PICK u : /\ IsTask(u) /\ u.fn = "decide" /\ u.wire \in {"ok", "failed"}
                 /\ tasks' = (tasks \ {t}) \cup {u}
                 /\ ~stale' => /\ ~stale
                               /\ done = {} \/ (u.wire = "ok" /\ ~ReadUnderWay(t))
    <2> DEFINE answer(w) == [t EXCEPT !.wire = w, !.arg = None]
    <2>1. \A w \in {"ok", "failed"} : /\ IsTask(answer(w)) /\ answer(w).fn = "decide"
                                      /\ answer(w).wire = w
      BY <1>1 DEF QueueTask, IsTask
    <2>2. \A w : Over(t, w) => tasks' = (tasks \ {t}) \cup {answer(w)}
      BY DEF Over, GoOn
    <2> HIDE DEF answer
    <2> QED BY <1>3, <2>1, <2>2
  <1>6. ASSUME NEW v \in tasks \ {t} PROVE QueueTask(v)'
    <2>1. QueueTask(v)
      BY DEF QueueInv
    <2>2. Decides(v) /\ v.wire = "sent" => Sound(v.fn, v.arg, server'.rows)
      <3> SUFFICES ASSUME Decides(v), v.wire = "sent" PROVE Sound(v.fn, v.arg, server'.rows)
        OBVIOUS
      <3>1. Sound(v.fn, v.arg, server.rows) /\ v.arg.ids \in SUBSET QueueIds
        BY <2>1 DEF QueueTask, Sound, Batch
      <3>2. Speaking(v.arg.action, v.arg.ids, server'.rows)
              \subseteq Speaking(v.arg.action, v.arg.ids, server.rows)
        BY <1>4, <3>1 DEF Speaking
      <3> QED BY <3>1, <3>2 DEF Sound
    <2>3. v.fn = "load" /\ v.wire = "ok" /\ ~stale' => v.reply = Listing(server'.rows)
      BY <1>4, <1>5, <2>1 DEF QueueTask, ReadUnderWay, OnItsWay
    <2> QED BY <2>1, <2>2, <2>3 DEF QueueTask
  <1>7. QueueTask(u)'
    BY <1>5 DEF QueueTask
  <1>8. QueueAwaited'
    BY <1>1, <1>5 DEF QueueInv, QueueAwaited, Decides
  <1>9. QueueFollows'
    BY <1>1, <1>4, <1>5 DEF QueueInv, QueueFollows, QueueReread
  <1> QED BY <1>1, <1>4, <1>5, <1>6, <1>7, <1>8, <1>9 DEF QueueInv

LEMMA QueueMovesKeeps ==
  ASSUME QueueInv, NEW a \in QueueIds, NEW row \in QueueRow, QueueMoves(a, row)
  PROVE  QueueInv'
  <1> DEFINE Sees(t) == t.fn \in {"list", "triage", "decide"} /\ t.wire = "sent"
             noted(t) == Speaking(t.arg.action, t.arg.ids, server'.rows)
             Since(t) == IF Sees(t) THEN [t EXCEPT !.arg.ever = @ \cup noted(t)] ELSE t
  <1>1. /\ tasks' = {Since(t) : t \in tasks} /\ stale' = TRUE /\ UNCHANGED page
        /\ server' = [server EXCEPT !.rows[a] = row]
    BY DEF QueueMoves
  <1>2. server.rows \in QueueRows /\ server.bulk = {} /\ page \in QueuePage
    BY DEF QueueInv
  <1>3. server' \in [rows : QueueRows, bulk : {{}}]
    <2> DEFINE rows == [server.rows EXCEPT ![a] = row]
    <2>1. rows \in QueueRows
      BY <1>2 DEF QueueRows
    <2>2. server' = [rows |-> rows, bulk |-> {}]
      BY <1>1, <1>2 DEF QueueInv
    <2> HIDE DEF rows
    <2> QED BY <2>1, <2>2
  <1>4. ASSUME NEW t \in tasks
        PROVE  /\ IsTask(Since(t)) /\ Since(t).fn = t.fn /\ Since(t).wire = t.wire
               /\ Since(t).reply = t.reply
               /\ Sees(t) => Sound(t.fn, Since(t).arg, server'.rows)
    <2>1. QueueTask(t)
      BY DEF QueueInv
    <2>2. CASE Sees(t)
      <3> DEFINE now == noted(t)
                 arg == [t.arg EXCEPT !.ever = @ \cup now]
                 u == [t EXCEPT !.arg.ever = @ \cup now]
      <3>1. Sound(t.fn, t.arg, server.rows) /\ t.arg \in Batch
        BY <2>1, <2>2 DEF QueueTask, Decides, Sound
      <3>2. Since(t) = u
        BY <2>2
      <3>3. IsTask(u) /\ u.fn = t.fn /\ u.wire = t.wire /\ u.reply = t.reply /\ u.arg = arg
        BY <2>1, <3>1 DEF QueueTask, IsTask, Batch
      <3>0. t.arg.ids \in SUBSET QueueIds
        BY <3>1 DEF Batch
      <3>4. now \in SUBSET Pairs
        BY <3>0 DEF Speaking, Pairs
      <3>5. now = Speaking(t.arg.action, t.arg.ids, server'.rows)
        OBVIOUS
      <3> HIDE DEF u, now, Since
      <3>6. /\ arg \in Batch /\ arg.action = t.arg.action /\ arg.ids = t.arg.ids
            /\ arg.left = t.arg.left /\ arg.found = t.arg.found
            /\ arg.ever = t.arg.ever \cup now
        BY <3>1, <3>4 DEF Batch
      <3> HIDE DEF arg
      <3>7. \A b : /\ ReadSoFar(t.arg, b) => ReadSoFar(arg, b)
                   /\ Grounded(t.arg.action, b, t.arg.ever) => Grounded(arg.action, b, arg.ever)
        BY <3>6 DEF ReadSoFar, Grounded
      <3>8. Speaking(arg.action, arg.ids, server'.rows) \subseteq arg.ever
        BY <3>5, <3>6
      <3>9. Sound(t.fn, arg, server'.rows)
        BY <3>1, <3>6, <3>7, <3>8 DEF Sound
      <3> QED BY <3>2, <3>3, <3>9
    <2>3. CASE ~Sees(t)
      BY <2>1, <2>3 DEF QueueTask
    <2> QED BY <2>2, <2>3
  <1> HIDE DEF Since
  <1>5. ASSUME NEW u \in tasks' PROVE QueueTask(u)'
    <2>1. PICK t \in tasks : u = Since(t)
      BY <1>1
    <2>2. QueueTask(t)
      BY DEF QueueInv
    <2>3. Decides(u) /\ u.wire = "sent" => Sound(u.fn, u.arg, server'.rows)
      BY <1>4, <2>1 DEF Decides
    <2>4. IsTask(u) /\ u.fn = t.fn /\ u.wire = t.wire /\ u.reply = t.reply
      BY <1>4, <2>1
    <2> QED BY <1>1, <2>2, <2>3, <2>4 DEF QueueTask
  <1>6. \A t \in tasks : \E u \in tasks' : u.fn = t.fn /\ u.wire = t.wire
    BY <1>1, <1>4
  <1>7. QueueAwaited' /\ QueueFollows'
    BY <1>1, <1>6 DEF QueueInv, QueueAwaited, QueueFollows, Decides
  <1> QED BY <1>1, <1>2, <1>3, <1>5, <1>7 DEF QueueInv

LEMMA QueueKept == QueueInv /\ QueueNext => QueueInv'
  <1> SUFFICES ASSUME QueueInv, QueueNext PROVE QueueInv'
    OBVIOUS
  <1> QED BY QueueAsked, QueueReplies, ServeQueueKeeps, ListPendingKeeps, ReadGroundKeeps,
             ReTriageKeeps, DecideBatchKeeps, QueueMovesKeeps DEF QueueNext, Pairs

LEMMA QueueIdle == QueueInv /\ UNCHANGED vars => QueueInv'
  BY DEF vars, QueueInv, QueueTask, QueueAwaited, QueueFollows, QueueReread

LEMMA QueueAlways == Spec => [](Named /\ (page.at = "queue" => QueueInv))
  <1> DEFINE IInv == Named /\ (page.at = "queue" => QueueInv)
  <1>1. Init => IInv
    BY PortalBegins, OfficeBegins, QueueBegins DEF Init
  <1>2. IInv /\ [Next]_vars => IInv'
    <2> SUFFICES ASSUME IInv, [Next]_vars PROVE IInv'
      OBVIOUS
    <2>1. Named' /\ page'.at = page.at
      BY NextStays DEF Named, Stays
    <2> QED BY <2>1, StepOfPage, QueueKept, QueueIdle
  <1> QED BY <1>1, <1>2, PTL DEF Spec

LEMMA QueueRest == QueueInv => /\ server.bulk = {}
                               /\ tasks = {} => ~QueueBusy /\ (~stale => QueueAgree)
  BY DEF QueueInv, QueueAwaited, QueueFollows, QueueReread, QueueBusy, QueueAgree

\* A bulk action decides only what triage, which the service goes through again,
\* could find the ground for, or every ground, after the manager confirmed it:
\* however old the list on the screen, in whatever order the grounds are read
\* and whatever changes between two readings (TriageService.bulk, RunBulkAction).
THEOREM BulkDecidesFresh == Spec => []BulkIsFresh
  <1>1. Named /\ (page.at = "queue" => QueueInv) => BulkIsFresh
    BY QueueRest DEF BulkIsFresh
  <1> QED BY <1>1, QueueAlways, PTL

------------------------------------------------------------------------------
\* The badge: what it counts.

BadgePage ==
  [at : {"badge"}, seen : Nat, looked : Nat, counted : SUBSET QueueIds, failed : BOOLEAN]
Arrivals == {s \in [created : [QueueIds -> Nat], clock : Nat] :
               \A a \in QueueIds : s.created[a] <= s.clock}
BadgeTask(t) ==
  /\ IsTask(t) /\ t.fn = "load"
  /\ t.wire = "ok" =>
       /\ t.reply \in [QueueIds -> Nat]
       /\ \A a \in QueueIds : t.reply[a] \in {0, server.created[a]}
BadgeInv ==
  /\ page \in BadgePage /\ server \in Arrivals
  /\ \A t \in tasks : BadgeTask(t)
  /\ tasks = {} /\ ~page.failed => \A a \in page.counted : server.created[a] > page.seen

LEMMA BadgeBegins == BadgeInit => BadgeInv
  <1> SUFFICES ASSUME BadgeInit PROVE BadgeInv
    OBVIOUS
  <1>1. page \in BadgePage /\ page.seen = 0 /\ page.counted = {}
    BY DEF BadgeInit, BadgePage
  <1>2. server \in Arrivals /\ server.clock = 0
    BY DEF BadgeInit, Arrivals
  <1>3. \A t \in tasks : BadgeTask(t)
    BY FirstTask DEF BadgeInit, BadgeTask
  <1> QED BY <1>1, <1>2, <1>3 DEF BadgeInv

LEMMA BadgeKept == BadgeInv /\ BadgeNext => BadgeInv'
  <1> SUFFICES ASSUME BadgeInv, BadgeNext PROVE BadgeInv'
    OBVIOUS
  <1>1. ASSUME NEW arg, Start(New("load", arg)), UNCHANGED server, page' \in BadgePage
        PROVE  BadgeInv'
    <2> DEFINE new == New("load", arg)
    <2>1. IsTask(new) /\ new.fn = "load" /\ new.wire = "sent"
      BY NewTask
    <2>2. tasks' = tasks \cup {new}
      BY <1>1 DEF Start
    <2> HIDE DEF new
    <2> QED BY <1>1, <2>1, <2>2 DEF BadgeInv, BadgeTask
  <1>2. CASE Poll
    BY <1>1, <1>2 DEF Poll, BadgeInv
  <1>3. ASSUME NEW now \in 0..(server.clock + 1), MarkApplicationsSeenNow(now)
        PROVE  BadgeInv'
    <2>0. page \in BadgePage /\ now \in Nat /\ server.clock \in Nat
      BY DEF BadgeInv, Arrivals
    <2>1. page' \in BadgePage
      BY <1>3, <2>0 DEF MarkApplicationsSeenNow, BadgePage
    <2>2. Start(New("load", now)) /\ UNCHANGED server
      BY <1>3 DEF MarkApplicationsSeenNow
    <2> QED BY <1>1, <2>1, <2>2
  <1>4. ASSUME NEW a \in QueueIds, ApplicationArrives(a) PROVE BadgeInv'
    <2>1. /\ server.created[a] = 0 /\ UNCHANGED <<page, tasks>>
          /\ server'.created = [server.created EXCEPT ![a] = server.clock + 1]
          /\ server' = [created |-> server'.created, clock |-> server.clock + 1]
      BY <1>4 DEF ApplicationArrives, Elsewhere
    <2>2. server.created \in [QueueIds -> Nat] /\ server.clock \in Nat
          /\ \A b \in QueueIds : server.created[b] <= server.clock
      BY DEF BadgeInv, Arrivals
    <2>3. /\ server'.created \in [QueueIds -> Nat] /\ server'.clock = server.clock + 1
          /\ server'.created[a] = server.clock + 1
          /\ \A b \in QueueIds \ {a} : server'.created[b] = server.created[b]
      BY <2>1, <2>2
    <2>4. server' \in Arrivals
      BY <2>1, <2>2, <2>3 DEF Arrivals
    <2>5. ASSUME NEW t \in tasks PROVE BadgeTask(t)'
      BY <2>1, <2>3 DEF BadgeInv, BadgeTask
    <2>6. page.counted \subseteq QueueIds /\ page.seen \in Nat
      BY DEF BadgeInv, BadgePage
    <2>7. tasks = {} /\ ~page.failed => \A b \in page.counted : server'.created[b] > page.seen
      BY <2>2, <2>3, <2>6 DEF BadgeInv
    <2> QED BY <2>1, <2>4, <2>5, <2>6, <2>7 DEF BadgeInv
  <1>5. ASSUME NEW t \in tasks, ServePoll(t) PROVE BadgeInv'
    <2>1. IsTask(t) /\ Serve(t, TRUE, server, server.created)
      BY <1>5 DEF ServePoll, BadgeInv, BadgeTask
    <2>2. PICK u : Ended(t, u, TRUE, server, server.created)
      BY <2>1, CallEnds
    <2>3. UNCHANGED <<page, server>>
      BY <2>1, CallEnds
    <2>4. BadgeTask(u)
      BY <2>2 DEF Ended, BadgeInv, BadgeTask, Arrivals
    <2>5. \A v \in tasks' : BadgeTask(v)'
      BY <2>2, <2>3, <2>4 DEF Ended, BadgeInv, BadgeTask
    <2>6. tasks' # {}
      BY <2>2 DEF Ended
    <2> QED BY <2>3, <2>5, <2>6 DEF BadgeInv
  <1>6. ASSUME NEW t \in tasks, PollReturns(t) PROVE BadgeInv'
    <2>1. /\ tasks' = tasks \ {t} /\ UNCHANGED server /\ BadgeTask(t)
          /\ t.wire \in {"ok", "failed"} /\ page \in BadgePage /\ server \in Arrivals
      BY <1>6 DEF PollReturns, End, BadgeInv, BadgeTask, IsTask
    <2>2. CASE t.wire = "failed"
      <3>1. page' \in BadgePage /\ page'.failed /\ page'.seen = page.seen
        BY <1>6, <2>1, <2>2 DEF PollReturns, BadgePage
      <3> QED BY <2>1, <3>1 DEF BadgeInv, BadgeTask
    <2>3. CASE t.wire = "ok"
      <3> DEFINE counted == {a \in QueueIds : t.reply[a] > page.seen}
      <3>a. page' = [page EXCEPT !.failed = FALSE, !.counted = counted]
        BY <1>6, <2>3 DEF PollReturns
      <3>b. counted \in SUBSET QueueIds
        OBVIOUS
      <3> HIDE DEF counted
      <3>c. page' \in BadgePage /\ page'.seen = page.seen /\ page'.counted = counted
        BY <2>1, <3>a, <3>b DEF BadgePage
      <3>1. /\ page' \in BadgePage /\ page'.seen = page.seen
            /\ page'.counted = {a \in QueueIds : t.reply[a] > page.seen}
        BY <3>c DEF counted
      <3>2. \A a \in page'.counted : server.created[a] > page.seen
        BY <2>1, <2>3, <3>1 DEF BadgeTask, BadgePage
      <3> QED BY <2>1, <3>1, <3>2 DEF BadgeInv, BadgeTask
    <2> QED BY <2>1, <2>2, <2>3
  <1> QED BY <1>2, <1>3, <1>4, <1>5, <1>6 DEF BadgeNext

LEMMA BadgeIdle == BadgeInv /\ UNCHANGED vars => BadgeInv'
  BY DEF vars, BadgeInv, BadgeTask

\* In whatever order polls overtake each other, the badge of a poll that came
\* back counts only what arrived after the time that the browser wrote down, and
\* so nothing the manager has been shown unless the browser's clock was behind
\* the server's (usePendingApplicationsCount, markApplicationsSeenNow).
THEOREM BadgeCounts == Spec => []BadgeCleared
  <1> DEFINE IInv == Named /\ (page.at = "badge" => BadgeInv)
  <1>1. Init => IInv
    BY PortalBegins, OfficeBegins, BadgeBegins DEF Init
  <1>2. IInv /\ [Next]_vars => IInv'
    <2> SUFFICES ASSUME IInv, [Next]_vars PROVE IInv'
      OBVIOUS
    <2>1. Named' /\ page'.at = page.at
      BY NextStays DEF Named, Stays
    <2> QED BY <2>1, StepOfPage, BadgeKept, BadgeIdle
  <1>3. IInv => BadgeCleared
    <2> SUFFICES ASSUME BadgeInv, tasks = {}, ~page.failed, NEW a \in page.counted
                 PROVE  /\ server.created[a] > page.seen
                        /\ page.seen >= page.looked => server.created[a] > page.looked
      BY DEF BadgeCleared
    <2>1. /\ page.seen \in Nat /\ page.looked \in Nat /\ server.created[a] \in Nat
          /\ server.created[a] > page.seen
      BY DEF BadgeInv, BadgePage, Arrivals
    <2> QED BY <2>1
  <1> QED BY <1>1, <1>2, <1>3, PTL DEF Spec

------------------------------------------------------------------------------
\* Placement: the rooms, and the dormitory they are of.

PlacePage ==
  [at : {"place"}, step : {"student", "placement"}, students : {None} \cup SUBSET Tenants,
   error : BOOLEAN, student : Tenants \cup {None}, house : Houses \cup {None},
   rooms : [of : Houses, barred : BOOLEAN] \cup {None}, loading : BOOLEAN,
   room : Houses \cup {None}, editing : Houses \cup {None}, saving : BOOLEAN, placing : BOOLEAN,
   placeError : BOOLEAN, success : [student : Tenants, house : Houses] \cup {None},
   dormitories : BOOLEAN, dormitoriesError : BOOLEAN]
\* What the page has read, or failed to read, of students and dormitories.
SameLists(p) ==
  /\ p.students = page.students /\ p.error = page.error
  /\ p.dormitories = page.dormitories /\ p.dormitoriesError = page.dormitoriesError
PlaceRows == [where : [Tenants -> Houses \cup {None}], barred : SUBSET Houses]
Homeless == {s \in Tenants : server.where[s] = None}
Lives(arg) == arg.house # None /\ server.where[arg.student] = arg.house
PlaceTask(t) ==
  /\ IsTask(t) /\ t.fn \in {"load", "rooms", "relax", "place", "dormitories"}
  /\ t.fn = "load" /\ t.wire = "ok" =>
       t.reply \in SUBSET Tenants /\ (~stale => t.reply = Homeless)
  /\ t.fn = "rooms" => t.arg \in Houses /\ t.arg # None /\ t.arg = page.house
  /\ t.fn = "relax" => t.arg \in Houses
  /\ t.fn = "place" => t.arg \in [student : Tenants, house : Houses] /\ t.arg.house # None
  /\ t.fn = "place" /\ t.wire = "ok" => Lives(t.arg)
PlaceReread(ts) == \E t \in ts : t.fn = "load" \/ (t.fn = "place" /\ t.wire = "ok")
PlaceAwaited ==
  /\ page.placing => \E t \in tasks : t.fn = "place"
  /\ page.saving => \E t \in tasks : t.fn = "relax"
  /\ page.house # None /\ page.loading => \E t \in tasks : t.fn = "rooms"
  /\ page.students = None /\ ~page.error => \E t \in tasks : t.fn = "load"
  /\ ~page.dormitories /\ ~page.dormitoriesError => \E t \in tasks : t.fn = "dormitories"
PlaceFollows ==
  ~stale /\ page.students # None /\ ~page.error =>
    page.students = Homeless \/ PlaceReread(tasks)
PlaceInv ==
  /\ page \in PlacePage /\ server \in PlaceRows
  /\ \A t \in tasks : PlaceTask(t)
  /\ page.rooms # None => page.house # None /\ page.rooms.of = page.house
  /\ page.room # None => page.room = page.house
  /\ page.success # None => Lives(page.success)
  /\ PlaceAwaited /\ PlaceFollows

LEMMA PlaceBegins == PlaceInit => PlaceInv
  <1> SUFFICES ASSUME PlaceInit PROVE PlaceInv
    OBVIOUS
  <1>1. /\ page \in PlacePage /\ ~page.placing /\ ~page.saving /\ page.house = None
        /\ page.rooms = None /\ page.room = None /\ page.success = None /\ page.students = None
    BY DEF PlaceInit, PlacePage
  <1>2. server \in PlaceRows
    BY DEF PlaceInit, PlaceRows
  <1>3. \A t \in tasks : PlaceTask(t)
    BY FirstTask DEF PlaceInit, PlaceTask
  <1>4. PlaceAwaited /\ PlaceFollows
    BY <1>1, FirstTask DEF PlaceInit, PlaceAwaited, PlaceFollows
  <1> QED BY <1>1, <1>2, <1>3, <1>4 DEF PlaceInv

\* What leaves the house, its rooms and the students as they are.
LEMMA PlaceTaps ==
  ASSUME PlaceInv, UNCHANGED <<server, stale>>, page' \in PlacePage,
         SameLists(page'),
         page'.house = page.house, page'.loading = page.loading,
         page'.rooms = None \/ (page.rooms # None /\ page'.rooms.of = page.rooms.of),
         page'.room \in {None, page.room, page.house},
         page'.success = None \/ page'.success = page.success,
         \A u \in tasks' \ tasks : PlaceTask(u),
         \A u \in tasks : u \in tasks' \/ u.fn = "relax" \/ (u.fn = "place" /\ u.wire # "ok"),
         page'.placing => \E t \in tasks' : t.fn = "place",
         page'.saving => \E t \in tasks' : t.fn = "relax"
  PROVE  PlaceInv'
  <1>1. \A u \in tasks' : PlaceTask(u)'
    BY DEF PlaceInv, PlaceTask, Homeless, Lives
  <1>2. PlaceAwaited'
    BY DEF PlaceInv, PlaceAwaited, SameLists
  <1>3. PlaceFollows'
    BY DEF PlaceInv, PlaceFollows, PlaceReread, Homeless, SameLists
  <1> QED BY <1>1, <1>2, <1>3 DEF PlaceInv, Lives

LEMMA PlaceAsked ==
  ASSUME PlaceInv,
         \/ \E s \in Tenants : SelectStudent(s)
         \/ GoToPlacement \/ SelectPlace \/ RelaxRoom \/ LeaveRestrictions \/ HandlePlace
  PROVE  PlaceInv'
  <1>1. page \in PlacePage /\ UNCHANGED <<server, stale>>
    <2>1. (\E s \in Tenants : SelectStudent(s)) => UNCHANGED <<server, stale>>
      BY Zenon DEF SelectStudent
    <2>2. GoToPlacement \/ LeaveRestrictions => UNCHANGED <<server, stale>>
      BY DEF GoToPlacement, LeaveRestrictions
    <2>3. SelectPlace \/ RelaxRoom \/ HandlePlace => UNCHANGED <<server, stale>>
      BY DEF SelectPlace, RelaxRoom, HandlePlace
    <2> QED BY <2>1, <2>2, <2>3 DEF PlaceInv
  <1>2. CASE \/ \E s \in Tenants : SelectStudent(s)
             \/ GoToPlacement \/ LeaveRestrictions
    <2>1. /\ page' \in PlacePage /\ SameLists(page')
          /\ page'.house = page.house /\ page'.loading = page.loading
          /\ page'.rooms = page.rooms /\ page'.room = page.room
          /\ page'.success \in {None, page.success} /\ page'.placing = page.placing
          /\ page'.saving = page.saving /\ tasks' = tasks
      <3>1. CASE \E s \in Tenants : SelectStudent(s)
        <4>1. PICK s \in Tenants : SelectStudent(s)
          BY <3>1
        <4>2. /\ page' = [page EXCEPT !.student = s, !.placeError = FALSE, !.success = None]
              /\ tasks' = tasks
          BY <4>1, Zenon DEF SelectStudent
        <4> QED BY <1>1, <4>2 DEF PlacePage, SameLists
      <3>2. CASE GoToPlacement
        BY <1>1, <3>2 DEF PlacePage, SameLists, GoToPlacement
      <3>3. CASE LeaveRestrictions
        BY <1>1, <3>3 DEF PlacePage, SameLists, LeaveRestrictions
      <3> QED BY <1>2, <3>1, <3>2, <3>3
    <2> QED BY <1>1, <2>1, PlaceTaps DEF PlaceInv, PlaceAwaited
  <1>3. CASE SelectPlace
    <2>1. /\ page.rooms # None /\ page.rooms \in [of : Houses, barred : BOOLEAN]
          /\ page.rooms.of = page.house
      BY <1>1, <1>3 DEF SelectPlace, PlaceInv, PlacePage
    <2>2. page' = [page EXCEPT !.editing = page.rooms.of]
          \/ page' = [page EXCEPT !.room = IF @ = None THEN page.rooms.of ELSE None]
      BY <1>3 DEF SelectPlace
    <2>3. /\ page' \in PlacePage /\ SameLists(page')
          /\ page'.house = page.house /\ page'.loading = page.loading
          /\ page'.rooms = page.rooms /\ page'.room \in {None, page.room, page.house}
          /\ page'.success = page.success /\ page'.placing = page.placing
          /\ page'.saving = page.saving
      BY <1>1, <2>1, <2>2 DEF PlacePage, SameLists
    <2>4. tasks' = tasks
      BY <1>3 DEF SelectPlace
    <2> QED BY <1>1, <2>3, <2>4, PlaceTaps DEF PlaceInv, PlaceAwaited
  <1>4. CASE RelaxRoom
    <2> DEFINE new == New("relax", page.editing)
    <2>1. /\ page' \in PlacePage /\ SameLists(page')
          /\ page'.house = page.house /\ page'.loading = page.loading
          /\ page'.rooms = page.rooms /\ page'.room = page.room
          /\ page'.success = page.success /\ page'.placing = page.placing
          /\ page.editing \in Houses
      BY <1>1, <1>4 DEF PlacePage, SameLists, RelaxRoom
    <2>2. /\ tasks' = tasks \cup {new} /\ IsTask(new) /\ new.fn = "relax" /\ new.wire = "sent"
          /\ new.arg = page.editing
      BY <1>4, NewTask DEF RelaxRoom, Start
    <2> HIDE DEF new
    <2>3. PlaceTask(new)
      BY <2>1, <2>2 DEF PlaceTask
    <2> QED BY <1>1, <2>1, <2>2, <2>3, PlaceTaps DEF PlaceInv, PlaceAwaited
  <1>5. CASE HandlePlace
    <2> DEFINE arg == [student |-> page.student, house |-> page.room]
               new == New("place", arg)
    <2>1. /\ page' \in PlacePage /\ SameLists(page')
          /\ page'.house = page.house /\ page'.loading = page.loading
          /\ page'.rooms = page.rooms /\ page'.room = page.room
          /\ page'.success = page.success /\ page'.saving = page.saving
          /\ page.student \in Tenants /\ page.room \in Houses /\ page.room # None
      BY <1>1, <1>5 DEF PlacePage, SameLists, HandlePlace, AtPlacement
    <2>2. /\ tasks' = tasks \cup {new} /\ IsTask(new) /\ new.fn = "place" /\ new.wire = "sent"
          /\ new.arg = arg
      BY <1>5, NewTask DEF HandlePlace, Start
    <2>3. arg \in [student : Tenants, house : Houses] /\ arg.house # None
      BY <2>1
    <2> HIDE DEF new, arg
    <2>4. PlaceTask(new)
      BY <2>2, <2>3 DEF PlaceTask
    <2> QED BY <1>1, <2>1, <2>2, <2>4, PlaceTaps DEF PlaceInv, PlaceAwaited
  <1> QED BY <1>2, <1>3, <1>4, <1>5

\* Another house, or none: its rooms are asked for, those of the one before
\* are given up.
LEMMA InHouseKeeps ==
  ASSUME PlaceInv, BackToStudents \/ ChangeHouse \/ \E d \in Houses : ChooseHouse(d)
  PROVE  PlaceInv'
  <1>1. PICK p \in {[page EXCEPT !.step = "student"], page, [page EXCEPT !.placeError = FALSE]},
             d \in Houses \cup {None} :
          /\ InHouse(p, d)
          /\ d # None => page.house = None
    BY DEF BackToStudents, ChangeHouse, ChooseHouse
  <1>2. page \in PlacePage /\ UNCHANGED <<server, stale>>
    BY <1>1 DEF PlaceInv, InHouse
  <1>3. p \in PlacePage /\ SameLists(p)
        /\ p.rooms = page.rooms /\ p.loading = page.loading /\ p.success = page.success
        /\ p.placing = page.placing /\ p.saving = page.saving
    BY <1>1, <1>2 DEF PlacePage, SameLists
  <1>4. /\ page' \in PlacePage /\ SameLists(page')
        /\ page'.house = d /\ page'.room = None /\ page'.success = page.success
        /\ page'.rooms = IF d = None THEN None ELSE page.rooms
        /\ page'.loading = (page.loading \/ d # None)
        /\ page'.placing = page.placing /\ page'.saving = page.saving
    <2> DEFINE rooms == IF d = None THEN None ELSE page.rooms
               loading == page.loading \/ d # None
    <2>1. page' = [p EXCEPT !.house = d, !.room = None, !.rooms = rooms, !.loading = loading]
      BY <1>1, <1>3 DEF InHouse
    <2>2. rooms \in [of : Houses, barred : BOOLEAN] \cup {None} /\ loading \in BOOLEAN
          /\ d \in Houses \cup {None}
      BY <1>2 DEF PlacePage
    <2> HIDE DEF rooms, loading
    <2>3. /\ page' \in PlacePage /\ SameLists(page')
          /\ page'.house = d /\ page'.room = None /\ page'.success = p.success
          /\ page'.rooms = rooms /\ page'.loading = loading
          /\ page'.placing = p.placing /\ page'.saving = p.saving
      BY <1>3, <2>1, <2>2 DEF PlacePage, SameLists
    <2> QED BY <1>3, <2>3 DEF rooms, loading
  <1>5. page'.rooms = None
    BY <1>1, <1>4 DEF PlaceInv
  <1>6. PICK asked \in SUBSET {Task("rooms", 1, d)} :
          /\ tasks' = {t \in tasks : t.fn # "rooms"} \cup asked
          /\ d # None <=> asked # {}
    BY <1>1 DEF InHouse
  <1>7. ASSUME NEW u \in asked PROVE IsTask(u) /\ u.fn = "rooms" /\ u.wire = "sent" /\ u.arg = d
                                     /\ d \in Houses /\ d # None
    BY <1>6, FirstTask
  <1>8. \A u \in tasks' : PlaceTask(u)'
    BY <1>2, <1>4, <1>6, <1>7 DEF PlaceInv, PlaceTask, Homeless, Lives
  <1>9. PlaceAwaited'
    BY <1>4, <1>6, <1>7 DEF PlaceInv, PlaceAwaited, SameLists
  <1>10. PlaceFollows'
    BY <1>2, <1>4, <1>6 DEF PlaceInv, PlaceFollows, PlaceReread, Homeless, SameLists
  <1> QED BY <1>2, <1>4, <1>5, <1>8, <1>9, <1>10 DEF PlaceInv, Lives

LEMMA PlaceReplies ==
  ASSUME PlaceInv, NEW t \in tasks,
         \/ PlaceLoadReturns(t) \/ HouseRoomsReturn(t) \/ RelaxReturns(t)
         \/ \E ok \in BOOLEAN : HousesReturn(t, ok)
  PROVE  PlaceInv'
  <1>1. /\ page \in PlacePage /\ UNCHANGED <<server, stale>> /\ PlaceTask(t)
        /\ (t.wire \in {"ok", "failed"} \/ t.fn = "dormitories") /\ tasks' = tasks \ {t}
    BY DEF PlaceInv, PlaceLoadReturns, HouseRoomsReturn, RelaxReturns, HousesReturn,
           Awaiting, PlaceTask, IsTask, End
  <1>2. CASE PlaceLoadReturns(t)
    <2>1. /\ t.fn = "load" /\ page' \in PlacePage /\ page'.house = page.house
          /\ page'.loading = page.loading /\ page'.rooms = page.rooms
          /\ page'.room = page.room /\ page'.success = page.success
          /\ page'.placing = page.placing /\ page'.saving = page.saving
          /\ page'.dormitories = page.dormitories
          /\ page'.dormitoriesError = page.dormitoriesError
          /\ IF t.wire = "ok" THEN page'.students = t.reply /\ page'.students # None
             ELSE page'.error
      <3>1. /\ t.fn = "load"
            /\ page' = IF t.wire = "ok" THEN [page EXCEPT !.students = t.reply]
                       ELSE [page EXCEPT !.error = TRUE]
        BY <1>2 DEF PlaceLoadReturns
      <3>2. t.wire = "ok" => t.reply \in SUBSET Tenants /\ t.reply # None
        BY <1>1, <3>1, PlaceAssumption DEF PlaceTask
      <3> QED BY <1>1, <3>1, <3>2 DEF PlacePage
    <2>2. \A u \in tasks' : PlaceTask(u)'
      BY <1>1, <2>1 DEF PlaceInv, PlaceTask, Homeless, Lives
    <2>3. PlaceAwaited'
      BY <1>1, <2>1 DEF PlaceInv, PlaceAwaited
    <2>4. PlaceFollows'
      BY <1>1, <2>1 DEF PlaceTask, PlaceFollows, Homeless
    <2> QED BY <1>1, <2>1, <2>2, <2>3, <2>4 DEF PlaceInv, Lives
  <1>3. CASE HouseRoomsReturn(t)
    <2> DEFINE shown == IF t.wire = "ok" THEN [of |-> t.arg, barred |-> t.arg \in t.reply]
                        ELSE None
    <2>1. t.fn = "rooms" /\ page' = [page EXCEPT !.loading = FALSE, !.rooms = shown]
      BY <1>3 DEF HouseRoomsReturn
    <2>2. /\ shown \in [of : Houses, barred : BOOLEAN] \cup {None}
          /\ shown # None => shown.of = page.house /\ page.house # None
      BY <1>1, <2>1 DEF PlaceTask
    <2> HIDE DEF shown
    <2>3. /\ page' \in PlacePage /\ page'.house = page.house
          /\ ~page'.loading /\ page'.rooms = shown
          /\ page'.room = page.room /\ page'.success = page.success
          /\ page'.placing = page.placing /\ page'.saving = page.saving
          /\ SameLists(page')
      BY <1>1, <2>1, <2>2 DEF PlacePage, SameLists
    <2>4. \A u \in tasks' : PlaceTask(u)'
      BY <1>1, <2>3 DEF PlaceInv, PlaceTask, Homeless, Lives
    <2>5. PlaceAwaited'
      BY <1>1, <2>1, <2>3 DEF PlaceInv, PlaceAwaited, SameLists
    <2>6. PlaceFollows'
      BY <1>1, <2>1, <2>3 DEF PlaceInv, PlaceFollows, PlaceReread, Homeless, SameLists
    <2> QED BY <1>1, <2>2, <2>3, <2>4, <2>5, <2>6 DEF PlaceInv, Lives
  <1>4. CASE RelaxReturns(t)
    <2> DEFINE rooms == IF page.rooms # None /\ page.rooms.of = t.arg
                          THEN [page.rooms EXCEPT !.barred = FALSE] ELSE page.rooms
    <2>1. /\ t.fn = "relax"
          /\ \/ page' = [page EXCEPT !.saving = FALSE]
             \/ page' = [page EXCEPT !.saving = FALSE, !.editing = None, !.rooms = rooms]
      BY <1>4 DEF RelaxReturns
    <2>2. /\ rooms \in [of : Houses, barred : BOOLEAN] \cup {None}
          /\ rooms = None \/ (page.rooms # None /\ rooms.of = page.rooms.of)
      BY <1>1 DEF PlacePage
    <2> HIDE DEF rooms
    <2>3. /\ page' \in PlacePage /\ SameLists(page')
          /\ page'.house = page.house /\ page'.loading = page.loading
          /\ page'.rooms \in {rooms, page.rooms} /\ page'.room = page.room
          /\ page'.success = page.success /\ page'.placing = page.placing /\ ~page'.saving
      BY <1>1, <2>1, <2>2 DEF PlacePage, SameLists
    <2>4. page'.rooms = None \/ (page.rooms # None /\ page'.rooms.of = page.rooms.of)
      BY <2>2, <2>3
    <2>5. page'.placing => \E v \in tasks' : v.fn = "place"
      BY <1>1, <2>1, <2>3 DEF PlaceInv, PlaceAwaited
    <2> QED BY <1>1, <2>1, <2>3, <2>4, <2>5, PlaceTaps
  <1>5. CASE \E ok \in BOOLEAN : HousesReturn(t, ok)
    <2>1. /\ t.fn = "dormitories" /\ page' \in PlacePage /\ page'.house = page.house
          /\ page'.loading = page.loading /\ page'.rooms = page.rooms
          /\ page'.room = page.room /\ page'.success = page.success
          /\ page'.placing = page.placing /\ page'.saving = page.saving
          /\ page'.students = page.students /\ page'.error = page.error
          /\ page'.dormitories \/ page'.dormitoriesError
      <3>1. PICK ok \in BOOLEAN : HousesReturn(t, ok)
        BY <1>5
      <3>2. /\ t.fn = "dormitories"
            /\ \/ page' = [page EXCEPT !.dormitories = TRUE]
               \/ page' = [page EXCEPT !.dormitoriesError = TRUE]
        BY <3>1 DEF HousesReturn, Awaiting
      <3> QED BY <1>1, <3>2 DEF PlacePage
    <2>2. \A u \in tasks' : PlaceTask(u)'
      BY <1>1, <2>1 DEF PlaceInv, PlaceTask, Homeless, Lives
    <2>3. PlaceAwaited' /\ PlaceFollows'
      BY <1>1, <2>1 DEF PlaceInv, PlaceAwaited, PlaceFollows, PlaceReread, Homeless
    <2> QED BY <1>1, <2>1, <2>2, <2>3 DEF PlaceInv, Lives
  <1> QED BY <1>2, <1>3, <1>4, <1>5

LEMMA HandlePlaceReturnsKeeps ==
  ASSUME PlaceInv, NEW t \in tasks, HandlePlaceReturns(t)
  PROVE  PlaceInv'
  <1>1. /\ page \in PlacePage /\ UNCHANGED <<server, stale>> /\ PlaceTask(t)
        /\ t.wire \in {"ok", "failed"} /\ t.fn = "place"
    BY DEF PlaceInv, HandlePlaceReturns, PlaceTask, IsTask
  <1>2. CASE t.wire = "failed"
    <2>1. /\ page' \in PlacePage /\ SameLists(page')
          /\ page'.house = page.house /\ page'.loading = page.loading
          /\ page'.rooms = page.rooms /\ page'.room = page.room
          /\ page'.success = page.success /\ ~page'.placing /\ page'.saving = page.saving
      <3>1. page' = [page EXCEPT !.placing = FALSE, !.placeError = TRUE]
        BY <1>2 DEF HandlePlaceReturns
      <3> QED BY <1>1, <3>1 DEF PlacePage, SameLists
    <2>2. tasks' = tasks \ {t}
      BY <1>2 DEF HandlePlaceReturns, End
    <2>3. page'.saving => \E v \in tasks' : v.fn = "relax"
      BY <1>1, <2>1, <2>2 DEF PlaceInv, PlaceAwaited
    <2> QED BY <1>1, <1>2, <2>1, <2>2, <2>3, PlaceTaps DEF PlaceInv
  <1>3. CASE t.wire = "ok"
    <2>1. /\ page' = [page EXCEPT !.placing = FALSE, !.success = t.arg, !.student = None,
                        !.house = None, !.room = None, !.rooms = None, !.step = "student"]
          /\ tasks' = {u \in tasks \ {t} : u.fn # "rooms"} \cup {New("load", None)}
          /\ Lives(t.arg) /\ t.arg \in [student : Tenants, house : Houses]
      BY <1>1, <1>3 DEF HandlePlaceReturns, PlaceTask
    <2>2. /\ page' \in PlacePage /\ page'.house = None /\ page'.room = None
          /\ page'.rooms = None /\ page'.success = t.arg
          /\ ~page'.placing /\ page'.saving = page.saving /\ SameLists(page')
      BY <1>1, <2>1 DEF PlacePage, SameLists
    <2>3. PICK new : /\ IsTask(new) /\ new.fn = "load" /\ new.wire = "sent"
                     /\ tasks' = {u \in tasks \ {t} : u.fn # "rooms"} \cup {new}
      <3> DEFINE new == New("load", None)
      <3>1. IsTask(new) /\ new.fn = "load" /\ new.wire = "sent"
        BY NewTask
      <3>2. tasks' = {u \in tasks \ {t} : u.fn # "rooms"} \cup {new}
        BY <2>1
      <3> HIDE DEF new
      <3> QED BY <3>1, <3>2
    <2>4. \A u \in tasks' : PlaceTask(u)'
      BY <1>1, <2>3 DEF PlaceInv, PlaceTask, Homeless, Lives
    <2>5. PlaceAwaited'
      BY <1>1, <2>2, <2>3 DEF PlaceInv, PlaceAwaited, SameLists
    <2>6. PlaceFollows'
      BY <2>3 DEF PlaceFollows, PlaceReread
    <2>7. Lives(t.arg)'
      BY <1>1, <2>1 DEF Lives
    <2> QED BY <1>1, <2>2, <2>4, <2>5, <2>6, <2>7 DEF PlaceInv, Lives
  <1> QED BY <1>1, <1>2, <1>3

\* A reading, or a change of the rows after which those who live somewhere
\* still live there.
LEMMA ServePlaceKeeps ==
  ASSUME PlaceInv, NEW t \in tasks, ServePlace(t)
  PROVE  PlaceInv'
  <1>1. page \in PlacePage /\ server \in PlaceRows /\ PlaceTask(t) /\ t.wire = "sent"
    BY DEF PlaceInv, ServePlace, Awaiting
  <1>2. ASSUME NEW accepts, NEW after, NEW reply, Serve(t, accepts, after, reply),
               accepts => /\ after \in PlaceRows
                          /\ \A s \in Tenants : server.where[s] # None =>
                               after.where[s] = server.where[s],
               t.fn = "load" => after = server /\ reply = Homeless,
               t.fn # "place" => after.where = server.where,
               t.fn = "place" /\ accepts => after.where[t.arg.student] = t.arg.house
        PROVE  PlaceInv'
    <2>1. PICK u : Ended(t, u, accepts, after, reply)
      BY <1>1, <1>2, CallEnds DEF PlaceTask
    <2>2. /\ IsTask(u) /\ u.fn = t.fn /\ u.arg = t.arg /\ u.wire \in {"ok", "failed"}
          /\ tasks' = (tasks \ {t}) \cup {u}
          /\ u.wire = "ok" => accepts /\ server' = after /\ u.reply = reply
          /\ ~stale' => IF t.fn = "load" /\ u.wire = "ok"
                          THEN \A v \in tasks \ {t} : ~OnItsWay(v)
                          ELSE ~stale /\ (server' # server => u.wire = "ok" /\ ~ReadUnderWay(t))
      BY <2>1 DEF Ended
    <2>3. UNCHANGED page /\ (server' # server => accepts /\ server' = after)
      BY <1>1, <1>2, CallEnds DEF PlaceTask
    <2>4. /\ server' \in PlaceRows
          /\ \A s \in Tenants : server.where[s] # None => server'.where[s] = server.where[s]
          /\ t.fn # "place" => server'.where = server.where
      BY <1>1, <1>2, <2>3
    <2>5. \A arg \in [student : Tenants, house : Houses] : Lives(arg) => Lives(arg)'
      BY <2>4 DEF Lives
    <2>6. server'.where = server.where => Homeless' = Homeless
      BY DEF Homeless
    <2>7. ASSUME NEW v \in tasks \ {t} PROVE PlaceTask(v)'
      <3>1. PlaceTask(v)
        BY DEF PlaceInv
      <3>2. v.fn = "load" /\ v.wire = "ok" /\ ~stale' => v.reply = Homeless'
        BY <1>1, <2>2, <2>4, <2>6, <3>1 DEF PlaceTask, ReadUnderWay, OnItsWay
      <3> QED BY <2>3, <2>5, <3>1, <3>2 DEF PlaceTask
    <2>8. PlaceTask(u)'
      <3>1. t.fn = "place" /\ u.wire = "ok" => Lives(t.arg)'
        BY <1>1, <1>2, <2>2 DEF PlaceTask, Lives
      <3>2. t.fn = "load" /\ u.wire = "ok" => u.reply = Homeless' /\ u.reply \in SUBSET Tenants
        BY <1>2, <2>2, <2>4, <2>6 DEF Homeless
      <3> QED BY <1>1, <2>2, <2>3, <3>1, <3>2 DEF PlaceTask
    <2>9. PlaceAwaited'
      BY <2>2, <2>3 DEF PlaceInv, PlaceAwaited
    <2>10. PlaceFollows'
      <3>1. CASE t.fn = "load" \/ (t.fn = "place" /\ u.wire = "ok")
        BY <2>2, <3>1 DEF PlaceFollows, PlaceReread
      <3>2. CASE ~(t.fn = "load" \/ (t.fn = "place" /\ u.wire = "ok"))
        <4>1. ~stale' => ~stale /\ Homeless' = Homeless
          BY <2>2, <2>4, <2>6, <3>2
        <4>2. PlaceReread(tasks) => PlaceReread(tasks')
          BY <1>1, <2>2, <3>2 DEF PlaceReread
        <4> QED BY <2>3, <4>1, <4>2 DEF PlaceInv, PlaceFollows
      <3> QED BY <3>1, <3>2
    <2>11. page'.success # None => Lives(page.success)'
      <3>1. page.success # None =>
              page.success \in [student : Tenants, house : Houses] /\ Lives(page.success)
        BY <1>1 DEF PlaceInv, PlacePage
      <3> QED BY <2>3, <2>5, <3>1 DEF Lives
    <2>12. \A v \in tasks' : PlaceTask(v)'
      BY <2>2, <2>7, <2>8
    <2> QED BY <1>1, <2>3, <2>4, <2>9, <2>10, <2>11, <2>12 DEF PlaceInv
  <1>3. CASE Awaiting(t, {"load"}) /\ Serve(t, TRUE, server, {s \in Tenants : server.where[s] = None})
    <2> DEFINE reply == {s \in Tenants : server.where[s] = None}
    <2>1. t.fn = "load" /\ Serve(t, TRUE, server, reply) /\ reply = Homeless
      BY <1>3 DEF Awaiting, Homeless
    <2> HIDE DEF reply
    <2> QED BY <1>1, <1>2, <2>1
  <1>4. CASE Awaiting(t, {"rooms"}) /\ Serve(t, TRUE, server, server.barred)
    BY <1>1, <1>2, <1>4 DEF Awaiting
  <1>5. CASE /\ Awaiting(t, {"relax"})
             /\ Serve(t, TRUE, [server EXCEPT !.barred = @ \ {t.arg}], None)
    <2> DEFINE after == [server EXCEPT !.barred = @ \ {t.arg}]
    <2>1. t.fn = "relax" /\ Serve(t, TRUE, after, None)
          /\ after \in PlaceRows /\ after.where = server.where
      BY <1>1, <1>5 DEF Awaiting, PlaceRows
    <2> HIDE DEF after
    <2> QED BY <1>1, <1>2, <2>1
  <1>6. CASE /\ Awaiting(t, {"place"})
             /\ Serve(t, server.where[t.arg.student] = None /\ t.arg.house \notin server.barred,
                      [server EXCEPT !.where[t.arg.student] = t.arg.house], None)
    <2> DEFINE after == [server EXCEPT !.where[t.arg.student] = t.arg.house]
               accepts == server.where[t.arg.student] = None /\ t.arg.house \notin server.barred
    <2>1. t.fn = "place" /\ Serve(t, accepts, after, None)
          /\ t.arg \in [student : Tenants, house : Houses]
      BY <1>1, <1>6 DEF Awaiting, PlaceTask
    <2>2. /\ after \in PlaceRows /\ after.where[t.arg.student] = t.arg.house
          /\ \A s \in Tenants \ {t.arg.student} : after.where[s] = server.where[s]
      BY <1>1, <2>1 DEF PlaceRows
    <2>3. accepts => \A s \in Tenants : server.where[s] # None =>
                       after.where[s] = server.where[s]
      BY <2>2
    <2> HIDE DEF after, accepts
    <2> QED BY <1>1, <1>2, <2>1, <2>2, <2>3
  <1> QED BY <1>3, <1>4, <1>5, <1>6 DEF ServePlace

LEMMA PlaceKept == PlaceInv /\ PlaceNext => PlaceInv'
  BY PlaceAsked, InHouseKeeps, PlaceReplies, HandlePlaceReturnsKeeps, ServePlaceKeeps
     DEF PlaceNext

LEMMA PlaceIdle == PlaceInv /\ UNCHANGED vars => PlaceInv'
  BY DEF vars, PlaceInv, PlaceTask, PlaceAwaited, PlaceFollows, PlaceReread, Homeless, Lives

LEMMA PlaceAlways == Spec => [](Named /\ (page.at = "place" => PlaceInv))
  <1> DEFINE IInv == Named /\ (page.at = "place" => PlaceInv)
  <1>1. Init => IInv
    BY PortalBegins, OfficeBegins, PlaceBegins DEF Init
  <1>2. IInv /\ [Next]_vars => IInv'
    <2> SUFFICES ASSUME IInv, [Next]_vars PROVE IInv'
      OBVIOUS
    <2>1. Named' /\ page'.at = page.at
      BY NextStays DEF Named, Stays
    <2> QED BY <2>1, StepOfPage, PlaceKept, PlaceIdle
  <1> QED BY <1>1, <1>2, PTL DEF Spec

LEMMA PlaceRest ==
  PlaceInv => /\ page.room # None => page.room = page.house
              /\ PlaceDone
              /\ tasks = {} => (PlaceBusy => PlaceUnread) /\ (~stale => PlaceAgree)
  BY DEF PlaceInv, PlaceAwaited, PlaceFollows, PlaceReread, PlaceBusy, PlaceUnread,
         PlaceWorks,
         AwaitingStudents, AwaitingHouses, PlaceDone,
         PlaceAgree,
         Homeless, Lives

\* The room that is marked as chosen is one of the dormitory that is named on
\* the screen, whichever reply comes when, so that nobody is placed in a house
\* that was left (PlaceStudentPage: the effect on the dormitory).
THEOREM PlacedWhereShown == Spec => []RoomOfHouse
  <1>1. Named /\ (page.at = "place" => PlaceInv) => RoomOfHouse
    BY PlaceRest DEF RoomOfHouse
  <1> QED BY <1>1, PlaceAlways, PTL

------------------------------------------------------------------------------
\* A new protocol: the rows that are ticked.

Marks == {None} \cup UNION {[s -> Dormitories \cup {None}] : s \in SUBSET Candidates}
CreateForm ==
  [at : {"create"}, list : {None} \cup SUBSET Candidates, error : BOOLEAN,
   filter : Dormitories \cup {None}, ticked : SUBSET Candidates, under : Marks,
   submitting : BOOLEAN, submitError : BOOLEAN, left : {None} \cup SUBSET Candidates]
CreatePage ==
  {p \in CreateForm :
     /\ Cardinality(p.ticked) <= MaxTicks
     /\ \A c \in p.ticked : p.under[c] = p.filter}
CreateRows ==
  {s \in [house : [Candidates -> Dormitories], free : SUBSET Candidates,
          made : {None} \cup SUBSET Candidates, strays : {{}}] :
     s.made # None => Cardinality(s.made) <= MaxTicks}
Creates(t) == t.fn \in {"create", "file"}
CreateTask(t) ==
  /\ IsTask(t) /\ t.fn \in {"load", "create", "file"}
  /\ t.fn = "load" /\ t.wire = "ok" => t.reply \in SUBSET Candidates
  /\ t.fn = "create" =>
       /\ t.arg \in [students : SUBSET Candidates, strays : {{}}]
       /\ Cardinality(t.arg.students) <= MaxTicks
       /\ t.wire = "ok" => server.made = t.arg.students
  /\ t.fn = "file" => t.arg \in SUBSET Candidates /\ server.made = t.arg
  /\ Creates(t) => page.submitting /\ page.left = None
CreateInv ==
  /\ page \in CreatePage /\ server \in CreateRows
  /\ \A t \in tasks : CreateTask(t)
  /\ \A s, t \in tasks : Creates(s) /\ Creates(t) => s = t
  /\ page.submitting => \E t \in tasks : Creates(t)
  /\ page.list = None /\ ~page.error => \E t \in tasks : t.fn = "load"
  /\ page.left # None => server.made = page.left

LEMMA Fewer ==
  ASSUME NEW s \in SUBSET Candidates, NEW r \in SUBSET s
  PROVE  IsFiniteSet(r) /\ Cardinality(r) \in Nat /\ Cardinality(r) <= Cardinality(s)
  <1>1. IsFiniteSet(s)
    BY CandidatesAssumption, FS_Subset DEF CandidatesAssumption
  <1>2. IsFiniteSet(r) /\ Cardinality(r) <= Cardinality(s)
    BY <1>1, FS_Subset
  <1> QED BY <1>2, FS_CardinalityType

LEMMA CreateBegins == CreateInit => CreateInv
  <1> SUFFICES ASSUME CreateInit PROVE CreateInv
    OBVIOUS
  <1>1. Cardinality({}) <= MaxTicks
    BY FS_EmptySet, TicksAssumption DEF TicksAssumption
  <1>2. page \in CreatePage /\ ~page.submitting /\ page.left = None /\ page.list = None
    BY <1>1 DEF CreateInit, CreatePage, CreateForm, Marks
  <1>3. server \in CreateRows
    BY DEF CreateInit, CreateRows
  <1>4. /\ \A t \in tasks : CreateTask(t) /\ ~Creates(t) /\ t.fn = "load"
        /\ tasks # {}
    BY FirstTask DEF CreateInit, CreateTask, Creates
  <1> QED BY <1>2, <1>3, <1>4 DEF CreateInv

\* What is ticked, or shown, changes.
LEMMA CreateEdits ==
  ASSUME CreateInv, UNCHANGED <<server, stale>>, page' \in CreatePage,
         page'.submitting = page.submitting, page'.left = page.left,
         \A u \in tasks : Creates(u) => u \in tasks',
         \A u \in tasks' \ tasks : CreateTask(u) /\ ~Creates(u),
         page'.list = None /\ ~page'.error => \E u \in tasks' : u.fn = "load"
  PROVE  CreateInv'
  <1>1. \A u \in tasks' : CreateTask(u)'
    BY DEF CreateInv, CreateTask
  <1> QED BY <1>1 DEF CreateInv, Creates

LEMMA CreateTaps ==
  ASSUME CreateInv,
         \/ SwitchLanguage \/ ToggleSelectAll
         \/ \E d \in Dormitories \cup {None} : ChangeDormitoryFilter(d)
         \/ \E c \in Candidates : ToggleSelectedKey(c)
  PROVE  CreateInv'
  <1>1. page \in CreatePage /\ UNCHANGED <<server, stale>>
    BY DEF CreateInv, SwitchLanguage, ToggleSelectAll, ChangeDormitoryFilter,
           ToggleSelectedKey
  <1>2. ASSUME NEW now \in SUBSET Candidates, Cardinality(now) <= MaxTicks,
               page' = Tick(now), UNCHANGED tasks
        PROVE  CreateInv'
    <2> DEFINE under == [c \in now |-> IF c \in page.ticked THEN page.under[c] ELSE page.filter]
    <2>1. \A c \in now : under[c] = page.filter
      BY <1>1 DEF CreatePage, CreateForm
    <2>2. under \in [now -> Dormitories \cup {None}]
      BY <1>1, <2>1 DEF CreatePage, CreateForm
    <2>3. page' = [page EXCEPT !.ticked = now, !.under = under]
      BY <1>2 DEF Tick
    <2> HIDE DEF under
    <2>4. under \in Marks
      BY <2>2 DEF Marks
    <2>5. /\ page' \in CreatePage /\ page'.submitting = page.submitting
          /\ page'.left = page.left /\ page'.list = page.list /\ page'.error = page.error
      <3> DEFINE p == [page EXCEPT !.ticked = now, !.under = under]
      <3>1. page \in CreateForm
        BY <1>1 DEF CreatePage
      <3>2. /\ p \in CreateForm /\ p.ticked = now /\ p.under = under /\ p.filter = page.filter
            /\ p.submitting = page.submitting /\ p.left = page.left /\ p.list = page.list
            /\ p.error = page.error
        BY <2>4, <3>1 DEF CreateForm
      <3>3. page' = p
        BY <2>3
      <3> HIDE DEF p
      <3> QED BY <1>2, <2>1, <3>2, <3>3 DEF CreatePage
    <2> QED BY <1>1, <1>2, <2>5, CreateEdits DEF CreateInv
  <1>3. CASE SwitchLanguage
    <2> DEFINE new == New("load", None)
    <2>1. tasks' = tasks \cup {new} /\ page' = page
      BY <1>3 DEF SwitchLanguage, Start
    <2>2. IsTask(new) /\ new.fn = "load" /\ new.wire = "sent"
      BY NewTask
    <2> HIDE DEF new
    <2>3. CreateTask(new) /\ ~Creates(new)
      BY <2>2 DEF CreateTask, Creates
    <2> QED BY <1>1, <2>1, <2>2, <2>3, CreateEdits
  <1>4. CASE \E d \in Dormitories \cup {None} : ChangeDormitoryFilter(d)
    <2>1. PICK d \in Dormitories \cup {None} :
            page' = [page EXCEPT !.filter = d, !.ticked = {}, !.under = None] /\ tasks' = tasks
      BY <1>4 DEF ChangeDormitoryFilter
    <2>2. Cardinality({}) <= MaxTicks
      BY FS_EmptySet, TicksAssumption DEF TicksAssumption
    <2>3. /\ page' \in CreatePage /\ page'.submitting = page.submitting
          /\ page'.left = page.left /\ page'.list = page.list /\ page'.error = page.error
      BY <1>1, <2>1, <2>2 DEF CreatePage, CreateForm, Marks
    <2> QED BY <1>1, <2>1, <2>3, CreateEdits DEF CreateInv
  <1>5. ASSUME NEW c \in Candidates, ToggleSelectedKey(c) PROVE CreateInv'
    <2>1. page.ticked \in SUBSET Candidates /\ Cardinality(page.ticked) <= MaxTicks
      BY <1>1 DEF CreatePage, CreateForm
    <2>2. CASE c \in page.ticked /\ page' = Tick(page.ticked \ {c})
      <3>1. /\ page.ticked \ {c} \in SUBSET page.ticked
            /\ page.ticked \in SUBSET page.ticked
        BY <2>1
      <3>2. Cardinality(page.ticked \ {c}) \in Nat /\ Cardinality(page.ticked) \in Nat
            /\ Cardinality(page.ticked \ {c}) <= Cardinality(page.ticked)
        BY <2>1, <3>1, Fewer
      <3>3. Cardinality(page.ticked \ {c}) <= MaxTicks
        BY <2>1, <3>2, TicksAssumption DEF TicksAssumption
      <3>4. page.ticked \ {c} \in SUBSET Candidates /\ tasks' = tasks
        BY <1>5, <2>1 DEF ToggleSelectedKey
      <3> QED BY <1>2, <2>2, <3>3, <3>4
    <2>3. CASE /\ c \notin page.ticked /\ Cardinality(page.ticked) < MaxTicks
               /\ page' = Tick(page.ticked \cup {c})
      <3>1. IsFiniteSet(page.ticked) /\ Cardinality(page.ticked) \in Nat
        <4>1. page.ticked \in SUBSET page.ticked
          OBVIOUS
        <4> QED BY <2>1, <4>1, Fewer
      <3>2. Cardinality(page.ticked \cup {c}) = Cardinality(page.ticked) + 1
        BY <2>3, <3>1, FS_AddElement
      <3>3. Cardinality(page.ticked \cup {c}) <= MaxTicks
        BY <2>3, <3>1, <3>2, TicksAssumption DEF TicksAssumption
      <3>4. page.ticked \cup {c} \in SUBSET Candidates /\ tasks' = tasks
        BY <1>5, <2>1 DEF ToggleSelectedKey
      <3> QED BY <1>2, <2>3, <3>3, <3>4
    <2> QED BY <1>5, <2>2, <2>3 DEF ToggleSelectedKey
  <1>6. CASE ToggleSelectAll
    <2>1. page.list # None /\ tasks' = tasks
      BY <1>6 DEF ToggleSelectAll
    <2>2. Visible \in SUBSET Candidates
      BY <1>1, <2>1 DEF Visible, CreatePage, CreateForm
    <2>3. Visible \in SUBSET Visible
      OBVIOUS
    <2>4. Cardinality(Visible) \in Nat
      BY <2>2, <2>3, Fewer
    <2>5. Least(Cardinality(Visible), MaxTicks) <= MaxTicks
      BY <2>4, TicksAssumption DEF Least, TicksAssumption
    <2>6. PICK now \in SUBSET Candidates : page' = Tick(now) /\ Cardinality(now) <= MaxTicks
      <3>1. Cardinality({}) <= MaxTicks
        BY FS_EmptySet, TicksAssumption DEF TicksAssumption
      <3>2. CASE page' = Tick({})
        BY <3>1, <3>2
      <3>3. CASE \E now \in SUBSET Visible :
                   /\ Cardinality(now) = Least(Cardinality(Visible), MaxTicks)
                   /\ page' = Tick(now)
        BY <2>2, <2>5, <3>3
      <3> QED BY <1>6, <3>2, <3>3 DEF ToggleSelectAll
    <2> QED BY <1>2, <2>1, <2>6
  <1> QED BY <1>3, <1>4, <1>5, <1>6

LEMMA HandleCreateKeeps ==
  ASSUME CreateInv, HandleCreate
  PROVE  CreateInv'
  <1> DEFINE selected == page.ticked \cap Visible
             arg == [students |-> selected,
                     strays |-> {c \in selected : page.under[c] # page.filter}]
  <1>1. /\ page \in CreatePage /\ UNCHANGED <<server, stale>> /\ page.left = None
        /\ ~page.submitting /\ tasks' = tasks \cup {New("create", arg)}
        /\ page' = [page EXCEPT !.submitting = TRUE, !.submitError = FALSE]
    BY DEF CreateInv, HandleCreate, Start
  <1>2. /\ page' \in CreatePage /\ page'.submitting /\ page'.left = None
        /\ page'.list = page.list /\ page'.error = page.error
    BY <1>1 DEF CreatePage, CreateForm
  <1>3. arg.students = selected /\ selected \in SUBSET Candidates /\ arg.strays = {}
        /\ Cardinality(selected) <= MaxTicks
    <2>1. page.ticked \in SUBSET Candidates /\ Cardinality(page.ticked) <= MaxTicks
          /\ \A c \in page.ticked : page.under[c] = page.filter
      BY <1>1 DEF CreatePage, CreateForm
    <2>2. selected \in SUBSET page.ticked /\ page.ticked \in SUBSET page.ticked
      OBVIOUS
    <2> HIDE DEF selected
    <2>3. Cardinality(selected) \in Nat /\ Cardinality(page.ticked) \in Nat
          /\ Cardinality(selected) <= Cardinality(page.ticked)
      BY <2>1, <2>2, Fewer
    <2> QED BY <2>1, <2>2, <2>3, TicksAssumption DEF TicksAssumption
  <1>4. arg \in [students : SUBSET Candidates, strays : {{}}]
    BY <1>3
  <1> HIDE DEF arg, selected
  <1>5. PICK new : /\ tasks' = tasks \cup {new} /\ IsTask(new) /\ new.fn = "create"
                   /\ new.wire = "sent" /\ Cardinality(new.arg.students) <= MaxTicks
                   /\ new.arg \in [students : SUBSET Candidates, strays : {{}}]
    <2> DEFINE new == New("create", arg)
    <2>1. tasks' = tasks \cup {new}
      BY <1>1
    <2>2. IsTask(new) /\ new.fn = "create" /\ new.wire = "sent" /\ new.arg = arg
      BY NewTask
    <2> HIDE DEF new
    <2> QED BY <1>3, <1>4, <2>1, <2>2
  <1>6. CreateTask(new)'
    BY <1>2, <1>5 DEF CreateTask, Creates
  <1>7. \A u \in tasks : ~Creates(u)
    BY <1>1 DEF CreateInv, CreateTask
  <1>8. \A u \in tasks' : CreateTask(u)'
    BY <1>1, <1>5, <1>6, <1>7 DEF CreateInv, CreateTask
  <1> QED BY <1>1, <1>2, <1>5, <1>7, <1>8 DEF CreateInv, Creates

LEMMA CreateReplies ==
  ASSUME CreateInv, NEW t \in tasks, CandidatesReturn(t) \/ CreateReturns(t) \/ FileFetched(t)
  PROVE  CreateInv'
  <1>1. /\ page \in CreatePage /\ UNCHANGED <<server, stale>> /\ CreateTask(t)
        /\ t.wire \in {"sent", "ok", "failed"} /\ server \in CreateRows
    BY DEF CreateInv, CandidatesReturn, CreateReturns, FileFetched, CreateTask, IsTask
  <1>2. CASE CandidatesReturn(t)
    <2>1. t.fn = "load" /\ tasks' = tasks \ {t} /\ t.wire # "sent"
      BY <1>2 DEF CandidatesReturn, End
    <2>2. /\ page' \in CreatePage /\ page'.submitting = page.submitting
          /\ page'.left = page.left
          /\ page'.list # None \/ page'.error
      BY <1>1, <1>2, <2>1, CandidatesAssumption
         DEF CandidatesReturn, CreatePage, CreateForm, CreateTask, CandidatesAssumption
    <2> QED BY <1>1, <2>1, <2>2, CreateEdits DEF Creates
  <1>3. Creates(t) => /\ \A u \in tasks \ {t} : ~Creates(u) /\ CreateTask(u)
                      /\ page.submitting /\ page.left = None
    BY <1>1 DEF CreateInv, CreateTask
  <1>4. ASSUME Creates(t), tasks' = tasks \ {t}, page' \in CreatePage, ~page'.submitting,
               page'.list = page.list, page'.error = page.error,
               page'.left # None => server.made = page'.left
        PROVE  CreateInv'
    <2>1. \A u \in tasks' : CreateTask(u)' /\ ~Creates(u)
      BY <1>1, <1>3, <1>4 DEF CreateTask
    <2>2. page'.list = None /\ ~page'.error => \E u \in tasks' : u.fn = "load"
      BY <1>4 DEF CreateInv, Creates
    <2> QED BY <1>1, <1>4, <2>1, <2>2 DEF CreateInv
  <1>5. CASE FileFetched(t)
    <2>1. t.fn = "file" /\ tasks' = tasks \ {t} /\ t.arg \in SUBSET Candidates
          /\ server.made = t.arg
      BY <1>1, <1>5 DEF FileFetched, End, Awaiting, CreateTask
    <2>2. /\ page' \in CreatePage /\ ~page'.submitting /\ page'.left = t.arg
          /\ page'.list = page.list /\ page'.error = page.error
      BY <1>1, <1>5, <2>1 DEF FileFetched, CreatePage, CreateForm
    <2> QED BY <1>4, <2>1, <2>2 DEF Creates
  <1>6. CASE CreateReturns(t) /\ t.wire = "failed"
    <2>1. t.fn = "create" /\ tasks' = tasks \ {t}
      BY <1>6 DEF CreateReturns, End
    <2>2. /\ page' \in CreatePage /\ ~page'.submitting /\ page'.left = page.left
          /\ page'.list = page.list /\ page'.error = page.error
      BY <1>1, <1>6 DEF CreateReturns, CreatePage, CreateForm
    <2> QED BY <1>3, <1>4, <2>1, <2>2 DEF Creates
  <1>7. CASE CreateReturns(t) /\ t.wire # "failed"
    <2>1. /\ t.fn = "create" /\ t.wire = "ok" /\ page' = page
          /\ t.arg.students \in SUBSET Candidates /\ server.made = t.arg.students
      BY <1>1, <1>7 DEF CreateReturns, CreateTask
    <2>2. PICK new : /\ IsTask(new) /\ new.fn = "file" /\ new.wire = "sent"
                     /\ new.arg = t.arg.students /\ tasks' = (tasks \ {t}) \cup {new}
      <3> DEFINE new == New("file", t.arg.students)
      <3>1. IsTask(new) /\ new.fn = "file" /\ new.wire = "sent" /\ new.arg = t.arg.students
        BY NewTask
      <3>2. tasks' = (tasks \ {t}) \cup {new}
        BY <1>7 DEF CreateReturns, GoOn
      <3> HIDE DEF new
      <3> QED BY <3>1, <3>2
    <2>3. CreateTask(new)' /\ Creates(new)
      BY <1>1, <1>3, <2>1, <2>2 DEF CreateTask, Creates
    <2>4. \A u \in tasks' : CreateTask(u)'
      BY <1>1, <1>3, <2>1, <2>2, <2>3 DEF CreateTask, Creates
    <2> QED BY <1>1, <1>3, <2>1, <2>2, <2>3, <2>4 DEF CreateInv, Creates
  <1> QED BY <1>2, <1>5, <1>6, <1>7

LEMMA ServeCreateKeeps ==
  ASSUME CreateInv, NEW t \in tasks, ServeCreate(t)
  PROVE  CreateInv'
  <1>1. page \in CreatePage /\ server \in CreateRows /\ CreateTask(t) /\ t.wire = "sent"
    BY DEF CreateInv, ServeCreate, Awaiting
  <1>2. ASSUME NEW accepts, NEW after, NEW reply, Serve(t, accepts, after, reply),
               accepts => after \in CreateRows,
               t.fn = "load" => after = server /\ reply \in SUBSET Candidates,
               t.fn \in {"load", "create"},
               t.fn = "create" /\ accepts => after.made = t.arg.students
        PROVE  CreateInv'
    <2>1. PICK u : Ended(t, u, accepts, after, reply)
      BY <1>1, <1>2, CallEnds DEF CreateTask
    <2>2. /\ IsTask(u) /\ u.fn = t.fn /\ u.arg = t.arg /\ u.wire \in {"ok", "failed"}
          /\ tasks' = (tasks \ {t}) \cup {u}
          /\ u.wire = "ok" => accepts /\ server' = after /\ u.reply = reply
      BY <2>1 DEF Ended
    <2>3. UNCHANGED page /\ (server' # server => accepts /\ server' = after)
      BY <1>1, <1>2, CallEnds DEF CreateTask
    <2>4. server' \in CreateRows /\ (t.fn = "load" => server' = server)
      BY <1>1, <1>2, <2>3
    <2>5. t.fn = "create" => \A v \in tasks \ {t} : ~Creates(v)
      BY DEF CreateInv, Creates
    <2>6. \A v \in tasks \ {t} : CreateTask(v)'
      <3>1. CASE t.fn = "load"
        BY <2>3, <2>4, <3>1 DEF CreateInv, CreateTask
      <3>2. CASE t.fn = "create"
        BY <2>3, <2>5, <3>2 DEF CreateInv, CreateTask, Creates
      <3> QED BY <1>2, <3>1, <3>2
    <2>7. CreateTask(u)'
      BY <1>1, <1>2, <2>2, <2>3 DEF CreateTask, Creates
    <2>8. \A v \in tasks' : CreateTask(v)'
      BY <2>2, <2>6, <2>7
    <2>9. /\ \A r, v \in tasks' : Creates(r) /\ Creates(v) => r = v
          /\ page'.submitting => \E v \in tasks' : Creates(v)
          /\ page'.list = None /\ ~page'.error => \E v \in tasks' : v.fn = "load"
      BY <2>2, <2>3 DEF CreateInv, Creates
    <2>10. page'.left # None => server'.made = page'.left
      BY <1>1, <1>2, <2>3, <2>4 DEF CreateInv, CreateTask, Creates
    <2> QED BY <1>1, <2>3, <2>4, <2>8, <2>9, <2>10 DEF CreateInv
  <1>3. CASE Awaiting(t, {"load"}) /\ Serve(t, TRUE, server, server.free)
    BY <1>1, <1>2, <1>3 DEF Awaiting, CreateRows
  <1>4. CASE /\ Awaiting(t, {"create"})
             /\ Serve(t, t.arg.students # {} /\ t.arg.students \subseteq server.free,
                      [server EXCEPT !.free = @ \ t.arg.students, !.made = t.arg.students,
                                     !.strays = @ \cup t.arg.strays], None)
    <2> DEFINE accepts == t.arg.students # {} /\ t.arg.students \subseteq server.free
               after == [server EXCEPT !.free = @ \ t.arg.students, !.made = t.arg.students,
                                       !.strays = @ \cup t.arg.strays]
    <2>1. /\ t.fn = "create" /\ Serve(t, accepts, after, None)
          /\ t.arg.students \in SUBSET Candidates /\ t.arg.strays = {}
          /\ Cardinality(t.arg.students) <= MaxTicks
      BY <1>1, <1>4 DEF Awaiting, CreateTask
    <2>2. after \in CreateRows /\ after.made = t.arg.students
      BY <1>1, <2>1 DEF CreateRows
    <2> HIDE DEF accepts, after
    <2> QED BY <1>2, <2>1, <2>2
  <1> QED BY <1>3, <1>4 DEF ServeCreate

LEMMA TakenElsewhereKeeps ==
  ASSUME CreateInv, NEW c \in Candidates, TakenElsewhere(c)
  PROVE  CreateInv'
  <1>1. UNCHANGED <<page, tasks>> /\ server' = [server EXCEPT !.free = @ \ {c}]
    BY DEF TakenElsewhere, Elsewhere
  <1>2. server' \in CreateRows /\ server'.made = server.made
    BY <1>1 DEF CreateInv, CreateRows
  <1>3. \A u \in tasks : CreateTask(u)'
    BY <1>1, <1>2 DEF CreateInv, CreateTask
  <1> QED BY <1>1, <1>2, <1>3 DEF CreateInv

LEMMA CreateKept == CreateInv /\ CreateNext => CreateInv'
  BY CreateTaps, HandleCreateKeeps, CreateReplies, ServeCreateKeeps, TakenElsewhereKeeps
     DEF CreateNext

LEMMA CreateIdle == CreateInv /\ UNCHANGED vars => CreateInv'
  BY DEF vars, CreateInv, CreateTask

LEMMA CreateAlways == Spec => [](Named /\ (page.at = "create" => CreateInv))
  <1> DEFINE IInv == Named /\ (page.at = "create" => CreateInv)
  <1>1. Init => IInv
    BY PortalBegins, OfficeBegins, CreateBegins DEF Init
  <1>2. IInv /\ [Next]_vars => IInv'
    <2> SUFFICES ASSUME IInv, [Next]_vars PROVE IInv'
      OBVIOUS
    <2>1. Named' /\ page'.at = page.at
      BY NextStays DEF Named, Stays
    <2> QED BY <2>1, StepOfPage, CreateKept, CreateIdle
  <1> QED BY <1>1, <1>2, PTL DEF Spec

LEMMA CreateRest ==
  CreateInv => /\ server.strays = {}
               /\ server.made # None => Cardinality(server.made) <= MaxTicks
               /\ CreateDone /\ (tasks = {} => ~CreateBusy)
  BY DEF CreateInv, CreateRows, CreateDone, CreateBusy

\* A protocol that is made here holds no more students than it may, and none
\* that was ticked under another filter, whatever was ticked, listed again or
\* filtered before (ProtocolCreatePage: changeDormitoryFilter, handleCreate).
THEOREM ProtocolAsShown == Spec => []TickedHere
  <1>1. Named /\ (page.at = "create" => CreateInv) => TickedHere
    BY CreateRest DEF TickedHere
  <1> QED BY <1>1, CreateAlways, PTL

------------------------------------------------------------------------------
\* The assistant: the messages, and the turns they are of.

Speaker(i) == IF i % 2 = 1 THEN "user" ELSE "assistant"
\* n messages, the questions and the answers in turn.
Alternates(s, n) ==
  s \in Seq({"user", "assistant"}) /\ Len(s) = n /\ \A i \in 1..n : s[i] = Speaker(i)
Turns == {s \in Seq(Nat) : \A i \in 1..Len(s) : s[i] = i - 1}
Opened(c) == c \in Chats /\ server.turns[c] # None
\* 2 * k messages of a conversation, or of none.
Of(k, c) == IF c = None THEN k = 0 ELSE k <= Len(server.turns[c])
\* Those of another role of the user's have been opened too.
Foreign == \A c \in server.foreign : Opened(c)
\* Nothing was asked too early, nor has the role changed.
Steady == ~page.early /\ ~stale
Asks(t) == t.fn \in {"ask", "answer"}
OfPage(t) == Asks(t) /\ t.arg.by = "page"
Question == [chat : Chats \cup {None}, by : {"page", "tab"}, seen : Nat]
Asked(k) == IF page.sending THEN 2 * k + 1 ELSE 2 * k
ChatTask(t) ==
  /\ IsTask(t) /\ t.fn \in {"load", "ask", "answer"}
  /\ t.fn = "load" /\ t.wire = "ok" =>
       /\ t.reply.chat # None => Opened(t.reply.chat)
       /\ ~stale => t.reply.chat \notin server.foreign
       /\ \E k \in Nat : Alternates(t.reply.messages, 2 * k) /\ Of(k, t.reply.chat)
  /\ Asks(t) => t.arg \in Question /\ (t.arg.chat # None => Opened(t.arg.chat))
  /\ t.fn = "answer" => t.arg.chat # None
  /\ t.fn = "ask" => t.wire # "ok"
  /\ OfPage(t) /\ Steady =>
       /\ t.fn = "ask" \/ page.chat # None => t.arg.chat = page.chat
       /\ t.fn = "answer" => t.arg.chat \notin server.foreign
       /\ t.fn = "answer" =>
            \A k \in Nat : Len(page.messages) = 2 * k + 1 =>
              (IF t.wire = "ok" THEN k + 1 ELSE k) <= Len(server.turns[t.arg.chat])
ChatPage ==
  /\ DOMAIN page = {"at", "loaded", "chat", "messages", "sending", "error", "early", "asked"}
  /\ page.at = "chat" /\ page.loaded \in BOOLEAN /\ page.sending \in BOOLEAN
  /\ page.early \in BOOLEAN
ChatRows ==
  [turns : [Chats -> {None} \cup Turns], latest : Chats \cup {None}, foreign : SUBSET Chats]
ChatShown ==
  ~page.early =>
    /\ \E k \in Nat : Alternates(page.messages, Asked(k)) /\ (~stale => Of(k, page.chat))
    /\ ~page.loaded => ~page.sending /\ page.messages = <<>> /\ page.chat = None
OneEach ==
  /\ \A s, t \in tasks : OfPage(s) /\ OfPage(t) => s = t
  /\ \A s, t \in tasks : s.fn = "load" /\ t.fn = "load" => s = t
  /\ page.sending <=> \E t \in tasks : OfPage(t)
  /\ ~page.loaded <=> \E t \in tasks : t.fn = "load"
ChatInv ==
  /\ ChatPage /\ server \in ChatRows
  /\ page.chat # None => Opened(page.chat)
  /\ Steady => page.chat \notin server.foreign
  /\ server.latest # None => Opened(server.latest)
  /\ Foreign
  /\ \A t \in tasks : ChatTask(t)
  /\ OneEach /\ ChatShown

------------------------------------------------------------------------------
\* Sequences of messages and of turns.

LEMMA NextTurn ==
  ASSUME NEW s \in Turns
  PROVE  Append(s, Len(s)) \in Turns /\ Len(Append(s, Len(s))) = Len(s) + 1 /\ Len(s) \in Nat
  <1>1. s \in Seq(Nat) /\ Len(s) \in Nat /\ \A i \in 1..Len(s) : s[i] = i - 1
    BY LenProperties DEF Turns
  <1> DEFINE r == Append(s, Len(s))
  <1>2. /\ r \in Seq(Nat) /\ Len(r) = Len(s) + 1 /\ r[Len(r)] = Len(s)
        /\ \A i \in 1..Len(s) : r[i] = s[i]
    BY <1>1, AppendProperties
  <1> HIDE DEF r
  <1>3. \A i \in 1..Len(r) : r[i] = i - 1
    BY <1>1, <1>2
  <1> QED BY <1>1, <1>2, <1>3 DEF Turns, r

LEMMA NoTurn == <<>> \in Turns /\ Len(<<>>) = 0
  BY EmptySeq DEF Turns

LEMMA NextMessage ==
  ASSUME NEW n \in Nat, NEW s, Alternates(s, n)
  PROVE  Alternates(Append(s, Speaker(n + 1)), n + 1)
  <1> DEFINE r == Append(s, Speaker(n + 1))
  <1>1. Speaker(n + 1) \in {"user", "assistant"}
    BY DEF Speaker
  <1>2. /\ r \in Seq({"user", "assistant"}) /\ Len(r) = n + 1 /\ r[n + 1] = Speaker(n + 1)
        /\ \A i \in 1..n : r[i] = s[i]
    BY <1>1, AppendProperties DEF Alternates
  <1> HIDE DEF r
  <1>3. \A i \in 1..(n + 1) : r[i] = Speaker(i)
    BY <1>2 DEF Alternates
  <1> QED BY <1>2, <1>3 DEF Alternates, r

LEMMA FewerMessages ==
  ASSUME NEW n \in Nat, NEW s, Alternates(s, n + 1)
  PROVE  Alternates(SubSeq(s, 1, Len(s) - 1), n)
  <1> DEFINE r == SubSeq(s, 1, n)
  <1>1. Len(s) - 1 = n
    BY DEF Alternates
  <1>2. \A i \in 1..n : s[i] = Speaker(i) /\ s[i] \in {"user", "assistant"}
    BY DEF Alternates, Speaker
  <1>3. /\ r \in Seq({"user", "assistant"}) /\ Len(r) = IF 1 <= n THEN n - 1 + 1 ELSE 0
        /\ \A i \in 1..(n - 1 + 1) : r[i] = s[1 + i - 1]
    BY <1>2, SubSeqProperties
  <1> HIDE DEF r
  <1>4. Len(r) = n /\ \A i \in 1..n : r[i] = s[i]
    BY <1>3
  <1>5. Alternates(r, n)
    BY <1>2, <1>3, <1>4 DEF Alternates
  <1> QED BY <1>1, <1>5 DEF r

LEMMA NoMessage == Alternates(<<>>, 0)
  BY EmptySeq DEF Alternates

LEMMA DisplayedAlternates ==
  ASSUME NEW s \in Turns
  PROVE  Alternates(Displayed(s), 2 * Len(s))
  <1>1. Len(s) \in Nat
    BY LenProperties DEF Turns
  <1> DEFINE n == 2 * Len(s)
             r == [i \in 1..n |-> IF i % 2 = 1 THEN "user" ELSE "assistant"]
  <1>2. n \in Nat /\ Displayed(s) = r
    BY <1>1 DEF Displayed
  <1> HIDE DEF n
  <1>3. r \in [1..n -> {"user", "assistant"}] /\ \A i \in 1..n : r[i] = Speaker(i)
    BY DEF Speaker
  <1> HIDE DEF r
  <1>4. r \in Seq({"user", "assistant"}) /\ Len(r) = n
    BY <1>2, <1>3, IsASeq, LenProperties
  <1> QED BY <1>2, <1>3, <1>4 DEF Alternates, n

------------------------------------------------------------------------------

LEMMA ChatBegins == ChatInit => ChatInv
  <1> SUFFICES ASSUME ChatInit PROVE ChatInv
    OBVIOUS
  <1>1. /\ ChatPage /\ ~page.loaded /\ ~page.sending /\ page.messages = <<>> /\ page.chat = None
    BY DEF ChatInit, ChatPage
  <1>2. PICK old \in Chats \cup {None} :
          server = [turns |-> [c \in Chats |-> IF c = old THEN <<0>> ELSE None],
                    latest |-> old, foreign |-> {}]
    BY DEF ChatInit
  <1>3. <<0>> \in Turns /\ <<0>> # None
    <2>1. <<0>> = Append(<<>>, Len(<<>>))
      BY NoTurn
    <2>2. <<0>> \in Turns
      BY <2>1, NoTurn, NextTurn
    <2> QED BY <2>2, ChatsAssumption DEF ChatsAssumption, Turns
  <1>4. server \in ChatRows /\ (server.latest # None => Opened(server.latest))
        /\ server.foreign = {}
    <2> DEFINE turns == [c \in Chats |-> IF c = old THEN <<0>> ELSE None]
    <2>1. turns \in [Chats -> {None} \cup Turns] /\ (old # None => turns[old] # None)
      BY <1>3
    <2>2. server = [turns |-> turns, latest |-> old, foreign |-> {}]
      BY <1>2
    <2> HIDE DEF turns
    <2> QED BY <2>1, <2>2 DEF ChatRows, Opened
  <1>5. tasks # {} /\ \A s, t \in tasks : s = t /\ t.fn = "load" /\ ChatTask(t) /\ ~OfPage(t)
    BY FirstTask DEF ChatInit, ChatTask, OfPage, Asks
  <1>6. ChatShown
    <2>1. Alternates(page.messages, Asked(0)) /\ Of(0, page.chat)
      BY <1>1, NoMessage DEF Asked, Of
    <2> QED BY <1>1, <2>1 DEF ChatShown
  <1> QED BY <1>1, <1>4, <1>5, <1>6 DEF ChatInv, OneEach, Foreign

\* Conversations are opened and grow; what is asked meanwhile may start and end.
Grows == /\ \A c : Opened(c) => Opened(c)' /\ Len(server.turns[c]) <= Len(server'.turns[c])
         /\ \A c : Opened(c) => Len(server.turns[c]) \in Nat /\ Len(server'.turns[c]) \in Nat

LEMMA ChatSame == ChatInv /\ UNCHANGED server => Grows
  <1> SUFFICES ASSUME ChatInv, UNCHANGED server PROVE Grows
    OBVIOUS
  <1>1. \A c : Opened(c) => Len(server.turns[c]) \in Nat
    BY NextTurn DEF ChatInv, ChatRows, Opened
  <1> QED BY <1>1 DEF Grows, Opened

\* A step of the server, or of another tab: the page is as it was.
LEMMA Replaced ==
  ASSUME OneEach, NEW t \in tasks, NEW u, tasks' = (tasks \ {t}) \cup {u},
         OfPage(u) <=> OfPage(t), u.fn = "load" <=> t.fn = "load",
         page'.sending = page.sending, page'.loaded = page.loaded
  PROVE  OneEach'
  BY DEF OneEach, OfPage, Asks

\* What the page shows, and has asked, is as sure as it was; or it has asked and
\* shows nothing yet.
Sure ==
  ~stale' => \/ ~stale /\ server'.foreign = server.foreign
             \/ ~page.loaded /\ \A v \in tasks' : v.fn = "load" => ChatTask(v)'

LEMMA NothingShown ==
  ChatInv /\ ~page.loaded /\ ~page.early =>
    /\ page.messages = <<>> /\ page.chat = None /\ ~page.sending
    /\ \A v \in tasks : ~OfPage(v)
  BY DEF ChatInv, ChatShown, OneEach

LEMMA ChatElsewhere ==
  ASSUME ChatInv, ChatPage', page'.loaded = page.loaded, page'.chat = page.chat,
         page'.messages = page.messages, page'.sending = page.sending,
         page'.early = page.early, server' \in ChatRows, Grows, Sure, Foreign',
         server'.latest # None => Opened(server.latest)',
         \A u \in tasks' : u \in tasks \/ ChatTask(u)', OneEach'
  PROVE  ChatInv'
  <1>1. \A c : Opened(c) => Opened(c)' /\ Len(server.turns[c]) <= Len(server'.turns[c])
                            /\ Len(server.turns[c]) \in Nat /\ Len(server'.turns[c]) \in Nat
    BY DEF Grows
  <1>2. \A k \in Nat : \A c \in {None} \cup Chats : (c # None => Opened(c)) /\ Of(k, c) => Of(k, c)'
    BY <1>1 DEF Of
  <1>3. ASSUME NEW v \in tasks, v \in tasks' PROVE ChatTask(v)'
    <2>1. ChatTask(v)
      BY DEF ChatInv
    <2>0. ASSUME v.fn = "load", v.wire = "ok", ~stale'
          PROVE  v.reply.chat \notin server'.foreign
      <3>1. CASE ~stale /\ server'.foreign = server.foreign
        BY <2>0, <2>1, <3>1 DEF ChatTask
      <3>2. CASE ChatTask(v)'
        BY <2>0, <3>2 DEF ChatTask
      <3> QED BY <1>3, <2>0, <3>1, <3>2 DEF Sure
    <2>2. v.fn = "load" /\ v.wire = "ok" =>
            /\ v.reply.chat # None => Opened(v.reply.chat)'
            /\ \E k \in Nat : Alternates(v.reply.messages, 2 * k) /\ Of(k, v.reply.chat)'
      <3> SUFFICES ASSUME v.fn = "load", v.wire = "ok"
                   PROVE  /\ v.reply.chat # None => Opened(v.reply.chat)'
                          /\ \E k \in Nat : Alternates(v.reply.messages, 2 * k)
                                            /\ Of(k, v.reply.chat)'
        OBVIOUS
      <3>1. v.reply.chat # None => Opened(v.reply.chat)
        BY <2>1 DEF ChatTask
      <3>2. v.reply.chat \in {None} \cup Chats
        BY <3>1 DEF Opened
      <3>3. PICK k \in Nat : Alternates(v.reply.messages, 2 * k) /\ Of(k, v.reply.chat)
        BY <2>1 DEF ChatTask
      <3> QED BY <1>1, <1>2, <3>1, <3>2, <3>3
    <2>3. Asks(v) => v.arg \in Question /\ (v.arg.chat # None => Opened(v.arg.chat)')
      BY <1>1, <2>1 DEF ChatTask
    <2>a. ASSUME OfPage(v), ~page.early, ~stale'
          PROVE  Steady /\ server'.foreign = server.foreign
      BY <2>a, NothingShown DEF Sure, Steady
    <2>4. OfPage(v) /\ ~page.early /\ ~stale' /\ v.fn = "answer" =>
            \A k \in Nat : Len(page.messages) = 2 * k + 1 =>
              (IF v.wire = "ok" THEN k + 1 ELSE k) <= Len(server'.turns[v.arg.chat])
      <3> SUFFICES ASSUME OfPage(v), ~page.early, ~stale', v.fn = "answer", NEW k \in Nat,
                          Len(page.messages) = 2 * k + 1
                   PROVE  (IF v.wire = "ok" THEN k + 1 ELSE k) <= Len(server'.turns[v.arg.chat])
        OBVIOUS
      <3>1. /\ (IF v.wire = "ok" THEN k + 1 ELSE k) <= Len(server.turns[v.arg.chat])
            /\ v.arg.chat # None /\ Opened(v.arg.chat)
        BY <2>1, <2>a DEF ChatTask, OfPage
      <3> QED BY <1>1, <3>1
    <2>5. OfPage(v) /\ ~page.early /\ ~stale' =>
            /\ v.fn = "ask" \/ page.chat # None => v.arg.chat = page.chat
            /\ v.fn = "answer" => v.arg.chat \notin server'.foreign
      BY <2>1, <2>a DEF ChatTask
    <2> QED BY <2>1, <2>0, <2>2, <2>3, <2>4, <2>5 DEF ChatTask, OfPage, Asks, Steady
  <1>4. ChatShown'
    <2> SUFFICES ASSUME ~page.early
                 PROVE  /\ \E k \in Nat : /\ Alternates(page.messages, Asked(k))'
                                          /\ ~stale' => Of(k, page.chat)'
                        /\ ~page.loaded => /\ ~page.sending /\ page.messages = <<>>
                                           /\ page.chat = None
      BY DEF ChatShown
    <2>1. PICK k \in Nat : Alternates(page.messages, Asked(k)) /\ (~stale' => Of(k, page.chat))
      <3>1. CASE page.loaded
        BY <3>1 DEF ChatInv, ChatShown, Sure
      <3>2. CASE ~page.loaded
        <4>1. Alternates(page.messages, Asked(0)) /\ Of(0, page.chat)
          BY <3>2, NothingShown, NoMessage DEF Asked, Of
        <4> QED BY <4>1
      <3> QED BY <3>1, <3>2
    <2>2. page.chat \in {None} \cup Chats /\ (page.chat # None => Opened(page.chat))
      BY DEF ChatInv, Opened
    <2>3. ~stale' => Of(k, page.chat)'
      BY <1>2, <2>1, <2>2 DEF Of
    <2>4. Alternates(page.messages, Asked(k))'
      BY <2>1 DEF Alternates, Asked
    <2> QED BY <2>3, <2>4 DEF ChatInv, ChatShown
  <1>6. page'.chat # None => Opened(page.chat)'
    <2>1. page.chat # None => Opened(page.chat)
      BY DEF ChatInv
    <2> QED BY <1>1, <2>1 DEF Opened
  <1>7. \A t \in tasks' : ChatTask(t)'
    BY <1>3
  <1>8. ASSUME ~page.early, ~stale' PROVE page.chat \notin server'.foreign
    <2>1. CASE ~stale /\ server'.foreign = server.foreign
      BY <1>8, <2>1 DEF ChatInv, Steady
    <2>2. CASE ~page.loaded
      BY <1>8, <2>2, NothingShown, ChatsAssumption DEF ChatsAssumption, ChatRows
    <2> QED BY <1>8, <2>1, <2>2 DEF Sure
  <1> QED BY <1>4, <1>6, <1>7, <1>8 DEF ChatInv, Steady

LEMMA AnswerWaits ==
  ASSUME ChatInv, page' = page, NEW t \in tasks, t.fn = "ask",
         NEW u, IsTask(u), u.fn = "answer", u.wire = "sent", u.arg \in Question,
         u.arg.by = t.arg.by, u.arg.chat # None, Opened(u.arg.chat)',
         Len(server'.turns[u.arg.chat]) \in Nat,
         u.arg.chat \notin server'.foreign, stale' = stale,
         t.arg.chat # None /\ t.arg.chat \notin server.foreign =>
           u.arg.chat = t.arg.chat /\ server' = server
  PROVE  ChatTask(u)'
  <1>1. ChatTask(t)
    BY DEF ChatInv
  <1>2. ASSUME OfPage(u), ~page.early, ~stale
        PROVE  /\ page.chat # None => u.arg.chat = page.chat
               /\ \A k \in Nat : Len(page.messages) = 2 * k + 1 =>
                    k <= Len(server'.turns[u.arg.chat])
    <2>1. OfPage(t) /\ t.arg.chat = page.chat /\ page.chat \notin server.foreign
      BY <1>1, <1>2 DEF ChatTask, OfPage, Asks, Steady, ChatInv
    <2>2. page.sending
      BY <2>1 DEF ChatInv, OneEach
    <2>3. PICK m \in Nat : Alternates(page.messages, 2 * m + 1) /\ Of(m, page.chat)
      BY <1>2, <2>2 DEF ChatInv, ChatShown, Asked
    <2>4. Len(page.messages) = 2 * m + 1
      BY <2>3 DEF Alternates
    <2>5. m <= Len(server'.turns[u.arg.chat])
      BY <2>1, <2>3 DEF Of
    <2> QED BY <2>1, <2>4, <2>5
  <1> QED BY <1>2 DEF ChatTask, OfPage, Asks, Steady

LEMMA ReadHistoryKeeps ==
  ASSUME ChatInv, NEW t \in tasks, ReadHistory(t)
  PROVE  ChatInv'
  <1>1. /\ page' = page /\ stale' = stale /\ ChatTask(t) /\ t.fn = "ask" /\ t.wire = "sent"
        /\ t.arg \in Question /\ (t.arg.chat # None => Opened(t.arg.chat))
        /\ ChatPage' /\ server \in ChatRows /\ Foreign
    BY DEF ChatInv, ReadHistory, Awaiting, ChatTask, Asks, ChatPage
  <1>2. ASSUME NEW u, tasks' = (tasks \ {t}) \cup {u}, IsTask(u), u.arg.by = t.arg.by,
               ChatTask(u)', u.fn \in {"ask", "answer"}, server' \in ChatRows, Grows,
               server'.foreign = server.foreign,
               server'.latest # None => Opened(server.latest)'
        PROVE  ChatInv'
    <2>1. OneEach'
      <3>1. OfPage(u) <=> OfPage(t)
        BY <1>1, <1>2 DEF OfPage, Asks
      <3>2. OneEach
        BY DEF ChatInv
      <3> QED BY <1>1, <1>2, <3>1, <3>2, Replaced
    <2>2. Sure /\ Foreign'
      BY <1>1, <1>2 DEF Sure, Foreign, Grows
    <2> QED BY <1>1, <1>2, <2>1, <2>2, ChatElsewhere
  <1>3. ASSUME NEW arg \in Question, GoOn(t, New("answer", arg)), arg.by = t.arg.by,
               arg.chat # None, Opened(arg.chat)', Len(server'.turns[arg.chat]) \in Nat,
               t.arg.chat # None /\ t.arg.chat \notin server.foreign =>
                 arg.chat = t.arg.chat /\ server' = server,
               arg.chat \notin server.foreign, server'.foreign = server.foreign,
               server' \in ChatRows, Grows, server'.latest # None => Opened(server.latest)'
        PROVE  ChatInv'
    <2>1. PICK u : /\ tasks' = (tasks \ {t}) \cup {u} /\ IsTask(u) /\ u.fn = "answer"
                   /\ u.wire = "sent" /\ u.arg = arg
      <3> DEFINE u == New("answer", arg)
      <3>1. tasks' = (tasks \ {t}) \cup {u}
        BY <1>3 DEF GoOn
      <3>2. IsTask(u) /\ u.fn = "answer" /\ u.wire = "sent" /\ u.arg = arg
        BY NewTask
      <3> HIDE DEF u
      <3> QED BY <3>1, <3>2
    <2>2. /\ u.arg \in Question /\ u.arg.by = t.arg.by /\ u.arg.chat # None
          /\ Len(server'.turns[u.arg.chat]) \in Nat
          /\ t.arg.chat # None /\ t.arg.chat \notin server.foreign =>
               u.arg.chat = t.arg.chat /\ server' = server
          /\ u.arg.chat \notin server'.foreign
      BY <1>3, <2>1
    <2>3. Opened(u.arg.chat)'
      BY <1>3, <2>1 DEF Opened
    <2>4. ChatTask(u)'
      BY <1>1, <2>1, <2>2, <2>3, AnswerWaits
    <2> QED BY <1>2, <1>3, <2>1, <2>2, <2>4
  <1>4. CASE /\ t.arg.chat # None /\ t.arg.chat \notin server.foreign /\ UNCHANGED server
             /\ GoOn(t, New("answer", [t.arg EXCEPT !.seen = Len(server.turns[t.arg.chat])]))
    <2>0. PICK arg : arg = [t.arg EXCEPT !.seen = Len(server.turns[t.arg.chat])]
      OBVIOUS
    <2>1. server.turns[t.arg.chat] \in Turns
      BY <1>1, <1>4 DEF Opened, ChatRows
    <2>2. Len(server.turns[t.arg.chat]) \in Nat
      BY <2>1, NextTurn
    <2>3. arg \in Question /\ arg.by = t.arg.by /\ arg.chat = t.arg.chat
      BY <1>1, <2>0, <2>2 DEF Question
    <2>4. GoOn(t, New("answer", arg))
      BY <1>4, <2>0
    <2>5. Opened(arg.chat)' /\ (server'.latest # None => Opened(server.latest)') /\ Grows
      BY <1>1, <1>4, <2>3, ChatSame DEF Opened, ChatInv
    <2>6. Len(server'.turns[arg.chat]) \in Nat
      BY <1>4, <2>2, <2>3
    <2>7. server' \in ChatRows
      BY <1>1, <1>4 DEF ChatRows
    <2> QED BY <1>3, <1>4, <2>3, <2>4, <2>5, <2>6, <2>7
  <1>5. CASE /\ t.arg.chat = None \/ t.arg.chat \in server.foreign
             /\ \E c \in Chats :
                  /\ server.turns[c] = None
                  /\ server' = [server EXCEPT !.turns[c] = <<>>, !.latest = c]
                  /\ GoOn(t, New("answer", [t.arg EXCEPT !.chat = c]))
    <2>1. PICK c \in Chats :
            /\ server.turns[c] = None
            /\ server' = [server EXCEPT !.turns[c] = <<>>, !.latest = c]
            /\ GoOn(t, New("answer", [t.arg EXCEPT !.chat = c]))
      BY <1>5
    <2> DEFINE arg == [t.arg EXCEPT !.chat = c]
               turns == [server.turns EXCEPT ![c] = <<>>]
    <2>2. arg \in Question /\ arg.by = t.arg.by /\ arg.chat = c /\ c # None
      BY <1>1, ChatsAssumption DEF ChatsAssumption, Question
    <2>3. /\ GoOn(t, New("answer", arg))
          /\ server' = [turns |-> turns, latest |-> c, foreign |-> server.foreign]
      BY <1>1, <2>1 DEF ChatRows
    <2>a. c \notin server.foreign
      BY <1>1, <2>1 DEF Foreign, Opened
    <2>4. /\ turns \in [Chats -> {None} \cup Turns] /\ turns[c] = <<>>
          /\ \A d \in Chats \ {c} : turns[d] = server.turns[d]
      BY <1>1, NoTurn DEF ChatRows
    <2>5. <<>> # None /\ Len(<<>>) \in Nat
      BY NoTurn, ChatsAssumption DEF ChatsAssumption, Turns
    <2> HIDE DEF arg, turns
    <2>6. server' \in ChatRows /\ Opened(c)' /\ Len(server'.turns[c]) \in Nat
      <3>1. server.foreign \in SUBSET Chats
        BY <1>1 DEF ChatRows
      <3>2. server' \in ChatRows
        BY <2>3, <2>4, <3>1 DEF ChatRows
      <3> QED BY <2>3, <2>4, <2>5, <3>2 DEF Opened
    <2>7. Grows
      <3>1. \A d : Opened(d) => d \in Chats \ {c} /\ Len(server.turns[d]) \in Nat
        BY <1>1, <2>1, NextTurn DEF Opened, ChatRows
      <3> QED BY <2>3, <2>4, <3>1 DEF Grows, Opened
    <2>8. server'.latest # None => Opened(server.latest)'
      BY <2>3, <2>6 DEF Opened
    <2>9. Opened(arg.chat)' /\ Len(server'.turns[arg.chat]) \in Nat
      BY <2>2, <2>6 DEF Opened
    <2> QED BY <1>3, <1>5, <2>2, <2>3, <2>6, <2>7, <2>8, <2>9, <2>a
  <1>6. CASE Answered(t, "failed", None) /\ UNCHANGED server
    <2> DEFINE u == [t EXCEPT !.wire = "failed", !.reply = None]
    <2>1. tasks' = (tasks \ {t}) \cup {u}
      BY <1>6 DEF Answered, GoOn
    <2>2. IsTask(u) /\ u.fn = t.fn /\ u.arg = t.arg /\ u.wire = "failed"
      BY <1>1 DEF ChatTask, IsTask
    <2> HIDE DEF u
    <2>3. ChatTask(u)'
      BY <1>1, <1>6, <2>2 DEF ChatTask, OfPage, Asks, Opened, Steady
    <2>4. Grows /\ (server'.latest # None => Opened(server.latest)')
      BY <1>6, ChatSame DEF Opened, ChatInv
    <2> QED BY <1>1, <1>2, <1>6, <2>1, <2>2, <2>3, <2>4
  <1> QED BY <1>1, <1>4, <1>5, <1>6 DEF ReadHistory

\* A call that adds a turn, or loads what there is.
LEMMA ServedChat ==
  ASSUME ChatInv, page' = page, NEW t \in tasks, NEW u, IsTask(u), u.fn = t.fn, u.arg = t.arg,
         tasks' = (tasks \ {t}) \cup {u}, ChatTask(u)', server' \in ChatRows, Grows,
         server'.latest # None => Opened(server.latest)', server'.foreign = server.foreign,
         t.fn # "load" => (~stale' => ~stale)
  PROVE  ChatInv'
  <1>1. OneEach'
    <2>1. OfPage(u) <=> OfPage(t)
      BY DEF OfPage, Asks
    <2> QED BY <2>1, Replaced DEF ChatInv
  <1>2. ChatPage'
    BY DEF ChatInv, ChatPage
  <1>3. Sure
    <2>1. t.fn = "load" => ~page.loaded /\ \A v \in tasks' : v.fn = "load" => v = u
      BY DEF ChatInv, OneEach
    <2> QED BY <2>1 DEF Sure
  <1>4. Foreign'
    BY DEF ChatInv, Foreign, Grows
  <1> QED BY <1>1, <1>2, <1>3, <1>4, ChatElsewhere

LEMMA AppendMessagesKeeps ==
  ASSUME ChatInv, NEW t \in tasks, AppendMessages(t)
  PROVE  ChatInv'
  <1>1. /\ ChatTask(t) /\ IsTask(t) /\ t.fn = "answer" /\ t.arg \in Question
        /\ t.arg.chat # None /\ Opened(t.arg.chat) /\ server \in ChatRows
    BY DEF ChatInv, AppendMessages, Awaiting, ChatTask, Asks
  <1>2. PICK c : c = t.arg.chat
    OBVIOUS
  <1>3. PICK turns : turns = [server.turns EXCEPT ![c] = Append(@, t.arg.seen)]
    OBVIOUS
  <1>a. PICK after : after = [server EXCEPT !.turns[c] = Append(@, t.arg.seen), !.latest = c]
    OBVIOUS
  <1>4. after = [turns |-> turns, latest |-> c, foreign |-> server.foreign]
    <2>1. after.turns = [server.turns EXCEPT ![c] = Append(@, t.arg.seen)]
      BY <1>1, <1>a DEF ChatRows
    <2>2. after = [turns |-> after.turns, latest |-> c, foreign |-> server.foreign]
      BY <1>1, <1>a DEF ChatRows
    <2> QED BY <1>3, <2>1, <2>2, Zenon
  <1>5. Serve(t, Len(server.turns[c]) = t.arg.seen, after, None)
    BY <1>2, <1>a DEF AppendMessages
  <1>6. /\ UNCHANGED page
        /\ server' # server => Len(server.turns[c]) = t.arg.seen /\ server' = after
        /\ \E u : Ended(t, u, Len(server.turns[c]) = t.arg.seen, after, None)
    BY <1>1, <1>5, CallEnds
  <1>7. PICK u : Ended(t, u, Len(server.turns[c]) = t.arg.seen, after, None)
    BY <1>6
  <1>8. /\ IsTask(u) /\ u.fn = "answer" /\ u.arg = t.arg /\ u.wire \in {"ok", "failed"}
        /\ tasks' = (tasks \ {t}) \cup {u}
        /\ u.wire = "ok" => Len(server.turns[c]) = t.arg.seen /\ server' = after
        /\ ~stale' => ~stale
    BY <1>1, <1>7 DEF Ended
  <1>9. /\ c \in Chats /\ server.turns[c] \in Turns /\ server.turns \in [Chats -> {None} \cup Turns]
        /\ server.turns[c] # None /\ Len(server.turns[c]) \in Nat
    BY <1>1, <1>2, NextTurn DEF Opened, ChatRows
  <1>10. ASSUME Len(server.turns[c]) = t.arg.seen
         PROVE  /\ after \in ChatRows /\ after.turns = turns /\ after.latest = c
                /\ turns[c] # None /\ Len(turns[c]) = Len(server.turns[c]) + 1
                /\ \A d \in Chats \ {c} : turns[d] = server.turns[d]
    <2>1. /\ turns[c] = Append(server.turns[c], Len(server.turns[c]))
          /\ \A d \in Chats \ {c} : turns[d] = server.turns[d]
      BY <1>3, <1>9, <1>10
    <2>2. turns[c] \in Turns /\ Len(turns[c]) = Len(server.turns[c]) + 1
      BY <1>9, <2>1, NextTurn
    <2>3. turns[c] # None
      BY <2>2, ChatsAssumption DEF ChatsAssumption, Turns
    <2>4. turns \in [Chats -> {None} \cup Turns]
      <3>1. turns = [d \in Chats |-> turns[d]]
        BY <1>3, <1>9
      <3> QED BY <1>9, <2>1, <2>2, <3>1
    <2> QED BY <1>1, <1>4, <1>9, <2>1, <2>2, <2>3, <2>4 DEF ChatRows
  <1>11. /\ server' \in ChatRows /\ Grows /\ (server'.latest # None => Opened(server.latest)')
         /\ u.wire = "ok" => Len(server'.turns[c]) = Len(server.turns[c]) + 1
    <2>1. CASE server' = server
      <3>1. Grows /\ (server'.latest # None => Opened(server.latest)')
        BY <2>1, ChatSame DEF ChatInv, Opened
      <3>2. u.wire # "ok"
        <4> SUFFICES ASSUME u.wire = "ok" PROVE FALSE
          OBVIOUS
        <4>1. after = server /\ Len(after.turns[c]) = Len(server.turns[c]) + 1
          BY <1>8, <1>10, <2>1
        <4> QED BY <1>9, <4>1
      <3> QED BY <1>1, <2>1, <3>1, <3>2
    <2>2. CASE server' # server
      <3>1. Len(server.turns[c]) = t.arg.seen /\ server' = after
        BY <1>6, <2>2
      <3>2. /\ server' \in ChatRows /\ server'.turns = turns /\ server'.latest = c
            /\ turns[c] # None /\ Len(turns[c]) = Len(server.turns[c]) + 1
            /\ \A d \in Chats \ {c} : turns[d] = server.turns[d]
        BY <1>10, <3>1
      <3>3. \A d : Opened(d) => d \in Chats /\ Len(server.turns[d]) \in Nat
        BY <1>1, NextTurn DEF Opened, ChatRows
      <3>4. Grows
        BY <1>9, <3>2, <3>3 DEF Grows, Opened
      <3> QED BY <1>9, <3>2, <3>4 DEF Opened
    <2> QED BY <2>1, <2>2
  <1>12. Opened(t.arg.chat)' /\ Len(server.turns[c]) <= Len(server'.turns[c])
         /\ Len(server'.turns[c]) \in Nat
    BY <1>1, <1>2, <1>11 DEF Grows
  <1>13. ChatTask(u)'
    <2>0. server'.foreign = server.foreign
      BY <1>4, <1>6
    <2>1. OfPage(u) /\ ~page.early /\ ~stale' =>
            /\ OfPage(t) /\ ~stale /\ (page.chat # None => t.arg.chat = page.chat)
            /\ t.arg.chat \notin server'.foreign
      BY <1>1, <1>8, <2>0 DEF ChatTask, OfPage, Asks, Steady
    <2>2. OfPage(u) /\ ~page.early /\ ~stale' =>
            \A k \in Nat : Len(page.messages) = 2 * k + 1 =>
              (IF u.wire = "ok" THEN k + 1 ELSE k) <= Len(server'.turns[c])
      <3> SUFFICES ASSUME OfPage(u), ~page.early, ~stale', NEW k \in Nat,
                          Len(page.messages) = 2 * k + 1
                   PROVE  (IF u.wire = "ok" THEN k + 1 ELSE k) <= Len(server'.turns[c])
        OBVIOUS
      <3>1. k <= Len(server.turns[c])
        <4>1. (IF t.wire = "ok" THEN k + 1 ELSE k) <= Len(server.turns[t.arg.chat])
          BY <1>1, <2>1 DEF ChatTask, Steady
        <4> QED BY <1>2, <1>9, <4>1
      <3> QED BY <1>9, <1>11, <1>12, <3>1
    <2> QED BY <1>1, <1>2, <1>6, <1>8, <1>12, <2>1, <2>2 DEF ChatTask, OfPage, Asks, Steady
  <1>14. server'.foreign = server.foreign
    BY <1>4, <1>6
  <1> QED BY <1>1, <1>6, <1>8, <1>11, <1>13, <1>14, ServedChat

LEMMA ServeConversationKeeps ==
  ASSUME ChatInv, NEW t \in tasks, ServeConversation(t)
  PROVE  ChatInv'
  <1>1. ChatTask(t) /\ IsTask(t) /\ t.fn = "load" /\ server \in ChatRows
    BY DEF ChatInv, ServeConversation, Awaiting, ChatTask
  <1>2. PICK chat : chat = IF server.latest = None \/ server.latest \in server.foreign
                             THEN None ELSE server.latest
    OBVIOUS
  <1>a. PICK messages : messages = IF chat = None THEN <<>> ELSE Displayed(server.turns[chat])
    OBVIOUS
  <1>3. PICK reply : reply = [chat |-> chat, messages |-> messages]
    OBVIOUS
  <1>4. PICK after : after = server
    OBVIOUS
  <1>b. reply = IF server.latest = None \/ server.latest \in server.foreign
                  THEN [chat |-> None, messages |-> <<>>]
                  ELSE [chat |-> server.latest,
                        messages |-> Displayed(server.turns[server.latest])]
    BY <1>2, <1>3, <1>a
  <1>5. Serve(t, TRUE, after, reply)
    BY <1>4, <1>b DEF ServeConversation
  <1>6. UNCHANGED page /\ server' = server /\ \E u : Ended(t, u, TRUE, after, reply)
    BY <1>1, <1>4, <1>5, CallEnds
  <1>7. PICK u : Ended(t, u, TRUE, after, reply)
    BY <1>6
  <1>8. /\ IsTask(u) /\ u.fn = "load" /\ u.arg = t.arg /\ tasks' = (tasks \ {t}) \cup {u}
        /\ u.wire = "ok" => u.reply = reply
    BY <1>1, <1>7 DEF Ended
  <1>9. /\ server.latest # None => Opened(server.latest)
        /\ chat # None => Opened(chat)
        /\ chat \notin server.foreign
    BY <1>1, <1>2, ChatsAssumption DEF ChatInv, ChatsAssumption, ChatRows
  <1>10. \E k \in Nat : Alternates(messages, 2 * k) /\ Of(k, chat)
    <2>1. CASE chat = None
      <3>1. Alternates(messages, 2 * 0) /\ Of(0, chat)
        BY <1>a, <2>1, NoMessage DEF Of
      <3> QED BY <3>1
    <2>2. CASE chat # None
      <3>1. server.turns[chat] \in Turns
        BY <1>1, <1>9, <2>2 DEF Opened, ChatRows
      <3>2. PICK k : k = Len(server.turns[chat])
        OBVIOUS
      <3>3. k \in Nat /\ Alternates(messages, 2 * k)
        BY <1>a, <2>2, <3>1, <3>2, NextTurn, DisplayedAlternates
      <3>4. Of(k, chat)
        BY <2>2, <3>2, <3>3 DEF Of
      <3> QED BY <3>3, <3>4
    <2> QED BY <2>1, <2>2
  <1>11. ChatTask(u)'
    <2>1. u.wire = "ok" =>
            /\ u.reply.chat # None => Opened(u.reply.chat)'
            /\ u.reply.chat \notin server'.foreign
            /\ \E k \in Nat : Alternates(u.reply.messages, 2 * k) /\ Of(k, u.reply.chat)'
      BY <1>3, <1>6, <1>8, <1>9, <1>10 DEF Opened, Of
    <2> QED BY <1>8, <2>1 DEF ChatTask, OfPage, Asks
  <1>12. server' \in ChatRows /\ Grows /\ (server'.latest # None => Opened(server.latest)')
    BY <1>1, <1>6, <1>9, ChatSame DEF Opened
  <1> QED BY <1>1, <1>6, <1>8, <1>11, <1>12, ServedChat

\* Another tab asks, and has its answer.
LEMMA OtherTabKeeps ==
  ASSUME ChatInv, AskInAnotherTab \/ \E t \in tasks : TabAnswered(t)
  PROVE  ChatInv'
  <1>1. Grows /\ server' = server /\ server' \in ChatRows /\ stale' = stale
        /\ (server'.latest # None => Opened(server.latest)') /\ Sure /\ Foreign'
    BY ChatSame DEF ChatInv, AskInAnotherTab, TabAnswered, Opened, Sure, Foreign
  <1>2. ChatPage /\ OneEach
    BY DEF ChatInv
  <1>3. CASE AskInAnotherTab
    <2>1. /\ ChatPage' /\ page'.loaded = page.loaded /\ page'.chat = page.chat
          /\ page'.messages = page.messages /\ page'.sending = page.sending
          /\ page'.early = page.early
      BY <1>2, <1>3 DEF AskInAnotherTab, ChatPage
    <2>2. PICK u : /\ IsTask(u) /\ u.fn = "ask" /\ u.wire = "sent"
                   /\ u.arg = [chat |-> server.latest, by |-> "tab", seen |-> 0]
                   /\ tasks' = tasks \cup {u}
      <3> DEFINE u == Ask(server.latest, "tab")
      <3>1. /\ IsTask(u) /\ u.fn = "ask" /\ u.wire = "sent"
            /\ u.arg = [chat |-> server.latest, by |-> "tab", seen |-> 0]
        BY NewTask DEF Ask
      <3>2. tasks' = tasks \cup {u}
        BY <1>3 DEF AskInAnotherTab, Start
      <3> HIDE DEF u
      <3> QED BY <3>1, <3>2
    <2>3. u.arg \in Question /\ u.arg.by = "tab" /\ u.arg.chat = server.latest
      BY <1>1, <2>2 DEF ChatInv, ChatRows, Question
    <2>4. u.arg.chat # None => Opened(u.arg.chat)'
      BY <1>1, <2>3 DEF Opened
    <2>5. ChatTask(u)'
      BY <2>2, <2>3, <2>4 DEF ChatTask, OfPage, Asks
    <2>6. OneEach'
      BY <1>2, <2>1, <2>2, <2>3 DEF OneEach, OfPage, Asks
    <2> QED BY <1>1, <2>1, <2>2, <2>5, <2>6, ChatElsewhere
  <1>4. CASE \E t \in tasks : TabAnswered(t)
    <2>1. PICK t \in tasks : TabAnswered(t)
      BY <1>4
    <2>2. page' = page /\ tasks' = tasks \ {t} /\ ~OfPage(t) /\ t.fn # "load"
      BY <2>1 DEF TabAnswered, End, OfPage
    <2>3. OneEach'
      BY <1>2, <2>2 DEF OneEach, OfPage, Asks
    <2>4. ChatPage'
      BY <1>2, <2>2 DEF ChatPage
    <2> QED BY <1>1, <2>2, <2>3, <2>4, ChatElsewhere
  <1> QED BY <1>3, <1>4

\* The user's role changes.
LEMMA RoleChangesKeeps == ChatInv /\ RoleChanges => ChatInv'
  <1> SUFFICES ASSUME ChatInv, RoleChanges PROVE ChatInv'
    OBVIOUS
  <1> DEFINE foreign == {c \in Chats : server.turns[c] # None} \ server.foreign
  <1>1. /\ page' = page /\ tasks' = tasks /\ stale'
        /\ server' = [server EXCEPT !.foreign = foreign]
    BY DEF RoleChanges, Elsewhere
  <1>2. ChatPage /\ OneEach /\ server \in ChatRows
        /\ (server.latest # None => Opened(server.latest))
    BY DEF ChatInv
  <1>3. foreign \in SUBSET Chats /\ \A c \in foreign : server.turns[c] # None
    OBVIOUS
  <1> HIDE DEF foreign
  <1>4. /\ server' \in ChatRows /\ server'.turns = server.turns
        /\ server'.latest = server.latest /\ server'.foreign = foreign
    BY <1>1, <1>2, <1>3 DEF ChatRows
  <1>5. Grows
    <2>1. \A c : Opened(c) => Len(server.turns[c]) \in Nat
      BY <1>2, NextTurn DEF Opened, ChatRows
    <2> QED BY <1>4, <2>1 DEF Grows, Opened
  <1>6. Foreign' /\ Sure /\ (server'.latest # None => Opened(server.latest)')
    BY <1>1, <1>2, <1>3, <1>4 DEF Foreign, Opened, Sure
  <1>7. ChatPage' /\ OneEach'
    BY <1>1, <1>2 DEF ChatPage, OneEach, OfPage, Asks
  <1> QED BY <1>1, <1>4, <1>5, <1>6, <1>7, ChatElsewhere

\* A step of the page: no question of its own is left, or it is an early one.
LEMMA StillAsked ==
  ASSUME NEW v, ChatTask(v), server' = server, stale' = stale, OfPage(v) => page'.early
  PROVE  ChatTask(v)'
  BY DEF ChatTask, OfPage, Asks, Opened, Of, Steady

LEMMA PageSteps ==
  ASSUME ChatInv, server' = server, stale' = stale, ChatPage',
         page'.chat # None => Opened(page'.chat),
         ~page'.early /\ ~stale => page'.chat \notin server.foreign,
         \A v \in tasks' : ChatTask(v)', OneEach', ChatShown'
  PROVE  ChatInv'
  BY DEF ChatInv, Opened, ChatRows, Steady, Foreign

LEMMA SendMessageKeeps == ChatInv /\ SendMessage => ChatInv'
  <1> SUFFICES ASSUME ChatInv, SendMessage PROVE ChatInv'
    OBVIOUS
  <1>1. /\ ChatPage /\ OneEach /\ ChatShown /\ server' = server /\ stale' = stale
        /\ page.chat # None => Opened(page.chat)
        /\ ~page.early /\ ~stale => page.chat \notin server.foreign
        /\ ~page.sending /\ \A v \in tasks : ChatTask(v) /\ ~OfPage(v)
    BY DEF ChatInv, SendMessage, OneEach, Steady
  <1>2. /\ ChatPage' /\ page'.sending /\ page'.chat = page.chat /\ page'.loaded = page.loaded
        /\ page'.messages = Append(page.messages, "user")
        /\ page'.early = (page.early \/ ~page.loaded)
    BY <1>1 DEF SendMessage, ChatPage
  <1>3. PICK u : /\ IsTask(u) /\ u.fn = "ask" /\ u.wire = "sent"
                 /\ u.arg = [chat |-> page.chat, by |-> "page", seen |-> 0]
                 /\ tasks' = tasks \cup {u}
    <2> DEFINE u == Ask(page.chat, "page")
    <2>1. /\ IsTask(u) /\ u.fn = "ask" /\ u.wire = "sent"
          /\ u.arg = [chat |-> page.chat, by |-> "page", seen |-> 0]
      BY NewTask DEF Ask
    <2>2. tasks' = tasks \cup {u}
      BY DEF SendMessage, Start
    <2> HIDE DEF u
    <2> QED BY <2>1, <2>2
  <1>4. u.arg \in Question /\ u.arg.by = "page" /\ u.arg.chat = page.chat /\ OfPage(u)
    BY <1>1, <1>3 DEF Question, Opened, OfPage, Asks
  <1>5. ChatTask(u)'
    <2>1. u.arg.chat # None => Opened(u.arg.chat)'
      BY <1>1, <1>4 DEF Opened
    <2> QED BY <1>2, <1>3, <1>4, <2>1 DEF ChatTask, OfPage, Asks, Steady
  <1>6. \A v \in tasks' : ChatTask(v)'
    BY <1>1, <1>3, <1>5, StillAsked
  <1>7. OneEach'
    BY <1>1, <1>2, <1>3, <1>4 DEF OneEach, OfPage, Asks
  <1>8. ChatShown'
    <2> SUFFICES ASSUME ~page.early, page.loaded
                 PROVE  \E k \in Nat : /\ Alternates(page.messages, Asked(k))'
                                       /\ ~stale => Of(k, page.chat)'
      BY <1>1, <1>2 DEF ChatShown, ChatPage
    <2>1. PICK k \in Nat : Alternates(page.messages, 2 * k) /\ (~stale => Of(k, page.chat))
      BY <1>1 DEF ChatShown, Asked
    <2>2. PICK n \in Nat : n = 2 * k
      OBVIOUS
    <2>3. Speaker(n + 1) = "user"
      BY <2>2 DEF Speaker
    <2>4. Alternates(page'.messages, n + 1)
      BY <1>2, <2>1, <2>2, <2>3, NextMessage
    <2>5. Asked(k)' = n + 1 /\ (~stale => Of(k, page.chat)')
      BY <1>1, <1>2, <2>1, <2>2 DEF Asked, Of
    <2> QED BY <2>4, <2>5 DEF Alternates
  <1> QED BY <1>1, <1>2, <1>6, <1>7, <1>8, PageSteps

LEMMA NewChatKeeps == ChatInv /\ NewChat => ChatInv'
  <1> SUFFICES ASSUME ChatInv, NewChat PROVE ChatInv'
    OBVIOUS
  <1>1. /\ ChatPage /\ OneEach /\ ChatShown /\ server' = server /\ tasks' = tasks
        /\ stale' = stale /\ None \notin server.foreign
        /\ ~page.sending /\ \A v \in tasks : ChatTask(v) /\ ~OfPage(v)
    BY ChatsAssumption DEF ChatInv, NewChat, OneEach, ChatRows, ChatsAssumption
  <1>2. /\ ChatPage' /\ ~page'.sending /\ page'.chat = None /\ page'.loaded = page.loaded
        /\ page'.messages = <<>> /\ page'.early = (page.early \/ ~page.loaded)
    BY <1>1 DEF NewChat, ChatPage
  <1>3. OneEach'
    BY <1>1, <1>2 DEF OneEach, OfPage, Asks
  <1>4. ChatShown'
    <2>1. Alternates(page.messages, Asked(0))' /\ Of(0, page.chat)'
      BY <1>2, NoMessage DEF Asked, Of, Alternates
    <2> QED BY <1>2, <2>1 DEF ChatShown
  <1>5. \A v \in tasks' : ChatTask(v)'
    BY <1>1, StillAsked
  <1> QED BY <1>1, <1>2, <1>3, <1>4, <1>5, PageSteps

LEMMA ConversationReturnsKeeps ==
  ASSUME ChatInv, NEW t \in tasks, ConversationReturns(t)
  PROVE  ChatInv'
  <1>1. /\ ChatPage /\ OneEach /\ ChatShown /\ server' = server /\ tasks' = tasks \ {t}
        /\ stale' = stale /\ (~page.early /\ ~stale => page.chat \notin server.foreign)
        /\ t.fn = "load" /\ ~page.loaded /\ ~OfPage(t) /\ \A v \in tasks : ChatTask(v)
        /\ page.chat # None => Opened(page.chat)
    BY DEF ChatInv, ConversationReturns, OneEach, End, OfPage, Asks, Steady
  <1>2. /\ ChatPage' /\ page'.sending = page.sending /\ page'.loaded
        /\ page'.early = page.early
        /\ \/ page'.chat = page.chat /\ page'.messages = page.messages
           \/ t.wire = "ok" /\ page'.chat = t.reply.chat /\ page'.messages = t.reply.messages
    BY <1>1 DEF ConversationReturns, ChatPage, ChatTask, IsTask
  <1>3. t.wire = "ok" => /\ t.reply.chat # None => Opened(t.reply.chat)
                         /\ ~stale => t.reply.chat \notin server.foreign
                         /\ \E k \in Nat : Alternates(t.reply.messages, 2 * k)
                                           /\ Of(k, t.reply.chat)
    BY <1>1 DEF ChatTask
  <1>4. OneEach'
    BY <1>1, <1>2 DEF OneEach, OfPage, Asks
  <1>5. ~page.early => ~page.sending /\ \A v \in tasks : ~OfPage(v)
    BY <1>1 DEF ChatShown, OneEach
  <1>6. ChatShown'
    <2> SUFFICES ASSUME ~page.early
                 PROVE  \E k \in Nat : /\ Alternates(page.messages, Asked(k))'
                                       /\ ~stale => Of(k, page.chat)'
      BY <1>1, <1>2 DEF ChatShown
    <2>1. \E k \in Nat : Alternates(page'.messages, 2 * k) /\ (~stale => Of(k, page'.chat))
      <3>1. \E k \in Nat : Alternates(page.messages, 2 * k) /\ (~stale => Of(k, page.chat))
        BY <1>1, <1>5 DEF ChatShown, Asked
      <3> QED BY <1>2, <1>3, <3>1
    <2>2. PICK k \in Nat : Alternates(page'.messages, 2 * k) /\ (~stale => Of(k, page'.chat))
      BY <2>1
    <2>3. Asked(k)' = 2 * k
      BY <1>2, <1>5 DEF Asked
    <2> QED BY <1>1, <2>2, <2>3 DEF Alternates, Of
  <1>7. \A v \in tasks' : ChatTask(v)'
    BY <1>1, <1>2, <1>5, StillAsked
  <1>8. /\ page'.chat # None => Opened(page'.chat)
        /\ ~page'.early /\ ~stale => page'.chat \notin server.foreign
    BY <1>1, <1>2, <1>3
  <1> QED BY <1>1, <1>2, <1>4, <1>6, <1>7, <1>8, PageSteps

LEMMA SendReturnsKeeps ==
  ASSUME ChatInv, NEW t \in tasks, SendReturns(t)
  PROVE  ChatInv'
  <1>1. /\ ChatPage /\ OneEach /\ ChatShown /\ server' = server /\ tasks' = tasks \ {t}
        /\ OfPage(t) /\ page.sending /\ \A v \in tasks : ChatTask(v)
        /\ page.chat # None => Opened(page.chat)
        /\ stale' = stale /\ (~page.early /\ ~stale => page.chat \notin server.foreign)
    BY DEF ChatInv, SendReturns, OneEach, End, OfPage, Asks, Steady
  <1>2. t.wire \in {"ok", "failed"}
    BY <1>1 DEF SendReturns, ChatTask, IsTask
  <1>3. /\ ChatPage' /\ ~page'.sending /\ page'.loaded = page.loaded /\ page'.early = page.early
        /\ IF t.wire = "failed"
             THEN /\ page'.chat = page.chat
                  /\ page'.messages = SubSeq(page.messages, 1, Len(page.messages) - 1)
             ELSE page'.chat = t.arg.chat /\ page'.messages = Append(page.messages, "assistant")
    BY <1>1 DEF SendReturns, ChatPage
  <1>4. t.wire = "ok" => t.fn = "answer" /\ t.arg.chat # None
    BY <1>1 DEF ChatTask, OfPage, Asks
  <1>5. /\ page'.chat # None => Opened(page'.chat)
        /\ ~page'.early /\ ~stale => page'.chat \notin server.foreign
    BY <1>1, <1>2, <1>3, <1>4 DEF ChatTask, OfPage, Steady
  <1>6. \A v \in tasks' : ~OfPage(v)
    BY <1>1 DEF OneEach
  <1>7. OneEach'
    BY <1>1, <1>3, <1>6 DEF OneEach, OfPage, Asks
  <1>8. \A v \in tasks' : ChatTask(v)'
    BY <1>1, <1>6, StillAsked
  <1>9. ChatShown'
    <2> SUFFICES ASSUME ~page.early
                 PROVE  /\ \E k \in Nat : /\ Alternates(page.messages, Asked(k))'
                                          /\ ~stale => Of(k, page.chat)'
                        /\ page.loaded
      BY <1>1, <1>3 DEF ChatShown
    <2>1. PICK k \in Nat : Alternates(page.messages, 2 * k + 1) /\ (~stale => Of(k, page.chat))
      BY <1>1 DEF ChatShown, Asked
    <2>2. page.loaded
      BY <1>1 DEF ChatShown
    <2>3. PICK n \in Nat : n = 2 * k
      OBVIOUS
    <2>4. Alternates(page.messages, n + 1)
      BY <2>1, <2>3
    <2>5. CASE t.wire = "failed"
      <3>1. Alternates(page'.messages, n)
        BY <1>3, <2>4, <2>5, FewerMessages
      <3>2. Asked(k)' = n /\ (~stale => Of(k, page.chat)')
        BY <1>1, <1>3, <2>1, <2>3, <2>5 DEF Asked, Of
      <3> QED BY <2>2, <3>1, <3>2 DEF Alternates
    <2>6. CASE t.wire = "ok"
      <3>1. Speaker(n + 2) = "assistant" /\ n + 1 \in Nat /\ n + 1 + 1 = n + 2
        BY <2>3 DEF Speaker
      <3>2. Alternates(page'.messages, n + 1 + 1)
        BY <1>3, <2>4, <2>6, <3>1, NextMessage
      <3>3. Asked(k + 1)' = n + 2
        BY <1>3, <2>3 DEF Asked
      <3>4. ~stale => Of(k + 1, page.chat)'
        <4>1. Len(page.messages) = 2 * k + 1
          BY <2>1 DEF Alternates
        <4>2. ~stale => k + 1 <= Len(server.turns[t.arg.chat])
          BY <1>1, <1>4, <2>6, <4>1 DEF ChatTask, Steady
        <4> QED BY <1>1, <1>3, <1>4, <2>6, <4>2 DEF Of
      <3> QED BY <2>2, <3>1, <3>2, <3>3, <3>4 DEF Alternates
    <2> QED BY <1>2, <2>5, <2>6
  <1> QED BY <1>1, <1>3, <1>5, <1>7, <1>8, <1>9, PageSteps

LEMMA ChatKept == ChatInv /\ ChatNext => ChatInv'
  BY ReadHistoryKeeps, AppendMessagesKeeps, ServeConversationKeeps, OtherTabKeeps,
     SendMessageKeeps, NewChatKeeps, ConversationReturnsKeeps, SendReturnsKeeps,
     RoleChangesKeeps DEF ChatNext

LEMMA ChatIdle == ChatInv /\ UNCHANGED vars => ChatInv'
  <1> SUFFICES ASSUME ChatInv, UNCHANGED vars PROVE ChatInv'
    OBVIOUS
  <1>1. /\ page' = page /\ tasks' = tasks /\ server' = server /\ ChatPage /\ OneEach
        /\ server \in ChatRows /\ (server.latest # None => Opened(server.latest))
        /\ stale' = stale /\ Foreign
    BY DEF vars, ChatInv
  <1>2. ChatPage' /\ OneEach' /\ (server'.latest # None => Opened(server.latest)')
        /\ Sure /\ Foreign'
    BY <1>1 DEF ChatPage, OneEach, Opened, OfPage, Asks, Sure, Foreign
  <1> QED BY <1>1, <1>2, ChatSame, ChatElsewhere

LEMMA ChatAlways == Spec => [](Named /\ (page.at = "chat" => ChatInv))
  <1> DEFINE IInv == Named /\ (page.at = "chat" => ChatInv)
  <1>1. Init => IInv
    BY PortalBegins, OfficeBegins, ChatBegins DEF Init
  <1>2. IInv /\ [Next]_vars => IInv'
    <2> SUFFICES ASSUME IInv, [Next]_vars PROVE IInv'
      OBVIOUS
    <2>1. Named' /\ page'.at = page.at
      BY NextStays DEF Named, Stays
    <2> QED BY <2>1, StepOfPage, ChatKept, ChatIdle
  <1> QED BY <1>1, <1>2, PTL DEF Spec

LEMMA BeginOfDisplayed ==
  ASSUME NEW k \in Nat, NEW s \in Turns, NEW m, Alternates(m, 2 * k), k <= Len(s)
  PROVE  Len(m) <= Len(Displayed(s)) /\ m = SubSeq(Displayed(s), 1, Len(m))
  <1>1. PICK n : n = Len(s)
    OBVIOUS
  <1>2. n \in Nat /\ Alternates(Displayed(s), 2 * n)
    BY <1>1, NextTurn, DisplayedAlternates
  <1>3. PICK d : d = Displayed(s)
    OBVIOUS
  <1>4. /\ d \in Seq({"user", "assistant"}) /\ Len(d) = 2 * n /\ Len(m) = 2 * k /\ k <= n
        /\ m \in Seq({"user", "assistant"}) /\ \A i \in 1..(2 * k) : m[i] = d[i]
    BY <1>1, <1>2, <1>3 DEF Alternates
  <1>5. PICK r : r = SubSeq(d, 1, 2 * k)
    OBVIOUS
  <1>6. \A i \in 1..(2 * k) : d[i] \in {"user", "assistant"}
    BY <1>4, ElementOfSeq
  <1>7. /\ r \in Seq({"user", "assistant"}) /\ Len(r) = 2 * k
        /\ \A i \in 1..(2 * k) : r[i] = d[i]
    <2>1. /\ r \in Seq({"user", "assistant"})
          /\ Len(r) = IF 1 <= 2 * k THEN 2 * k - 1 + 1 ELSE 0
          /\ \A i \in 1..(2 * k - 1 + 1) : r[i] = d[1 + i - 1]
      BY <1>5, <1>6, SubSeqProperties
    <2>2. Len(r) = 2 * k
      BY <2>1
    <2>3. \A i \in 1..(2 * k) : r[i] = d[i]
      BY <2>1
    <2> QED BY <2>1, <2>2, <2>3
  <1>8. m = r
    BY <1>4, <1>7, SeqEqual
  <1>9. Len(m) <= Len(d)
    BY <1>2, <1>4
  <1>10. m = SubSeq(d, 1, Len(m))
    <2>1. Len(m) = 2 * k
      BY <1>4
    <2>2. SubSeq(d, 1, Len(m)) = SubSeq(d, 1, 2 * k)
      BY <2>1, Zenon
    <2> QED BY <1>5, <1>8, <2>2, Zenon
  <1> QED BY <1>3, <1>9, <1>10, Zenon

LEMMA ChatRest ==
  ChatInv /\ tasks = {} => ~ChatBusy /\ ChatWhole /\ (~stale => ChatAgrees)
  <1> SUFFICES ASSUME ChatInv, tasks = {}
               PROVE  ~ChatBusy /\ ChatWhole /\ (~stale => ChatAgrees)
    OBVIOUS
  <1>1. ~page.sending /\ page.loaded
    BY DEF ChatInv, OneEach
  <1>2. ASSUME ~page.early
        PROVE  \E k \in Nat : Alternates(page.messages, 2 * k) /\ (~stale => Of(k, page.chat))
    BY <1>1, <1>2 DEF ChatInv, ChatShown, Asked
  <1>3. ChatWhole
    <2> SUFFICES ASSUME ~page.early PROVE Len(page.messages) % 2 = 0
      BY DEF ChatWhole
    <2>1. PICK k \in Nat : Len(page.messages) = 2 * k
      BY <1>2 DEF Alternates
    <2> QED BY <2>1
  <1>4. ~stale => ChatAgrees
    <2> SUFFICES ASSUME ~stale, ~page.early, page.chat # None
                 PROVE  LET there == Displayed(server.turns[page.chat])
                        IN /\ Len(page.messages) <= Len(there)
                           /\ page.messages = SubSeq(there, 1, Len(page.messages))
      BY DEF ChatAgrees
    <2>1. PICK k \in Nat : Alternates(page.messages, 2 * k) /\ Of(k, page.chat)
      BY <1>2
    <2>2. server.turns[page.chat] \in Turns /\ k <= Len(server.turns[page.chat])
      BY <2>1 DEF ChatInv, Opened, ChatRows, Of
    <2> QED BY <2>1, <2>2, BeginOfDisplayed
  <1> QED BY <1>1, <1>3, <1>4 DEF ChatBusy

\* Every turn of a conversation was answered from all the turns before it, in
\* however many tabs the user asks at once (AppendMessages adds a turn under the
\* sequence number that follows those the model was shown).
THEOREM TurnsInOrder == Spec => []TurnsSeeAll
  <1>1. Named /\ (page.at = "chat" => ChatInv) => TurnsSeeAll
    BY DEF ChatInv, ChatRows, Turns, TurnsSeeAll
  <1> QED BY <1>1, ChatAlways, PTL

------------------------------------------------------------------------------
\* The application and the rooms are read once; a decision leads away.

Verdicts == {"approve", "reject", "correction", "cancel"}
ReviewRows ==
  [status : {"pending", "approved", "rejected", "needs_correction"},
   preferred : PlaceIds \cup {None}, room : PlaceIds \cup {None}, gender : SUBSET PlaceIds]
Decisions == [to : Verdicts, room : PlaceIds \cup {None}]
ReviewPage ==
  [at : {"review"}, app : ReviewRows \cup {None}, rooms : {None} \cup SUBSET PlaceIds,
   room : PlaceIds \cup {None}, panel : Verdicts \cup {None}, comment : BOOLEAN,
   busy : BOOLEAN, error : BOOLEAN, actionError : BOOLEAN, editing : PlaceIds \cup {None},
   saving : BOOLEAN, gender : BOOLEAN, decided : Decisions \cup {None}, left : BOOLEAN]
Carried(arg) ==
  /\ server.status = Verdict[arg.to]
  /\ arg.to = "approve" => server.room \in {arg.room, server.preferred}
ReviewTask(t) ==
  /\ IsTask(t) /\ t.fn \in {"load", "rooms", "restrictions", "decision"}
  /\ t.fn = "load" => page.app = None /\ page.rooms = None
  /\ t.fn = "load" /\ t.wire = "ok" => t.reply \in ReviewRows /\ (~stale => t.reply = server)
  /\ t.fn = "rooms" => t.arg \in PlaceIds \cup {None} /\ page.rooms = None
  /\ t.fn = "rooms" /\ t.wire = "ok" =>
       t.reply \in SUBSET PlaceIds /\ (~stale => t.reply = server.gender)
  /\ t.fn = "restrictions" => t.arg \in PlaceIds /\ page.rooms # None
  /\ t.fn = "restrictions" /\ t.wire = "ok" => t.arg \notin server.gender
  /\ t.fn = "decision" => t.arg \in Decisions /\ page.busy /\ ~page.left /\ page.app # None
  /\ t.fn = "decision" /\ t.wire = "ok" /\ ~stale => Carried(t.arg)
ReviewAwaited ==
  /\ page.busy => \E t \in tasks : t.fn = "decision"
  /\ page.saving => \E t \in tasks : t.fn = "restrictions"
  /\ page.app = None /\ ~page.error => \E t \in tasks : t.fn = "load"
ReviewFollows ==
  ~stale /\ page.app # None /\ ~page.left /\ ~page.error =>
    /\ \/ page.app.status = server.status
       \/ \E t \in tasks : t.fn = "decision" /\ t.wire = "ok"
    /\ page.rooms # None =>
         /\ server.gender \subseteq page.rooms
         /\ \A r \in page.rooms \ server.gender :
              \E t \in tasks : t.fn = "restrictions" /\ t.arg = r /\ t.wire = "ok"
ReviewInv ==
  /\ page \in ReviewPage /\ server \in ReviewRows
  /\ \A t \in tasks : ReviewTask(t)
  /\ Once({"load", "rooms"}) /\ Once({"decision"})
  /\ page.editing # None => page.rooms # None
  /\ page.left => page.app # None /\ (~stale => Carried(page.decided))
  /\ ReviewAwaited /\ ReviewFollows

LEMMA ReviewBegins == ReviewInit => ReviewInv
  <1> SUFFICES ASSUME ReviewInit PROVE ReviewInv
    OBVIOUS
  <1>1. /\ page \in ReviewPage /\ ~page.busy /\ ~page.saving /\ page.app = None
        /\ page.editing = None /\ ~page.left /\ page.rooms = None
    BY DEF ReviewInit, ReviewPage
  <1>2. server \in ReviewRows
    BY DEF ReviewInit, ReviewRows
  <1>3. PICK l : IsTask(l) /\ l.fn = "load" /\ l.wire = "sent" /\ tasks = {l}
    <2> DEFINE l == Task("load", 1, None)
    <2>1. IsTask(l) /\ l.fn = "load" /\ l.wire = "sent"
      BY FirstTask
    <2>2. tasks = {l}
      BY DEF ReviewInit
    <2> HIDE DEF l
    <2> QED BY <2>1, <2>2
  <1>4. \A t \in tasks : ReviewTask(t)
    BY <1>1, <1>3 DEF ReviewTask
  <1>5. Once({"load", "rooms"}) /\ Once({"decision"})
    BY <1>3 DEF Once
  <1> QED BY <1>1, <1>2, <1>3, <1>4, <1>5 DEF ReviewInv, ReviewAwaited, ReviewFollows

\* What leaves the application and the rooms on the screen as they are.
LEMMA ReviewTaps ==
  ASSUME ReviewInv, UNCHANGED <<server, stale>>, page' \in ReviewPage,
         page'.app = page.app, page'.rooms = page.rooms, page'.error = page.error,
         page'.left = page.left, page'.decided = page.decided,
         tasks \subseteq tasks',
         \A u \in tasks' \ tasks : /\ ReviewTask(u)' /\ u.fn \in {"restrictions", "decision"}
                                   /\ u.fn = "decision" => ~page.busy,
         \A t, u \in tasks' \ tasks : t = u,
         page.busy => page'.busy,
         page'.busy => page.busy \/ \E u \in tasks' : u.fn = "decision",
         page'.saving => page.saving \/ \E u \in tasks' : u.fn = "restrictions",
         page'.editing # None => page.rooms # None
  PROVE  ReviewInv'
  <1>1. \A u \in tasks' : ReviewTask(u)'
    BY DEF ReviewInv, ReviewTask, Carried
  <1>2. Once({"load", "rooms"})'
    BY DEF ReviewInv, Once
  <1>3. Once({"decision"})'
    BY DEF ReviewInv, Once, ReviewTask
  <1>4. ReviewAwaited'
    BY DEF ReviewInv, ReviewAwaited
  <1>5. ReviewFollows'
    BY DEF ReviewInv, ReviewFollows
  <1> QED BY <1>1, <1>2, <1>3, <1>4, <1>5 DEF ReviewInv, Carried

LEMMA ReviewAsked ==
  ASSUME ReviewInv,
         \/ \E r \in PlaceIds : HandleSelectRoom(r)
         \/ SaveRestrictions \/ CloseRestrictions \/ WriteComment \/ ResetPanel
         \/ \E p \in {"reject", "correction", "cancel"} : OpenPanel(p)
         \/ \E d \in Verdicts : HandleDecision(d)
  PROVE  ReviewInv'
  <1>1. page \in ReviewPage /\ UNCHANGED <<server, stale>>
    BY DEF ReviewInv, HandleSelectRoom, SaveRestrictions, CloseRestrictions, WriteComment,
           ResetPanel, OpenPanel, HandleDecision
  <1>2. ASSUME page' \in ReviewPage, page'.app = page.app, page'.rooms = page.rooms,
               page'.error = page.error, page'.left = page.left,
               page'.decided = page.decided, tasks' = tasks, page'.busy = page.busy,
               page'.saving = page.saving, page'.editing \in {None, page.editing}
                                           \/ page.rooms # None
        PROVE  ReviewInv'
    BY <1>1, <1>2, ReviewTaps DEF ReviewInv
  <1>3. CASE \E r \in PlaceIds : HandleSelectRoom(r)
    <2>1. PICK r \in PlaceIds : HandleSelectRoom(r)
      BY <1>3
    <2>2. PICK room \in PlaceIds \cup {None} :
            \/ page' = [page EXCEPT !.editing = r]
            \/ page' = [page EXCEPT !.room = room]
      BY <1>1, <2>1 DEF HandleSelectRoom, ReviewPage
    <2>3. /\ page' \in ReviewPage /\ page'.app = page.app /\ page'.rooms = page.rooms
          /\ page'.error = page.error /\ page'.left = page.left
          /\ page'.decided = page.decided /\ page'.busy = page.busy
          /\ page'.saving = page.saving
      BY <1>1, <2>2 DEF ReviewPage
    <2>4. tasks' = tasks /\ page.rooms # None
      BY <2>1 DEF HandleSelectRoom
    <2> QED BY <1>2, <2>3, <2>4
  <1>4. CASE \/ CloseRestrictions \/ WriteComment \/ ResetPanel
             \/ \E p \in {"reject", "correction", "cancel"} : OpenPanel(p)
    <2>1. /\ page' \in ReviewPage /\ page'.app = page.app /\ page'.rooms = page.rooms
          /\ page'.error = page.error /\ page'.left = page.left
          /\ page'.decided = page.decided /\ page'.busy = page.busy
          /\ page'.saving = page.saving /\ page'.editing \in {None, page.editing}
      <3>1. CASE CloseRestrictions
        BY <1>1, <3>1 DEF CloseRestrictions, ReviewPage
      <3>2. CASE WriteComment
        BY <1>1, <3>2 DEF WriteComment, ReviewPage
      <3>3. CASE ResetPanel
        BY <1>1, <3>3 DEF ResetPanel, ReviewPage
      <3>4. CASE \E p \in {"reject", "correction", "cancel"} : OpenPanel(p)
        BY <1>1, <3>4 DEF OpenPanel, ReviewPage, Verdicts
      <3> QED BY <1>4, <3>1, <3>2, <3>3, <3>4
    <2>2. tasks' = tasks
      BY <1>4 DEF CloseRestrictions, WriteComment, ResetPanel, OpenPanel
    <2> QED BY <1>2, <2>1, <2>2
  <1>5. CASE SaveRestrictions
    <2>1. PICK u : Fresh(u, "restrictions", page.editing) /\ tasks' = tasks \cup {u}
      BY <1>5, TapStarts DEF SaveRestrictions
    <2>2. /\ page' \in ReviewPage /\ page'.app = page.app /\ page'.rooms = page.rooms
          /\ page'.error = page.error /\ page'.left = page.left
          /\ page'.decided = page.decided /\ page'.busy = page.busy
          /\ page'.editing = page.editing /\ page.editing # None /\ page.editing \in PlaceIds
      BY <1>1, <1>5 DEF SaveRestrictions, ReviewPage, Covered
    <2>3. page.rooms # None
      BY <2>2 DEF ReviewInv
    <2>4. ReviewTask(u)' /\ u.fn = "restrictions"
      BY <2>1, <2>2, <2>3 DEF ReviewTask, Fresh
    <2> QED BY <1>1, <2>1, <2>2, <2>3, <2>4, ReviewTaps
  <1>6. CASE \E d \in Verdicts : HandleDecision(d)
    <2>1. PICK d \in Verdicts : HandleDecision(d)
      BY <1>6
    <2> DEFINE arg == [to |-> d, room |-> IF d = "approve" THEN page.room ELSE None]
    <2>2. PICK u : Fresh(u, "decision", arg) /\ tasks' = tasks \cup {u}
      BY <2>1, TapStarts DEF HandleDecision
    <2>3. arg \in Decisions
      BY <1>1 DEF Decisions, ReviewPage
    <2> HIDE DEF arg
    <2>4. /\ page' \in ReviewPage /\ page'.app = page.app /\ page'.rooms = page.rooms
          /\ page'.error = page.error /\ page'.left = page.left /\ ~page.left
          /\ page.app # None
          /\ page'.decided = page.decided /\ page'.busy /\ ~page.busy
          /\ page'.saving = page.saving /\ page'.editing = page.editing
      BY <1>1, <2>1 DEF HandleDecision, ReviewPage, CanDecide, Reviewing
    <2>5. ReviewTask(u)' /\ u.fn = "decision"
      BY <2>2, <2>3, <2>4 DEF ReviewTask, Fresh
    <2>6. page'.editing # None => page.rooms # None
      BY <2>4 DEF ReviewInv
    <2> QED BY <1>1, <2>2, <2>4, <2>5, <2>6, ReviewTaps
  <1> QED BY <1>3, <1>4, <1>5, <1>6

LEMMA ServeReviewKeeps ==
  ASSUME ReviewInv, NEW t \in tasks, ServeReview(t)
  PROVE  ReviewInv'
  <1>1. ReviewTask(t) /\ t.wire = "sent" /\ page \in ReviewPage /\ server \in ReviewRows
    BY DEF ReviewInv, ServeReview, Awaiting
  <1>2. ASSUME NEW accepts, NEW after, NEW reply, Serve(t, accepts, after, reply),
               accepts => after \in ReviewRows,
               t.fn \in {"load", "rooms"} => after = server,
               t.fn = "load" => reply = server,
               t.fn = "rooms" => reply = server.gender,
               accepts /\ t.fn = "restrictions" =>
                 /\ after.status = server.status /\ after.room = server.room
                 /\ after.preferred = server.preferred
                 /\ after.gender = server.gender \ {t.arg},
               accepts /\ t.fn = "decision" =>
                 /\ after.gender = server.gender /\ after.status = Verdict[t.arg.to]
                 /\ t.arg.to = "approve" => after.room \in {t.arg.room, after.preferred}
        PROVE  ReviewInv'
    <2>1. PICK u : Ended(t, u, accepts, after, reply)
      BY <1>1, <1>2, CallEnds DEF ReviewTask
    <2>2. /\ IsTask(u) /\ u.fn = t.fn /\ u.arg = t.arg /\ u.wire \in {"ok", "failed"}
          /\ tasks' = (tasks \ {t}) \cup {u}
          /\ u.wire = "ok" => accepts /\ server' = after /\ u.reply = reply
          /\ ~stale' => IF t.fn = "load" /\ u.wire = "ok"
                          THEN \A v \in tasks \ {t} : ~OnItsWay(v)
                          ELSE ~stale /\ (server' # server => u.wire = "ok" /\ ~ReadUnderWay(t))
      BY <2>1 DEF Ended
    <2>3. UNCHANGED page /\ (server' # server => accepts /\ server' = after)
      BY <1>1, <1>2, CallEnds DEF ReviewTask
    <2>4. /\ server' \in ReviewRows
          /\ t.fn \in {"load", "rooms"} => server' = server
          /\ t.fn # "restrictions" => server'.gender = server.gender
          /\ t.fn # "decision" => /\ server'.status = server.status /\ server'.room = server.room
                                  /\ server'.preferred = server.preferred
          /\ server'.gender \subseteq server.gender
          /\ server.gender \ server'.gender \subseteq {t.arg}
      <3>1. CASE server' = server
        BY <1>1, <3>1
      <3>2. CASE accepts /\ server' = after /\ server' # server
        <4>1. server' \in ReviewRows /\ t.fn \in {"restrictions", "decision"}
          BY <1>1, <1>2, <3>2 DEF ReviewTask
        <4>2. CASE t.fn = "restrictions"
          BY <1>2, <3>2, <4>1, <4>2
        <4>3. CASE t.fn = "decision"
          BY <1>2, <3>2, <4>1, <4>3
        <4> QED BY <4>1, <4>2, <4>3
      <3> QED BY <2>3, <3>1, <3>2
    <2>5. \A v \in tasks \ {t} : /\ ReviewTask(v)
                                 /\ t.fn \in {"load", "rooms"} => v.fn \notin {"load", "rooms"}
                                 /\ t.fn = "decision" => v.fn # "decision"
      BY DEF ReviewInv, Once
    <2>6. ASSUME NEW v \in tasks \ {t} PROVE ReviewTask(v)'
      <3>1. v.fn = "load" /\ v.wire = "ok" /\ ~stale' => server' = server /\ ~stale
        BY <2>2, <2>5 DEF ReadUnderWay, OnItsWay
      <3>2. v.fn = "rooms" /\ v.wire = "ok" /\ ~stale' => server'.gender = server.gender /\ ~stale
        BY <1>1, <2>2, <2>4, <2>5 DEF ReviewTask, OnItsWay
      <3>3. v.fn = "decision" /\ v.wire = "ok" /\ ~stale' => Carried(v.arg)'
        <4>1. v.fn = "decision" /\ v.wire = "ok" /\ ~stale' => ~stale /\ t.fn # "decision"
          BY <2>2, <2>5 DEF OnItsWay
        <4> QED BY <2>4, <2>5, <4>1 DEF ReviewTask, Carried
      <3> QED BY <2>3, <2>4, <2>5, <3>1, <3>2, <3>3 DEF ReviewTask
    <2>7. ReviewTask(u)'
      <3>1. /\ u.fn = "load" /\ u.wire = "ok" => u.reply = server'
            /\ u.fn = "rooms" /\ u.wire = "ok" => u.reply = server'.gender
            /\ u.fn = "restrictions" /\ u.wire = "ok" => u.arg \notin server'.gender
        BY <1>2, <2>2, <2>4
      <3>2. u.fn = "decision" /\ u.wire = "ok" => Carried(u.arg)'
        BY <1>2, <2>2 DEF Carried
      <3>3. server'.gender \in SUBSET PlaceIds
        BY <2>4 DEF ReviewRows
      <3> QED BY <1>1, <2>2, <2>3, <2>4, <3>1, <3>2, <3>3 DEF ReviewTask
    <2>8. \A v \in tasks' : ReviewTask(v)'
      BY <2>2, <2>6, <2>7
    <2>9. ReviewAwaited'
      BY <2>2, <2>3 DEF ReviewInv, ReviewAwaited
    <2>10. Once({"load", "rooms"})' /\ Once({"decision"})'
      BY <2>2, <2>5 DEF ReviewInv, Once
    <2>11. page'.left => page'.app # None /\ (~stale' => Carried(page.decided)')
      <3>1. page.left => t.fn \notin {"load", "decision"}
        BY <1>1 DEF ReviewInv, ReviewTask
      <3> QED BY <2>2, <2>3, <2>4, <3>1 DEF ReviewInv, Carried
    <2>12. ReviewFollows'
      <3>1. CASE page.app = None \/ stale' \/ page.left \/ page.error
        BY <2>3, <3>1 DEF ReviewFollows
      <3>2. CASE ~(page.app = None \/ stale' \/ page.left \/ page.error)
        <4>1. t.fn # "load" /\ ~stale /\ (server' # server => u.wire = "ok")
          BY <1>1, <2>2, <3>2 DEF ReviewTask
        <4>2. \A v \in tasks : v.wire = "ok" => v \in tasks'
          BY <1>1, <2>2
        <4>3. \/ page.app.status = server'.status
              \/ \E v \in tasks' : v.fn = "decision" /\ v.wire = "ok"
          BY <2>2, <2>4, <3>2, <4>1, <4>2 DEF ReviewInv, ReviewFollows
        <4>4. page.rooms # None => server'.gender \subseteq page.rooms
          BY <2>4, <3>2, <4>1 DEF ReviewInv, ReviewFollows
        <4>5. ASSUME page.rooms # None, NEW r \in page.rooms \ server'.gender
              PROVE  \E v \in tasks' : v.fn = "restrictions" /\ v.arg = r /\ v.wire = "ok"
          <5>1. CASE r \in server.gender
            BY <2>2, <2>4, <4>1, <4>5, <5>1
          <5>2. CASE r \notin server.gender
            BY <3>2, <4>1, <4>2, <4>5, <5>2 DEF ReviewInv, ReviewFollows
          <5> QED BY <5>1, <5>2
        <4> QED BY <2>3, <4>3, <4>4, <4>5 DEF ReviewFollows
      <3> QED BY <3>1, <3>2
    <2> QED BY <1>1, <2>3, <2>4, <2>8, <2>9, <2>10, <2>11, <2>12 DEF ReviewInv
  <1>3. CASE Awaiting(t, {"load"}) /\ Serve(t, TRUE, server, server)
    BY <1>1, <1>2, <1>3 DEF Awaiting
  <1>4. CASE Awaiting(t, {"rooms"}) /\ Serve(t, TRUE, server, server.gender)
    BY <1>1, <1>2, <1>4 DEF Awaiting
  <1>5. CASE /\ Awaiting(t, {"restrictions"})
             /\ Serve(t, TRUE, [server EXCEPT !.gender = @ \ {t.arg}], None)
    <2> DEFINE after == [server EXCEPT !.gender = @ \ {t.arg}]
    <2>1. t.fn = "restrictions" /\ Serve(t, TRUE, after, None)
      BY <1>5 DEF Awaiting
    <2>2. /\ after \in ReviewRows /\ after.status = server.status
          /\ after.room = server.room /\ after.preferred = server.preferred
          /\ after.gender = server.gender \ {t.arg}
      BY <1>1 DEF ReviewRows
    <2> HIDE DEF after
    <2> QED BY <1>2, <2>1, <2>2
  <1>6. ASSUME Awaiting(t, {"decision"}), NEW status, NEW room, NEW preferred, NEW accepts,
               Serve(t, accepts, [server EXCEPT !.status = status, !.room = room,
                                    !.preferred = preferred], None),
               status = Verdict[t.arg.to], room \in PlaceIds \cup {None},
               preferred \in PlaceIds \cup {None},
               t.arg.to = "approve" => room \in {t.arg.room, preferred}
        PROVE  ReviewInv'
    <2> DEFINE after == [server EXCEPT !.status = status, !.room = room,
                            !.preferred = preferred]
    <2>1. t.fn = "decision" /\ Serve(t, accepts, after, None) /\ t.arg \in Decisions
      BY <1>1, <1>6 DEF Awaiting, ReviewTask
    <2>2. status \in {"approved", "rejected", "needs_correction"}
      BY <1>6, <2>1 DEF Verdict, Decisions, Verdicts
    <2>3. /\ after \in ReviewRows /\ after.status = status /\ after.room = room
          /\ after.gender = server.gender /\ after.preferred = preferred
      BY <1>1, <1>6, <2>2 DEF ReviewRows
    <2> HIDE DEF after
    <2> QED BY <1>2, <1>6, <2>1, <2>3
  <1>7. CASE Awaiting(t, {"decision"}) /\ t.arg.to = "approve"
    <2>1. Serve(t, server.status = "pending" /\ Assigned(t.arg) \notin server.gender,
                [server EXCEPT !.status = "approved", !.room = Assigned(t.arg)], None)
      BY <1>7 DEF ServeReview, Awaiting
    <2> DEFINE preferred == server.preferred
               room == Assigned(t.arg)
               accepts == server.status = "pending" /\ room \notin server.gender
    <2>2. [server EXCEPT !.status = "approved", !.room = room] =
            [server EXCEPT !.status = "approved", !.room = room, !.preferred = preferred]
      BY <1>1 DEF ReviewRows
    <2>3. Serve(t, accepts, [server EXCEPT !.status = "approved", !.room = room,
                               !.preferred = preferred], None)
      BY <2>1, <2>2
    <2>4. /\ room \in PlaceIds \cup {None} /\ preferred \in PlaceIds \cup {None}
          /\ room \in {t.arg.room, preferred} /\ "approved" = Verdict[t.arg.to]
      BY <1>1, <1>7 DEF ReviewRows, ReviewTask, Decisions, Assigned, Awaiting, Verdict
    <2> HIDE DEF accepts, room, preferred
    <2> QED BY <1>6, <1>7, <2>3, <2>4
  <1>8. CASE Awaiting(t, {"decision"}) /\ t.arg.to = "cancel"
    <2>1. Serve(t, server.status = "approved",
                [server EXCEPT !.status = "rejected", !.room = None], None)
      BY <1>8 DEF ServeReview, Awaiting
    <2> DEFINE preferred == server.preferred
               accepts == server.status = "approved"
    <2>2. [server EXCEPT !.status = "rejected", !.room = None] =
            [server EXCEPT !.status = "rejected", !.room = None, !.preferred = preferred]
      BY <1>1 DEF ReviewRows
    <2>3. Serve(t, accepts, [server EXCEPT !.status = "rejected", !.room = None,
                               !.preferred = preferred], None)
      BY <2>1, <2>2
    <2>4. preferred \in PlaceIds \cup {None} /\ "rejected" = Verdict[t.arg.to]
      BY <1>1, <1>8 DEF ReviewRows, Verdict
    <2> HIDE DEF accepts, preferred
    <2> QED BY <1>6, <1>8, <2>3, <2>4
  <1>9. CASE Awaiting(t, {"decision"}) /\ t.arg.to \notin {"approve", "cancel"}
    <2> DEFINE preferred == IF t.arg.to = "correction" THEN None ELSE server.preferred
               accepts == server.status = "pending"
               status == Verdict[t.arg.to]
    <2>1. Serve(t, accepts, [server EXCEPT !.status = status, !.room = None,
                               !.preferred = preferred], None)
      BY <1>1, <1>9 DEF ServeReview, Awaiting, ReviewRows
    <2>2. preferred \in PlaceIds \cup {None}
      BY <1>1 DEF ReviewRows
    <2> HIDE DEF accepts, preferred
    <2> QED BY <1>6, <1>9, <2>1, <2>2
  <1> QED BY <1>3, <1>4, <1>5, <1>7, <1>8, <1>9 DEF ServeReview

LEMMA DecidedElsewhereKeeps ==
  ASSUME ReviewInv, NEW s \in {"approved", "rejected"}, DecidedElsewhere(s)
  PROVE  ReviewInv'
  <1>1. /\ server' \in ReviewRows /\ server'.gender = server.gender
        /\ UNCHANGED <<page, tasks>> /\ stale'
    BY DEF ReviewInv, DecidedElsewhere, Elsewhere, ReviewRows
  <1>2. \A t \in tasks' : ReviewTask(t)'
    BY <1>1 DEF ReviewInv, ReviewTask
  <1>3. Once({"load", "rooms"})' /\ Once({"decision"})' /\ ReviewAwaited' /\ ReviewFollows'
    BY <1>1 DEF ReviewInv, Once, ReviewAwaited, ReviewFollows
  <1> QED BY <1>1, <1>2, <1>3 DEF ReviewInv

LEMMA ReviewLoadKeeps ==
  ASSUME ReviewInv, NEW t \in tasks, ReviewLoadReturns(t)
  PROVE  ReviewInv'
  <1>1. /\ ReviewTask(t) /\ t.fn = "load" /\ page.app = None /\ page.rooms = None
        /\ page \in ReviewPage /\ ~page.left /\ page.editing = None
        /\ UNCHANGED <<server, stale>>
    BY DEF ReviewInv, ReviewLoadReturns, ReviewTask
  <1>2. \A v \in tasks \ {t} : ReviewTask(v) /\ v.fn = "restrictions"
    BY <1>1 DEF ReviewInv, ReviewTask, Once
  <1>3. \A v \in tasks \ {t} : FALSE
    BY <1>1, <1>2 DEF ReviewTask
  <1>4. CASE t.wire = "failed"
    <2>1. /\ page' \in ReviewPage /\ page'.error /\ page'.app = None /\ page'.rooms = None
          /\ ~page'.left /\ page'.editing = None /\ page'.busy = page.busy
          /\ page'.saving = page.saving
      BY <1>1, <1>4 DEF ReviewLoadReturns, ReviewPage
    <2>2. tasks' = {}
      BY <1>3, <1>4 DEF ReviewLoadReturns, End
    <2>3. ~page.busy /\ ~page.saving
      BY <1>1, <1>3 DEF ReviewInv, ReviewAwaited
    <2> QED BY <1>1, <2>1, <2>2, <2>3
        DEF ReviewInv, Once, ReviewAwaited, ReviewFollows
  <1>5. CASE t.wire = "ok"
    <2>1. PICK u : IsTask(u) /\ u.fn = "rooms" /\ u.wire = "sent" /\ u.arg = t.reply.preferred
                   /\ tasks' = {u}
      <3> DEFINE u == [New("rooms", None) EXCEPT !.arg = t.reply.preferred]
      <3>1. IsTask(u) /\ u.fn = "rooms" /\ u.wire = "sent" /\ u.arg = t.reply.preferred
        BY NewTask DEF IsTask
      <3>2. tasks' = (tasks \ {t}) \cup {u}
        BY <1>5 DEF ReviewLoadReturns, GoOn
      <3> HIDE DEF u
      <3> QED BY <1>3, <3>1, <3>2
    <2>2. t.reply \in ReviewRows /\ (~stale => t.reply = server)
      BY <1>1, <1>5 DEF ReviewTask
    <2>3. /\ page' \in ReviewPage /\ page'.error = page.error /\ page'.app = t.reply
          /\ page'.rooms = None /\ ~page'.left /\ page'.editing = None
          /\ page'.busy = page.busy /\ page'.saving = page.saving
      BY <1>1, <1>5, <2>2 DEF ReviewLoadReturns, ReviewPage
    <2>4. ~page.busy /\ ~page.saving
      BY <1>1, <1>3 DEF ReviewInv, ReviewAwaited
    <2>5. t.reply # None /\ t.reply.preferred \in PlaceIds \cup {None}
      BY <2>2, ReviewAssumption DEF ReviewRows
    <2>6. ReviewTask(u)'
      BY <2>1, <2>3, <2>5 DEF ReviewTask
    <2> QED BY <1>1, <2>1, <2>2, <2>3, <2>4, <2>5, <2>6
        DEF ReviewInv, Once, ReviewAwaited, ReviewFollows
  <1> QED BY <1>1, <1>4, <1>5 DEF ReviewTask, IsTask, ReviewLoadReturns

LEMMA RoomsKeep ==
  ASSUME ReviewInv, NEW t \in tasks, RoomsReturn(t)
  PROVE  ReviewInv'
  <1>1. /\ ReviewTask(t) /\ t.fn = "rooms" /\ page.rooms = None /\ page \in ReviewPage
        /\ tasks' = tasks \ {t} /\ UNCHANGED <<server, stale>>
        /\ t.arg \in PlaceIds \cup {None}
    BY DEF ReviewInv, RoomsReturn, ReviewTask, End
  <1>2. PICK rooms \in {None} \cup SUBSET PlaceIds, error \in BOOLEAN :
          /\ page' \in ReviewPage /\ page'.rooms = rooms /\ page'.error = error
          /\ page'.app = page.app /\ page'.busy = page.busy /\ page'.saving = page.saving
          /\ page'.editing = page.editing /\ page'.left = page.left
          /\ page'.decided = page.decided
          /\ rooms # None /\ ~stale => rooms = server.gender
          /\ page.error => error
    <2>1. CASE t.wire = "failed" /\ page' = [page EXCEPT !.error = TRUE]
      BY <1>1, <2>1 DEF ReviewPage
    <2>2. CASE \E known \in BOOLEAN :
                 page' = [page EXCEPT !.rooms = IF t.wire = "ok" THEN t.reply ELSE @,
                                      !.room = t.arg, !.gender = known]
      <3>1. PICK known \in BOOLEAN :
              page' = [page EXCEPT !.rooms = IF t.wire = "ok" THEN t.reply ELSE @,
                                   !.room = t.arg, !.gender = known]
        BY <2>2
      <3>2. PICK rooms : rooms = IF t.wire = "ok" THEN t.reply ELSE page.rooms
        OBVIOUS
      <3>3. /\ rooms \in {None} \cup SUBSET PlaceIds
            /\ rooms # None /\ ~stale => rooms = server.gender
        BY <1>1, <3>2 DEF ReviewTask
      <3>4. page' = [page EXCEPT !.rooms = rooms, !.room = t.arg, !.gender = known]
        BY <3>1, <3>2
      <3>5. /\ page' \in ReviewPage /\ page'.rooms = rooms /\ page'.error = page.error
            /\ page'.app = page.app /\ page'.busy = page.busy /\ page'.saving = page.saving
            /\ page'.editing = page.editing /\ page'.left = page.left
            /\ page'.decided = page.decided /\ page.error \in BOOLEAN
        BY <1>1, <3>3, <3>4 DEF ReviewPage
      <3> QED BY <3>3, <3>5
    <2> QED BY <2>1, <2>2 DEF RoomsReturn
  <1>3. \A v \in tasks' : ReviewTask(v) /\ v.fn \in {"restrictions", "decision"}
    BY <1>1 DEF ReviewInv, ReviewTask, Once
  <1>4. \A v \in tasks' : v.fn = "decision"
    BY <1>1, <1>3 DEF ReviewTask
  <1>5. \A v \in tasks' : ReviewTask(v)'
    BY <1>1, <1>2, <1>3, <1>4 DEF ReviewTask, Carried
  <1>6. ReviewAwaited'
    BY <1>1, <1>2 DEF ReviewInv, ReviewAwaited
  <1>7. ReviewFollows'
    BY <1>1, <1>2 DEF ReviewInv, ReviewFollows
  <1>8. Once({"load", "rooms"})' /\ Once({"decision"})'
    BY <1>1 DEF ReviewInv, Once
  <1>9. page'.editing = None
    BY <1>1, <1>2 DEF ReviewInv
  <1> QED BY <1>1, <1>2, <1>5, <1>6, <1>7, <1>8, <1>9 DEF ReviewInv, Carried

LEMMA RestrictionsKeep ==
  ASSUME ReviewInv, NEW t \in tasks, RestrictionsReturn(t)
  PROVE  ReviewInv'
  <1>1. /\ ReviewTask(t) /\ t.fn = "restrictions" /\ page.rooms # None
        /\ page \in ReviewPage /\ page.rooms \in SUBSET PlaceIds
        /\ tasks' = tasks \ {t} /\ UNCHANGED <<server, stale>> /\ t.wire \in {"ok", "failed"}
    BY DEF ReviewInv, RestrictionsReturn, ReviewTask, End, ReviewPage, IsTask
  <1> DEFINE rooms == IF t.wire = "ok" THEN page.rooms \ {t.arg} ELSE page.rooms
             editing == IF t.wire = "ok" THEN None ELSE page.editing
  <1>2. page' = [page EXCEPT !.saving = FALSE, !.rooms = rooms, !.editing = editing]
    BY <1>1 DEF RestrictionsReturn, ReviewPage
  <1>3. rooms \in SUBSET PlaceIds /\ rooms # None /\ editing \in {None, page.editing}
    BY <1>1, ReviewAssumption
  <1>4. /\ rooms \subseteq page.rooms
        /\ server.gender \subseteq page.rooms => server.gender \subseteq rooms
        /\ t.wire = "ok" => t.arg \notin rooms
    BY <1>1 DEF ReviewTask
  <1> HIDE DEF rooms, editing
  <1>5. /\ page' \in ReviewPage /\ page'.rooms = rooms /\ ~page'.saving
        /\ page'.app = page.app /\ page'.busy = page.busy /\ page'.error = page.error
        /\ page'.left = page.left /\ page'.decided = page.decided
    BY <1>1, <1>2, <1>3 DEF ReviewPage
  <1>6. \A v \in tasks' : ReviewTask(v)'
    BY <1>1, <1>3, <1>5 DEF ReviewInv, ReviewTask, Carried
  <1>7. ReviewAwaited'
    BY <1>1, <1>5 DEF ReviewInv, ReviewAwaited
  <1>8. ReviewFollows'
    <2> SUFFICES ASSUME ~stale, page.app # None, ~page.left, ~page.error
                 PROVE  /\ \/ page.app.status = server.status
                           \/ \E v \in tasks' : v.fn = "decision" /\ v.wire = "ok"
                        /\ server.gender \subseteq rooms
                        /\ \A r \in rooms \ server.gender :
                             \E v \in tasks' : /\ v.fn = "restrictions" /\ v.arg = r
                                               /\ v.wire = "ok"
      BY <1>1, <1>5 DEF ReviewFollows
    <2>1. \/ page.app.status = server.status
          \/ \E v \in tasks' : v.fn = "decision" /\ v.wire = "ok"
      BY <1>1 DEF ReviewInv, ReviewFollows
    <2>2. server.gender \subseteq page.rooms
      BY <1>1 DEF ReviewInv, ReviewFollows
    <2>3. \A r \in page.rooms \ server.gender :
            \E v \in tasks : v.fn = "restrictions" /\ v.arg = r /\ v.wire = "ok"
      BY <1>1 DEF ReviewInv, ReviewFollows
    <2> QED BY <1>1, <1>4, <2>1, <2>2, <2>3
  <1>9. Once({"load", "rooms"})' /\ Once({"decision"})'
    BY <1>1 DEF ReviewInv, Once
  <1> QED BY <1>1, <1>3, <1>5, <1>6, <1>7, <1>8, <1>9 DEF ReviewInv, Carried

LEMMA DecisionKeeps ==
  ASSUME ReviewInv, NEW t \in tasks, DecisionReturns(t)
  PROVE  ReviewInv'
  <1>1. /\ ReviewTask(t) /\ t.fn = "decision" /\ page \in ReviewPage /\ t.arg \in Decisions
        /\ page.app # None /\ ~page.left /\ t.wire \in {"ok", "failed"}
        /\ tasks' = tasks \ {t} /\ UNCHANGED <<server, stale>>
    BY DEF ReviewInv, DecisionReturns, ReviewTask, End, IsTask
  <1> DEFINE failed == t.wire = "failed"
             left == t.wire = "ok"
             decided == IF t.wire = "ok" THEN t.arg ELSE None
  <1>2. page' = [page EXCEPT !.busy = FALSE, !.actionError = failed, !.left = left,
                   !.decided = decided]
    BY DEF DecisionReturns
  <1>3. /\ failed \in BOOLEAN /\ left \in BOOLEAN /\ decided \in Decisions \cup {None}
        /\ left => decided = t.arg /\ t.wire = "ok"
        /\ ~left => t.wire # "ok"
    BY <1>1
  <1> HIDE DEF failed, left, decided
  <1>4. /\ page' \in ReviewPage /\ page'.rooms = page.rooms /\ page'.saving = page.saving
        /\ page'.app = page.app /\ ~page'.busy /\ page'.error = page.error
        /\ page'.left = left /\ page'.decided = decided /\ page'.editing = page.editing
    BY <1>1, <1>2, <1>3 DEF ReviewPage
  <1>5. \A v \in tasks' : ReviewTask(v) /\ v.fn # "decision"
    BY <1>1 DEF ReviewInv, Once
  <1>6. \A v \in tasks' : ReviewTask(v)'
    BY <1>1, <1>4, <1>5 DEF ReviewTask
  <1>7. ReviewAwaited'
    BY <1>1, <1>4 DEF ReviewInv, ReviewAwaited
  <1>8. ReviewFollows'
    <2>1. CASE left
      BY <1>4, <2>1 DEF ReviewFollows
    <2>2. CASE ~left
      BY <1>1, <1>3, <1>4, <1>5, <2>2 DEF ReviewInv, ReviewFollows
    <2> QED BY <2>1, <2>2
  <1>9. Once({"load", "rooms"})' /\ Once({"decision"})'
    BY <1>1 DEF ReviewInv, Once
  <1>10. page'.left => page'.app # None /\ (~stale' => Carried(page.decided)')
    BY <1>1, <1>3, <1>4 DEF ReviewTask, Carried
  <1>11. page'.editing # None => page'.rooms # None
    BY <1>4 DEF ReviewInv
  <1>12. server' \in ReviewRows
    BY <1>1 DEF ReviewInv
  <1> QED BY <1>4, <1>6, <1>7, <1>8, <1>9, <1>10, <1>11, <1>12 DEF ReviewInv

LEMMA ReviewKept == ReviewInv /\ ReviewNext => ReviewInv'
  BY ReviewAsked, ServeReviewKeeps, DecidedElsewhereKeeps, ReviewLoadKeeps, RoomsKeep,
     RestrictionsKeep, DecisionKeeps DEF ReviewNext, Verdicts
LEMMA ReviewIdle == ReviewInv /\ UNCHANGED vars => ReviewInv'
  BY DEF ReviewInv, ReviewTask, ReviewAwaited, ReviewFollows, Once, Carried, vars
LEMMA ReviewRest ==
  ReviewInv /\ tasks = {} => ~ReviewBusy /\ ReviewDone /\ (~stale => ReviewAgree)
  <1> SUFFICES ASSUME ReviewInv, tasks = {}
               PROVE  ~ReviewBusy /\ ReviewDone /\ (~stale => ReviewAgree)
    OBVIOUS
  <1>1. ~ReviewBusy
    BY DEF ReviewInv, ReviewAwaited, ReviewBusy
  <1>2. ReviewDone
    BY DEF ReviewInv, ReviewDone, Carried
  <1>3. ~stale => ReviewAgree
    BY DEF ReviewInv, ReviewFollows, ReviewAgree
  <1> QED BY <1>1, <1>2, <1>3
=============================================================================
