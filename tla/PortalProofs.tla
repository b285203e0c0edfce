---------------------------- MODULE PortalProofs ----------------------------
(***************************************************************************)
(* The pages of the student portal, for any number of rows and of calls    *)
(* under way: for each page the inductive invariant behind what it shows.  *)
(***************************************************************************)
EXTENDS PagesProofs

------------------------------------------------------------------------------
\* Notices: the marks and the list follow the server.

NoticeLists == UNION {[s -> BOOLEAN] : s \in SUBSET NoticeIds}
NoticesTypes ==
  /\ page \in [at : {"notices"}, list : NoticeLists \cup {None}, error : BOOLEAN,
               target : NoticeIds \cup {None}, deleting : BOOLEAN, clearOpen : BOOLEAN,
               clearing : BOOLEAN, deleteError : BOOLEAN]
  /\ server \in [read : NoticeLists, unsent : SUBSET NoticeIds]
  /\ DOMAIN Rows \cap server.unsent = {} /\ Listed \cap server.unsent = {}
  /\ page.target # None => page.target \notin server.unsent
  /\ page.target # None \/ page.clearOpen => page.list # None

NoticeTask(t) ==
  /\ IsTask(t) /\ t.fn \in {"load", "markRead", "markAll", "delete", "clearAll"}
  /\ t.fn = "load" /\ t.wire = "ok" =>
       /\ t.reply \in NoticeLists /\ DOMAIN t.reply \cap server.unsent = {}
       /\ \A n \in DOMAIN t.reply \cap DOMAIN Rows : t.reply[n] => Rows[n]
       /\ ~stale => DOMAIN t.reply = DOMAIN Rows
  /\ t.fn = "markRead" =>
       /\ t.arg \in NoticeIds \ server.unsent
       /\ t.wire = "ok" /\ t.arg \in DOMAIN Rows => Rows[t.arg]
  /\ t.fn = "delete" =>
       /\ t.arg \in NoticeIds \ server.unsent /\ page.list # None
       /\ t.wire = "ok" => t.arg \notin DOMAIN Rows
  /\ t.fn = "clearAll" =>
       /\ page.list # None
       /\ t.wire = "ok" /\ ~stale => DOMAIN Rows = {}

NoticesAwaited ==
  /\ page.deleting => \E t \in tasks : t.fn = "delete"
  /\ page.clearing => \E t \in tasks : t.fn = "clearAll"
  /\ page.list = None /\ ~page.error => \E t \in tasks : t.fn = "load"

\* A mark that is ahead of the server is on its way there, or is to be taken back.
Ahead(n) == n \in Listed \cap DOMAIN Rows /\ page.list[n] /\ ~Rows[n]
Corrects(t, n) ==
  \/ t.fn = "markRead" /\ t.arg = n /\ t.wire # "ok"
  \/ t.fn \in {"markAll", "load"}
MarksFollow ==
  ~page.error => \A n \in NoticeIds : Ahead(n) => \E t \in tasks : Corrects(t, n)
Removing(t, n) == t.wire = "ok" /\ (t.fn = "clearAll" \/ (t.fn = "delete" /\ t.arg = n))
ListFollows ==
  ~stale /\ page.list # None /\ ~(\E t \in tasks : t.fn = "load" /\ t.wire = "ok") =>
    /\ DOMAIN Rows \subseteq Listed
    /\ \A n \in Listed \ DOMAIN Rows : \E t \in tasks : Removing(t, n)

NoticesInv ==
  /\ NoticesTypes /\ \A t \in tasks : NoticeTask(t)
  /\ NoticesAwaited /\ MarksFollow /\ ListFollows

LEMMA ListOperators ==
  ASSUME NEW r \in NoticeLists, NEW ids
  PROVE  /\ MarkedRead(r, ids) \in NoticeLists /\ DOMAIN MarkedRead(r, ids) = DOMAIN r
         /\ \A n \in DOMAIN r : MarkedRead(r, ids)[n] <=> r[n] \/ n \in ids
         /\ Only(r, ids) \in NoticeLists /\ DOMAIN Only(r, ids) = DOMAIN r \cap ids
         /\ \A n \in DOMAIN r \cap ids : Only(r, ids)[n] = r[n]
         /\ DOMAIN r \subseteq NoticeIds
  <1>1. PICK s \in SUBSET NoticeIds : r \in [s -> BOOLEAN]
    BY DEF NoticeLists
  <1>2. MarkedRead(r, ids) \in [s -> BOOLEAN]
    BY <1>1 DEF MarkedRead
  <1>3. Only(r, ids) \in [s \cap ids -> BOOLEAN] /\ s \cap ids \in SUBSET NoticeIds
    BY <1>1 DEF Only
  <1>4. MarkedRead(r, ids) \in NoticeLists /\ Only(r, ids) \in NoticeLists
    BY <1>2, <1>3 DEF NoticeLists
  <1> QED BY <1>1, <1>2, <1>3, <1>4 DEF MarkedRead, Only

LEMMA NoticesBegin == NoticesInit => NoticesInv
  <1> SUFFICES ASSUME NoticesInit PROVE NoticesInv
    OBVIOUS
  <1>1. PICK s \in SUBSET NoticeIds : \E r \in [s -> BOOLEAN] :
                                       server = [read |-> r, unsent |-> NoticeIds \ s]
    BY DEF NoticesInit
  <1>6. PICK r \in [s -> BOOLEAN] : server = [read |-> r, unsent |-> NoticeIds \ s]
    BY <1>1
  <1>2. /\ page = [at |-> "notices", list |-> None, error |-> FALSE, target |-> None,
                   deleting |-> FALSE, clearOpen |-> FALSE, clearing |-> FALSE,
                   deleteError |-> FALSE]
        /\ tasks = {Task("load", 1, None)} /\ stale = FALSE
    BY DEF NoticesInit
  <1>3. r \in NoticeLists /\ DOMAIN r = s
    BY <1>6 DEF NoticeLists
  <1>4. NoticesTypes
    BY <1>6, <1>2, <1>3 DEF NoticesTypes, Rows, Listed
  <1>5. \A t \in tasks : NoticeTask(t) /\ t.fn = "load"
    BY <1>2, FirstTask DEF NoticeTask
  <1> QED BY <1>2, <1>4, <1>5 DEF NoticesInv, NoticesAwaited, MarksFollow, Ahead, Listed,
                                  ListFollows

\* A dialog is opened or closed.
LEMMA NoticesAsked ==
  ASSUME NoticesInv, AskClearAll \/ CancelDialog \/ \E n \in NoticeIds : AskDelete(n)
  PROVE  NoticesInv'
  <1>0. UNCHANGED <<tasks, server, stale>>
    BY DEF AskClearAll, CancelDialog, AskDelete
  <1>1. NoticesTypes' /\ page'.list = page.list /\ page'.error = page.error
        /\ page'.deleting = page.deleting /\ page'.clearing = page.clearing
    BY <1>0 DEF AskClearAll, CancelDialog, AskDelete, NoticesInv, NoticesTypes, Listed, Rows
  <1> QED BY <1>0, <1>1 DEF NoticesInv, NoticeTask, NoticesAwaited, MarksFollow, Ahead,
                            Corrects, ListFollows, Listed, Rows, Removing, IsTask

LEMMA HandleClickKeeps ==
  ASSUME NoticesInv, NEW n \in NoticeIds, HandleClick(n)
  PROVE  NoticesInv'
  <1> DEFINE l == [page.list EXCEPT ![n] = TRUE]
             new == New("markRead", n)
  <1>0. /\ page.list \in NoticeLists /\ n \in DOMAIN page.list
        /\ Listed = DOMAIN page.list /\ page.list # None
    BY DEF HandleClick, NoticesInv, NoticesTypes, Listed
  <1>1. l \in NoticeLists /\ DOMAIN l = DOMAIN page.list /\ l # None
        /\ \A m \in DOMAIN l : l[m] = IF m = n THEN TRUE ELSE page.list[m]
    BY <1>0, NoticesAssumption DEF NoticeLists, NoticesAssumption
  <1>2. /\ page' = [page EXCEPT !.list = l] /\ tasks' = tasks \cup {new}
        /\ UNCHANGED <<server, stale>>
    BY DEF HandleClick, Start
  <1>3. IsTask(new) /\ new.fn = "markRead" /\ new.arg = n /\ new.wire = "sent"
    BY NewTask
  <1> HIDE DEF l, new
  <1>4. NoticesTypes' /\ page'.list = l /\ page'.error = page.error /\ Listed' = Listed
        /\ page'.deleting = page.deleting /\ page'.clearing = page.clearing
    BY <1>0, <1>1, <1>2 DEF NoticesInv, NoticesTypes, Listed, Rows
  <1>5. \A t \in tasks' : NoticeTask(t)'
    BY <1>0, <1>1, <1>2, <1>3, <1>4 DEF NoticesInv, NoticesTypes, NoticeTask, Rows, Listed
  <1>6. NoticesAwaited'
    BY <1>0, <1>1, <1>2, <1>4 DEF NoticesInv, NoticesAwaited
  <1>7. MarksFollow'
    <2>1. \A m \in NoticeIds : Ahead(m)' => m = n \/ Ahead(m)
      BY <1>0, <1>1, <1>2, <1>4 DEF Ahead, Rows
    <2>2. Corrects(new, n)
      BY <1>3 DEF Corrects
    <2> QED BY <1>2, <1>4, <2>1, <2>2 DEF NoticesInv, MarksFollow
  <1>8. ListFollows'
    BY <1>0, <1>1, <1>2, <1>3, <1>4 DEF NoticesInv, ListFollows, Rows, Removing
  <1> QED BY <1>4, <1>5, <1>6, <1>7, <1>8 DEF NoticesInv

LEMMA HandleMarkAllReadKeeps ==
  ASSUME NoticesInv, HandleMarkAllRead
  PROVE  NoticesInv'
  <1> DEFINE l == MarkedRead(page.list, DOMAIN page.list)
             new == New("markAll", UnreadOf(page.list))
  <1>0. page.list \in NoticeLists /\ Listed = DOMAIN page.list /\ page.list # None
    BY DEF HandleMarkAllRead, NoticesInv, NoticesTypes, Listed
  <1>1. l \in NoticeLists /\ DOMAIN l = DOMAIN page.list /\ l # None
    BY <1>0, NoticesAssumption DEF NoticeLists, NoticesAssumption, MarkedRead
  <1>2. /\ page' = [page EXCEPT !.list = l] /\ tasks' = tasks \cup {new}
        /\ UNCHANGED <<server, stale>>
    BY DEF HandleMarkAllRead, Start
  <1>3. IsTask(new) /\ new.fn = "markAll" /\ new.wire = "sent"
    BY NewTask
  <1> HIDE DEF l, new
  <1>4. NoticesTypes' /\ page'.list = l /\ page'.error = page.error /\ Listed' = Listed
        /\ page'.deleting = page.deleting /\ page'.clearing = page.clearing
    BY <1>0, <1>1, <1>2 DEF NoticesInv, NoticesTypes, Listed, Rows
  <1>5. \A t \in tasks' : NoticeTask(t)'
    BY <1>0, <1>1, <1>2, <1>3, <1>4 DEF NoticesInv, NoticesTypes, NoticeTask, Rows, Listed
  <1>6. NoticesAwaited'
    BY <1>0, <1>1, <1>2, <1>4 DEF NoticesInv, NoticesAwaited
  <1>7. MarksFollow'
    BY <1>2, <1>3 DEF MarksFollow, Corrects
  <1>8. ListFollows'
    BY <1>0, <1>1, <1>2, <1>3, <1>4 DEF NoticesInv, ListFollows, Rows, Removing
  <1> QED BY <1>4, <1>5, <1>6, <1>7, <1>8 DEF NoticesInv

\* HandleDelete and HandleClearAll: a call is under way for what the dialog asked.
LEMMA RemovalKeeps ==
  ASSUME NoticesInv, HandleDelete \/ HandleClearAll
  PROVE  NoticesInv'
  <1>1. PICK new : /\ tasks' = tasks \cup {new} /\ IsTask(new) /\ new.wire = "sent"
                   /\ \/ HandleDelete /\ new.fn = "delete" /\ new.arg = page.target
                      \/ HandleClearAll /\ new.fn = "clearAll"
    BY NewTask DEF HandleDelete, HandleClearAll, Start
  <1>2. UNCHANGED <<server, stale>>
    BY DEF HandleDelete, HandleClearAll
  <1>3. /\ NoticesTypes' /\ page'.list = page.list /\ page'.error = page.error
        /\ page.list # None
        /\ page'.deleting => page.deleting \/ new.fn = "delete"
        /\ page'.clearing => page.clearing \/ new.fn = "clearAll"
    <2>1. CASE HandleDelete /\ new.fn = "delete"
      BY <1>2, <2>1 DEF HandleDelete, NoticesInv, NoticesTypes, Listed, Rows
    <2>2. CASE HandleClearAll /\ new.fn = "clearAll"
      BY <1>2, <2>2 DEF HandleClearAll, NoticesInv, NoticesTypes, Listed, Rows
    <2> QED BY <1>1, <2>1, <2>2
  <1>4. new.fn = "delete" => new.arg \in NoticeIds \ server.unsent
    BY <1>1 DEF HandleDelete, NoticesInv, NoticesTypes
  <1>5. \A t \in tasks' : NoticeTask(t)'
    BY <1>1, <1>2, <1>3, <1>4 DEF NoticesInv, NoticeTask, Rows
  <1>6. NoticesAwaited' /\ MarksFollow' /\ ListFollows'
    BY <1>1, <1>2, <1>3 DEF NoticesInv, NoticesAwaited, MarksFollow, Ahead, ListFollows,
                            Listed, Rows, Removing
  <1> QED BY <1>3, <1>5, <1>6 DEF NoticesInv

\* ServeNotices and ServeMarkAll: marks are only set, notices only removed.
LEMMA NoticesServed ==
  ASSUME NoticesInv, NEW t \in tasks, ServeNotices(t) \/ ServeMarkAll(t)
  PROVE  NoticesInv'
  <1>0. IsTask(t) /\ NoticeTask(t) /\ t.wire = "sent"
    BY DEF NoticesInv, NoticeTask, ServeNotices, ServeMarkAll, Awaiting
  <1> DEFINE Became(w) ==
               /\ w.wire = "ok" /\ w.fn = "markRead" /\ w.arg \in DOMAIN Rows' => Rows'[w.arg]
               /\ w.wire = "ok" /\ w.fn = "delete" => w.arg \notin DOMAIN Rows'
               /\ w.wire = "ok" /\ w.fn = "clearAll" => DOMAIN Rows' = {}
               /\ w.wire = "ok" /\ w.fn = "load" => w.reply = Rows'
               /\ ~stale' => \A n \in DOMAIN Rows \ DOMAIN Rows' : Removing(w, n)
             Overtakes(w) ==
               ~stale' => IF w.fn = "load" /\ w.wire = "ok"
                            THEN \A v \in tasks \ {t} : v.wire # "ok"
                            ELSE ~stale /\ (server' # server => ~ReadUnderWay(t))
             Grown == /\ UNCHANGED page /\ server.unsent' = server.unsent
                      /\ server' \in [read : NoticeLists, unsent : SUBSET NoticeIds]
                      /\ DOMAIN Rows' \subseteq DOMAIN Rows
                      /\ \A n \in DOMAIN Rows' : Rows[n] => Rows'[n]
             Follows(w) == /\ IsTask(w) /\ w.fn = t.fn /\ tasks' = (tasks \ {t}) \cup {w}
                           /\ t.fn # "markAll" => w.arg = t.arg /\ w.wire # "sent"
  <1>1. ASSUME ServeNotices(t)
        PROVE  \E u : Grown /\ Follows(u) /\ Became(u) /\ Overtakes(u)
    <2> DEFINE rows == CASE t.fn = "markRead" -> MarkedRead(Rows, {t.arg})
                         [] t.fn = "delete" -> Only(Rows, NoticeIds \ {t.arg})
                         [] t.fn = "clearAll" -> Only(Rows, {})
                         [] OTHER -> Rows
               accepts == t.fn \in {"markRead", "delete"} => t.arg \in DOMAIN Rows
    <2>1. t.fn \in {"load", "markRead", "delete", "clearAll"}
          /\ Serve(t, accepts, WithRows(rows), rows)
      BY <1>1 DEF ServeNotices, Awaiting
    <2>2. Rows \in NoticeLists /\ server \in [read : NoticeLists, unsent : SUBSET NoticeIds]
      BY DEF NoticesInv, NoticesTypes, Rows
    <2>3. /\ rows \in NoticeLists /\ DOMAIN rows \subseteq DOMAIN Rows
          /\ \A n \in DOMAIN rows : Rows[n] => rows[n]
          /\ t.fn \in {"load", "markRead"} => DOMAIN rows = DOMAIN Rows
          /\ t.fn = "markRead" /\ t.arg \in DOMAIN Rows => rows[t.arg]
          /\ t.fn = "delete" => DOMAIN rows = DOMAIN Rows \ {t.arg}
          /\ t.fn = "clearAll" => DOMAIN rows = {}
      <3>1. CASE t.fn = "markRead"
        <4>1. rows = MarkedRead(Rows, {t.arg})
          BY <3>1
        <4>2. /\ MarkedRead(Rows, {t.arg}) \in NoticeLists
              /\ DOMAIN MarkedRead(Rows, {t.arg}) = DOMAIN Rows
              /\ \A n \in DOMAIN Rows : MarkedRead(Rows, {t.arg})[n] <=> Rows[n] \/ n \in {t.arg}
          BY <2>2, ListOperators
        <4> HIDE DEF rows
        <4> QED BY <2>2, <3>1, <4>1, <4>2
      <3>2. CASE t.fn = "delete"
        <4>1. rows = Only(Rows, NoticeIds \ {t.arg})
          BY <3>2
        <4> DEFINE ids == NoticeIds \ {t.arg}
        <4> HIDE DEF ids
        <4>2. /\ Only(Rows, ids) \in NoticeLists /\ DOMAIN Only(Rows, ids) = DOMAIN Rows \cap ids
              /\ \A n \in DOMAIN Rows \cap ids : Only(Rows, ids)[n] = Rows[n]
              /\ DOMAIN Rows \subseteq NoticeIds
          BY <2>2, ListOperators
        <4>3. rows = Only(Rows, ids)
          BY <4>1 DEF ids
        <4> HIDE DEF rows
        <4> QED BY <3>2, <4>2, <4>3 DEF ids
      <3>3. CASE t.fn = "clearAll"
        <4>1. rows = Only(Rows, {})
          BY <3>3
        <4>2. Only(Rows, {}) \in NoticeLists /\ DOMAIN Only(Rows, {}) = DOMAIN Rows \cap {}
          BY <2>2, ListOperators
        <4> HIDE DEF rows
        <4> QED BY <3>3, <4>1, <4>2
      <3>4. CASE t.fn = "load"
        BY <2>2, <3>4
      <3> QED BY <2>1, <3>1, <3>2, <3>3, <3>4
    <2> HIDE DEF rows, accepts
    <2>4. PICK u : /\ Follows(u) /\ u.wire \in {"ok", "failed"}
                   /\ u.wire = "ok" => accepts /\ server' = WithRows(rows) /\ u.reply = rows
                   /\ server' # server => server' = WithRows(rows)
                   /\ UNCHANGED page
                   /\ ~stale' =>
                        IF t.fn = "load" /\ u.wire = "ok"
                          THEN \A v \in tasks \ {t} : ~OnItsWay(v)
                          ELSE /\ ~stale
                               /\ server' # server => u.wire = "ok" /\ ~ReadUnderWay(t)
      <3> DEFINE after == WithRows(rows)
      <3>1. IsTask(t) /\ Serve(t, accepts, after, rows)
        BY <1>0, <2>1
      <3> HIDE DEF after
      <3>2. PICK u :
                   /\ IsTask(u) /\ u.fn = t.fn /\ u.arg = t.arg /\ u.no = t.no
                   /\ tasks' = (tasks \ {t}) \cup {u}
                   /\ u.wire \in {"ok", "failed"}
                   /\ u.wire = "ok" => accepts /\ server' = after /\ u.reply = rows
                   /\ ~stale' =>
                        IF t.fn = "load" /\ u.wire = "ok"
                          THEN \A v \in tasks \ {t} : ~OnItsWay(v)
                          ELSE /\ ~stale
                               /\ server' # server => u.wire = "ok" /\ ~ReadUnderWay(t)
        BY <3>1, Served
      <3>3. UNCHANGED page /\ (server' # server => server' = after)
        BY <3>1, Served
      <3>4. u.wire # "sent"
        BY <3>2
      <3>5. Follows(u)
        BY <3>2, <3>4
      <3> QED BY <3>2, <3>3, <3>5 DEF after
    <2>5. server' \in {server, WithRows(rows)}
      BY <2>4
    <2>6. /\ Rows' \in {Rows, rows} /\ server.unsent' = server.unsent
          /\ server' \in [read : NoticeLists, unsent : SUBSET NoticeIds]
      BY <2>2, <2>3, <2>5 DEF WithRows, Rows
    <2>7. Grown
      <3>1. UNCHANGED page
        BY <2>4
      <3>2. DOMAIN Rows' \subseteq DOMAIN Rows /\ \A n \in DOMAIN Rows' : Rows[n] => Rows'[n]
        BY <2>3, <2>6
      <3> QED BY <2>6, <3>1, <3>2
    <2>8. Became(u)
      <3>1. CASE u.wire = "ok"
        <4>1. Rows' = rows /\ u.reply = rows
          BY <2>2, <2>4, <3>1 DEF WithRows, Rows
        <4>2. u.fn = t.fn /\ u.arg = t.arg
          BY <2>1, <2>4
        <4>3. u.fn \in {"markRead", "delete"} => u.arg \in DOMAIN Rows
          BY <2>1, <2>4, <3>1, <4>2 DEF accepts
        <4>4. \A n \in DOMAIN Rows \ DOMAIN rows : Removing(u, n)
          BY <2>1, <2>3, <3>1, <4>2 DEF Removing
        <4> QED BY <2>3, <4>1, <4>2, <4>3, <4>4
      <3>2. CASE u.wire = "failed"
        <4>1. ~stale' => Rows' = Rows
          BY <2>4, <3>2 DEF Rows
        <4> QED BY <3>2, <4>1
      <3> QED BY <2>4, <3>1, <3>2
    <2>9. Overtakes(u)
      <3>1. u.fn = t.fn /\ \A v : ~OnItsWay(v) => v.wire # "ok"
        BY <2>4 DEF OnItsWay
      <3> QED BY <2>4, <3>1
    <2> HIDE DEF Became, Overtakes, Grown, Follows
    <2> QED BY <2>4, <2>7, <2>8, <2>9
  <1>2. ASSUME ServeMarkAll(t)
        PROVE  \E u : Grown /\ Follows(u) /\ Became(u) /\ Overtakes(u)
    <2>1. PICK n \in t.arg :
            /\ server' \in {server, WithRows(MarkedRead(Rows, {n}))}
            /\ GoOn(t, [t EXCEPT !.arg = @ \ {n}, !.wire = IF t.arg = {n} THEN "ok" ELSE @])
      BY <1>2 DEF ServeMarkAll
    <2> DEFINE u == [t EXCEPT !.arg = @ \ {n}, !.wire = IF t.arg = {n} THEN "ok" ELSE @]
               rows == MarkedRead(Rows, {n})
    <2>2. IsTask(u) /\ u.fn = "markAll" /\ t.fn = "markAll"
      BY <1>0, <1>2 DEF IsTask, ServeMarkAll, Awaiting
    <2>3. Rows \in NoticeLists /\ server \in [read : NoticeLists, unsent : SUBSET NoticeIds]
      BY DEF NoticesInv, NoticesTypes, Rows
    <2>4. /\ rows \in NoticeLists /\ DOMAIN rows = DOMAIN Rows
          /\ \A m \in DOMAIN Rows : rows[m] <=> Rows[m] \/ m \in {n}
      BY <2>3, ListOperators
    <2>5. tasks' = (tasks \ {t}) \cup {u} /\ server' \in {server, WithRows(rows)}
      BY <2>1 DEF GoOn
    <2>6. UNCHANGED page /\ stale' = (stale \/ (server' # server /\ ReadUnderWay(t)))
      BY <1>2 DEF ServeMarkAll
    <2> HIDE DEF u, rows
    <2>7. /\ Rows' \in {Rows, rows} /\ server.unsent' = server.unsent
          /\ server' \in [read : NoticeLists, unsent : SUBSET NoticeIds]
      BY <2>3, <2>4, <2>5 DEF WithRows, Rows
    <2>8. DOMAIN Rows' = DOMAIN Rows /\ \A m \in DOMAIN Rows : Rows[m] => Rows'[m]
      BY <2>4, <2>7
    <2>9. Grown /\ Follows(u)
      BY <2>2, <2>5, <2>6, <2>7, <2>8
    <2>10. Became(u)
      BY <2>2, <2>8
    <2>11. Overtakes(u)
      BY <2>2, <2>6
    <2> HIDE DEF Became, Overtakes, Grown, Follows
    <2> QED BY <2>9, <2>10, <2>11
  <1>3. PICK u : Grown /\ Follows(u) /\ Became(u) /\ Overtakes(u)
    <2> HIDE DEF Became, Overtakes, Grown, Follows
    <2> QED BY <1>1, <1>2
  <1>4. /\ t.fn \in {"load", "markRead", "markAll", "delete", "clearAll"}
        /\ DOMAIN Rows \subseteq NoticeIds
    BY <1>0, ListOperators DEF NoticesInv, NoticesTypes, NoticeTask, Rows
  <1>5. NoticesTypes'
    BY <1>3 DEF NoticesInv, NoticesTypes, Rows, Listed
  <1>6. \A v \in tasks \ {t} : NoticeTask(v)'
    <2> SUFFICES ASSUME NEW v \in tasks \ {t} PROVE NoticeTask(v)'
      OBVIOUS
    <2>1. NoticeTask(v)
      BY DEF NoticesInv
    <2>2. DOMAIN Rows' \subseteq DOMAIN Rows /\ server.unsent' = server.unsent
          /\ \A n \in DOMAIN Rows' : Rows[n] => Rows'[n]
      BY <1>3
    <2>3. ~stale' /\ v.wire = "ok" => ~stale
      BY <1>3
    <2>4. ~stale' /\ v.wire = "ok" /\ v.fn = "load" => DOMAIN Rows' = DOMAIN Rows
      BY <1>3 DEF ReadUnderWay, OnItsWay, Rows
    <2>5. page'.list = page.list
      BY <1>3
    <2> QED BY <2>1, <2>2, <2>3, <2>4, <2>5 DEF NoticeTask, IsTask
  <1>7. NoticeTask(u)'
    <2>1. NoticeTask(t) /\ server.unsent' = server.unsent /\ page'.list = page.list
      BY <1>0, <1>3
    <2>2. Rows' \in NoticeLists /\ DOMAIN Rows' \cap server.unsent' = {}
      BY <1>5 DEF NoticesTypes, Rows
    <2> QED BY <1>3, <2>1, <2>2 DEF NoticeTask, IsTask
  <1>8. NoticesAwaited'
    BY <1>3 DEF NoticesInv, NoticesAwaited
  <1>9. MarksFollow'
    <2>1. ASSUME NEW n \in NoticeIds, ~page.error, Ahead(n)'
          PROVE  \E v \in tasks' : Corrects(v, n)
      <3>1. Ahead(n)
        BY <1>3, <2>1 DEF Ahead, Listed
      <3>2. PICK v \in tasks : Corrects(v, n)
        BY <2>1, <3>1 DEF NoticesInv, MarksFollow
      <3>3. CASE v = t
        BY <1>3, <2>1, <3>2, <3>3 DEF Corrects, Ahead
      <3> QED BY <1>3, <3>2, <3>3
    <2> QED BY <1>3, <2>1 DEF MarksFollow
  <1>10. ListFollows'
    <2>1. SUFFICES ASSUME ~stale', page.list # None,
                          ~(\E v \in tasks' : v.fn = "load" /\ v.wire = "ok")
                   PROVE  /\ DOMAIN Rows' \subseteq Listed
                          /\ \A n \in Listed \ DOMAIN Rows' : \E v \in tasks' : Removing(v, n)
      BY <1>3 DEF ListFollows, Listed
    <2>2. ~stale /\ ~(\E v \in tasks : v.fn = "load" /\ v.wire = "ok")
      BY <1>0, <1>3, <2>1
    <2>3. /\ DOMAIN Rows \subseteq Listed
          /\ \A n \in Listed \ DOMAIN Rows : \E v \in tasks : Removing(v, n)
      BY <2>1, <2>2 DEF NoticesInv, ListFollows
    <2>4. ASSUME NEW n \in Listed \ DOMAIN Rows' PROVE \E v \in tasks' : Removing(v, n)
      <3>1. CASE n \in DOMAIN Rows
        BY <1>3, <2>1, <3>1
      <3>2. CASE n \notin DOMAIN Rows
        <4>1. PICK v \in tasks : Removing(v, n)
          BY <2>3, <3>2
        <4>2. v # t
          BY <1>0, <4>1 DEF Removing
        <4> QED BY <1>3, <4>1, <4>2
      <3> QED BY <3>1, <3>2
    <2> QED BY <1>3, <2>3, <2>4
  <1> QED BY <1>3, <1>5, <1>6, <1>7, <1>8, <1>9, <1>10 DEF NoticesInv

\* A mark that failed, and all of them in any case: the list is read again.
LEMMA MarksReturn ==
  ASSUME NoticesInv, NEW t \in tasks, MarkReadReturns(t) \/ MarkAllReturns(t)
  PROVE  NoticesInv'
  <1>0. UNCHANGED <<page, server, stale>> /\ t.fn \in {"markRead", "markAll"}
    BY DEF MarkReadReturns, MarkAllReturns, Returned
  <1>1. PICK new : /\ IsTask(new) /\ new.fn = "load" /\ new.wire = "sent"
                   /\ \/ tasks' = (tasks \ {t}) \cup {new}
                      \/ t.fn = "markRead" /\ t.wire = "ok" /\ tasks' = tasks \ {t}
    BY NewTask DEF MarkReadReturns, MarkAllReturns, GoOn, End
  <1>2. NoticesTypes' /\ NoticesAwaited'
    BY <1>0, <1>1 DEF NoticesInv, NoticesTypes, NoticesAwaited, Rows, Listed
  <1>3. \A v \in tasks' : NoticeTask(v)'
    BY <1>0, <1>1 DEF NoticesInv, NoticeTask, Rows
  <1>4. MarksFollow'
    <2>1. \A n : Ahead(n)' <=> Ahead(n)
      BY <1>0 DEF Ahead, Listed, Rows
    <2>2. \A n : Corrects(new, n) /\ (t.wire = "ok" /\ t.fn = "markRead" => ~Corrects(t, n))
      BY <1>1 DEF Corrects
    <2> QED BY <1>0, <1>1, <2>1, <2>2 DEF NoticesInv, MarksFollow
  <1>5. ListFollows'
    BY <1>0, <1>1 DEF NoticesInv, ListFollows, Removing, Listed, Rows
  <1> QED BY <1>2, <1>3, <1>4, <1>5 DEF NoticesInv

\* DeleteReturns and ClearAllReturns: what was removed leaves the list.
LEMMA RemovalsReturn ==
  ASSUME NoticesInv, NEW t \in tasks, DeleteReturns(t) \/ ClearAllReturns(t)
  PROVE  NoticesInv'
  <1>0. /\ UNCHANGED <<server, stale>> /\ tasks' = tasks \ {t}
        /\ t.wire \in {"ok", "failed"} /\ t.fn \in {"delete", "clearAll"}
        /\ NoticeTask(t) /\ page.list # None
    BY DEF DeleteReturns, ClearAllReturns, End, NoticesInv, NoticeTask, IsTask
  <1>1. page.list \in NoticeLists /\ Listed = DOMAIN page.list
    BY <1>0 DEF NoticesInv, NoticesTypes, Listed
  <1>2. PICK ids : \/ DeleteReturns(t) /\ t.fn = "delete" /\ ids = NoticeIds \ {t.arg}
                   \/ ClearAllReturns(t) /\ t.fn = "clearAll" /\ ids = {}
    BY DEF DeleteReturns, ClearAllReturns
  <1> DEFINE l == Only(page.list, ids)
  <1>11. /\ l \in NoticeLists /\ DOMAIN l = Listed \cap ids
         /\ \A n \in Listed \cap ids : l[n] = page.list[n]
    BY <1>1, ListOperators
  <1>3. l # None /\ Listed \subseteq NoticeIds
    BY <1>1, <1>11, NoticesAssumption, ListOperators DEF NoticeLists, NoticesAssumption
  <1> DEFINE R == [at : {"notices"}, list : NoticeLists \cup {None}, error : BOOLEAN,
                   target : NoticeIds \cup {None}, deleting : BOOLEAN, clearOpen : BOOLEAN,
                   clearing : BOOLEAN, deleteError : BOOLEAN]
  <1>12. page \in R
    BY DEF NoticesInv, NoticesTypes
  <1>13. \/ /\ t.wire = "failed" /\ t.fn = "delete"
            /\ page' = [page EXCEPT !.deleteError = TRUE, !.deleting = FALSE]
         \/ /\ t.wire = "failed" /\ t.fn = "clearAll"
            /\ page' = [page EXCEPT !.deleteError = TRUE, !.clearing = FALSE]
         \/ /\ t.wire = "ok" /\ t.fn = "delete"
            /\ page' = [page EXCEPT !.list = l, !.target = None, !.deleting = FALSE]
         \/ /\ t.wire = "ok" /\ t.fn = "clearAll"
            /\ page' = [page EXCEPT !.list = l, !.clearOpen = FALSE, !.clearing = FALSE]
    BY <1>0, <1>2 DEF DeleteReturns, ClearAllReturns
  <1> HIDE DEF l
  <1>4. /\ t.wire = "ok" => page'.list = l
        /\ t.wire = "failed" => page'.list = page.list
        /\ page'.error = page.error /\ page' \in R /\ page'.target \in {page.target, None}
        /\ page'.deleting => page.deleting /\ t.fn # "delete"
        /\ page'.clearing => page.clearing /\ t.fn # "clearAll"
    BY <1>11, <1>12, <1>13
  <1> HIDE DEF R
  <1>5. /\ Listed' = (IF t.wire = "ok" THEN Listed \cap ids ELSE Listed) /\ page'.list # None
        /\ \A n \in Listed' : page'.list[n] = page.list[n]
    <2>1. CASE t.wire = "ok"
      <3>1. page'.list = l
        BY <1>4, <2>1
      <3> QED BY <1>11, <1>3, <2>1, <3>1 DEF Listed
    <2>2. CASE t.wire = "failed"
      <3>1. page'.list = page.list
        BY <1>4, <2>2
      <3> QED BY <1>0, <2>2, <3>1 DEF Listed
    <2> QED BY <1>0, <2>1, <2>2
  <1>6. NoticesTypes'
    <2>1. page' \in R /\ page'.target \in {page.target, None} /\ Listed' \subseteq Listed
      BY <1>4, <1>5
    <2> QED BY <1>0, <1>5, <2>1 DEF NoticesInv, NoticesTypes, Rows, R
  <1>7. NoticesAwaited'
    BY <1>0, <1>4, <1>5 DEF NoticesInv, NoticesAwaited
  <1>8. \A v \in tasks' : NoticeTask(v)'
    BY <1>0, <1>5 DEF NoticesInv, NoticeTask, Rows
  <1>9. MarksFollow'
    <2>1. \A n : Ahead(n)' => Ahead(n)
      BY <1>0, <1>5 DEF Ahead, Rows
    <2>2. \A n : ~Corrects(t, n)
      BY <1>0 DEF Corrects
    <2> QED BY <1>0, <1>4, <2>1, <2>2 DEF NoticesInv, MarksFollow
  <1>10. ListFollows'
    <2> SUFFICES ASSUME ~stale, ~(\E v \in tasks' : v.fn = "load" /\ v.wire = "ok")
                 PROVE  /\ DOMAIN Rows \subseteq Listed'
                        /\ \A n \in Listed' \ DOMAIN Rows : \E v \in tasks' : Removing(v, n)
      BY <1>0, <1>5 DEF ListFollows, Rows
    <2>1. DOMAIN Rows \subseteq Listed
          /\ \A n \in Listed \ DOMAIN Rows : \E v \in tasks : Removing(v, n)
      BY <1>0 DEF NoticesInv, ListFollows
    <2>2. \A n \in Listed' : ~Removing(t, n)
      BY <1>0, <1>2, <1>5 DEF Removing
    <2>3. DOMAIN Rows \subseteq Listed'
      BY <1>0, <1>2, <1>3, <1>5, <2>1 DEF NoticeTask
    <2>4. Listed' \subseteq Listed
      BY <1>5
    <2> QED BY <1>0, <2>1, <2>2, <2>3, <2>4
  <1> QED BY <1>6, <1>7, <1>8, <1>9, <1>10 DEF NoticesInv

LEMMA LoadNoticesReturnsKeeps ==
  ASSUME NoticesInv, NEW t \in tasks, LoadNoticesReturns(t)
  PROVE  NoticesInv'
  <1>0. /\ UNCHANGED <<server, stale>> /\ tasks' = tasks \ {t} /\ t.fn = "load"
        /\ t.wire \in {"ok", "failed"} /\ NoticeTask(t)
    BY DEF LoadNoticesReturns, End, NoticesInv, NoticeTask, IsTask
  <1>1. CASE t.wire = "failed"
    <2>1. page' = [page EXCEPT !.error = TRUE]
      BY <1>1 DEF LoadNoticesReturns
    <2>2. NoticesTypes' /\ page'.list = page.list /\ page'.error
          /\ page'.deleting = page.deleting /\ page'.clearing = page.clearing
      BY <1>0, <2>1 DEF NoticesInv, NoticesTypes, Listed, Rows
    <2>3. \A v \in tasks' : NoticeTask(v)'
      BY <1>0, <2>2 DEF NoticesInv, NoticeTask, Rows
    <2>4. NoticesAwaited' /\ MarksFollow' /\ ListFollows'
      BY <1>0, <1>1, <2>2 DEF NoticesInv, NoticesAwaited, MarksFollow, ListFollows,
                              Listed, Rows, Removing
    <2> QED BY <2>2, <2>3, <2>4 DEF NoticesInv
  <1>2. CASE t.wire = "ok"
    <2> DEFINE l == t.reply
    <2>1. /\ l \in NoticeLists /\ DOMAIN l \cap server.unsent = {}
          /\ \A n \in DOMAIN l \cap DOMAIN Rows : l[n] => Rows[n]
          /\ ~stale => DOMAIN l = DOMAIN Rows
      BY <1>0, <1>2 DEF NoticeTask
    <2>2. page' = [page EXCEPT !.list = l]
      BY <1>2 DEF LoadNoticesReturns
    <2>3. l # None
      BY <2>1, NoticesAssumption DEF NoticeLists, NoticesAssumption
    <2> HIDE DEF l
    <2>4. /\ page'.list = l /\ page'.error = page.error /\ Listed' = DOMAIN l
          /\ page'.deleting = page.deleting /\ page'.clearing = page.clearing
      BY <2>2, <2>3 DEF Listed, NoticesInv, NoticesTypes
    <2>5. NoticesTypes'
      BY <1>0, <2>1, <2>2, <2>3, <2>4 DEF NoticesInv, NoticesTypes, Rows
    <2>6. \A v \in tasks' : NoticeTask(v)'
      BY <1>0, <2>3, <2>4 DEF NoticesInv, NoticeTask, Rows
    <2>7. NoticesAwaited'
      BY <1>0, <2>3, <2>4 DEF NoticesInv, NoticesAwaited
    <2>8. \A n : ~Ahead(n)'
      BY <1>0, <2>1, <2>4 DEF Ahead, Rows
    <2>9. MarksFollow' /\ ListFollows'
      BY <1>0, <2>1, <2>4, <2>8 DEF MarksFollow, ListFollows, Rows
    <2> QED BY <2>5, <2>6, <2>7, <2>9 DEF NoticesInv
  <1> QED BY <1>0, <1>1, <1>2

LEMMA NoticeArrivesKeeps ==
  ASSUME NoticesInv, NEW n \in NoticeIds, NoticeArrives(n)
  PROVE  NoticesInv'
  <1> DEFINE rows == [m \in DOMAIN Rows \cup {n} |-> m # n /\ Rows[m]]
  <1>1. UNCHANGED <<page, tasks>> /\ stale' /\ n \in server.unsent
        /\ server' = [read |-> rows, unsent |-> server.unsent \ {n}]
    BY DEF NoticeArrives, Elsewhere
  <1>2. Rows \in NoticeLists /\ DOMAIN Rows \cap server.unsent = {}
    BY DEF NoticesInv, NoticesTypes, Rows
  <1>3. rows \in NoticeLists
    <2>1. PICK s \in SUBSET NoticeIds : Rows \in [s -> BOOLEAN]
      BY <1>2 DEF NoticeLists
    <2>2. rows \in [s \cup {n} -> BOOLEAN] /\ s \cup {n} \in SUBSET NoticeIds
      BY <1>1, <1>2, <2>1
    <2> QED BY <2>2 DEF NoticeLists
  <1>4. DOMAIN rows = DOMAIN Rows \cup {n} /\ \A m \in DOMAIN Rows : rows[m] = Rows[m]
    BY <1>1, <1>2, ListOperators DEF NoticeLists
  <1> HIDE DEF rows
  <1>5. Rows' = rows /\ server'.unsent = server.unsent \ {n}
    BY <1>1 DEF Rows
  <1>6. NoticesTypes'
    BY <1>1, <1>3, <1>4, <1>5 DEF NoticesInv, NoticesTypes, Listed, Rows
  <1>7. \A t \in tasks' : NoticeTask(t)'
    BY <1>1, <1>4, <1>5 DEF NoticesInv, NoticeTask
  <1>8. NoticesAwaited' /\ ListFollows'
    BY <1>1 DEF NoticesInv, NoticesAwaited, ListFollows
  <1>9. \A m : Ahead(m)' => Ahead(m)
    BY <1>1, <1>4, <1>5 DEF Ahead, Listed, NoticesInv, NoticesTypes
  <1>10. MarksFollow'
    BY <1>1, <1>9 DEF NoticesInv, MarksFollow
  <1> QED BY <1>6, <1>7, <1>8, <1>10 DEF NoticesInv

LEMMA NoticesKept == NoticesInv /\ NoticesNext => NoticesInv'
  <1> SUFFICES ASSUME NoticesInv, NoticesNext PROVE NoticesInv'
    OBVIOUS
  <1> QED BY NoticesAsked, HandleClickKeeps, HandleMarkAllReadKeeps, RemovalKeeps,
             NoticesServed, MarksReturn, RemovalsReturn, LoadNoticesReturnsKeeps,
             NoticeArrivesKeeps DEF NoticesNext

LEMMA NoticesRest ==
  NoticesInv => /\ ReadMeansRead
                /\ tasks = {} => ~NoticesBusy
                /\ AtRest => NoticesAgree
  <1> SUFFICES ASSUME NoticesInv
               PROVE  /\ ReadMeansRead
                      /\ tasks = {} => ~NoticesBusy
                      /\ AtRest => NoticesAgree
    OBVIOUS
  <1>1. DOMAIN Rows \subseteq NoticeIds
    BY ListOperators DEF NoticesInv, NoticesTypes, Rows
  <1>2. ReadMeansRead
    BY <1>1 DEF NoticesInv, ReadMeansRead, MarksFollow, Ahead, Listed
  <1>3. tasks = {} => ~NoticesBusy
    BY DEF NoticesInv, NoticesBusy, NoticesAwaited
  <1>4. AtRest => NoticesAgree
    BY DEF NoticesInv, AtRest, NoticesAgree, ListFollows, Listed
  <1> QED BY <1>2, <1>3, <1>4

LEMMA NoticesIdle == NoticesInv /\ UNCHANGED vars => NoticesInv'
  BY DEF vars, NoticesInv, NoticesTypes, NoticeTask, NoticesAwaited, MarksFollow, Ahead,
         Corrects, ListFollows, Removing, Listed, Rows, IsTask

\* A notice shown as read is read on the server once nothing is under way,
\* whatever calls failed (the optimistic marks of handleClick and
\* handleMarkAllRead are taken back).
THEOREM MarksAreTaken == Spec => []ReadMeansRead
  <1> DEFINE IInv == Named /\ (page.at = "notices" => NoticesInv)
  <1>1. Init => IInv
    BY PortalBegins, OfficeBegins, NoticesBegin DEF Init
  <1>2. IInv /\ [Next]_vars => IInv'
    <2> SUFFICES ASSUME IInv, [Next]_vars PROVE IInv'
      OBVIOUS
    <2>1. Named' /\ page'.at = page.at
      BY NextStays DEF Named, Stays
    <2> QED BY <2>1, StepOfPage, NoticesKept, NoticesIdle
  <1>3. IInv => ReadMeansRead
    BY NoticesRest DEF ReadMeansRead
  <1> QED BY <1>1, <1>2, <1>3, PTL DEF Spec

------------------------------------------------------------------------------
\* Routes: the guards lead to a page.

RoutesInv ==
  /\ page \in [at : {"routes"}, path : Addresses, from : Addresses \cup {None},
               user : Users \cup {None}, hops : 0..2]
  /\ ~Rendered =>
       /\ page.hops < 2
       /\ Redirect(Redirect(page.path, page.user), page.user) # None => page.hops = 0

\* Wherever a guard sends somebody is an address, and the next one but one is a page.
LEMMA GuardsEnd ==
  ASSUME NEW p \in Addresses, NEW u \in Users \cup {None}, Redirect(p, u) # None
  PROVE  /\ Redirect(p, u) \in Addresses
         /\ LET q == Redirect(p, u) IN
            Redirect(q, u) # None => Redirect(Redirect(q, u), u) = None
  <1>1. CASE u = None
    BY <1>1, RoutesAssumption DEF RoutesAssumption, Addresses, Redirect, Guard,
                                  RoleBasedRedirect
  <1>2. CASE u \in Users
    <2>1. u # None /\ u.role \in {"student", "user", "admin"}
      BY <1>2, RoutesAssumption DEF RoutesAssumption, Users
    <2>2. Guard({"student", "user", "admin"}, Users, u) = None
      BY <1>2, <2>1 DEF Guard
    <2>3. Redirect("home", u) = None /\ Redirect("profile", u) = None
      BY <2>2 DEF Redirect
    <2> DEFINE staff == {"admin", "user"}
    <2>4. CASE u.role = "student"
      <3>1. Guard(staff, Users, u) = "profile"
        BY <2>1, <2>4 DEF Guard
      <3>2. /\ RoleBasedRedirect(u) = "home" /\ "profile" # None
        BY <2>4, RoutesAssumption DEF RoleBasedRedirect, RoutesAssumption, Addresses
      <3>3. Redirect(p, u) \in {None, "home", "profile"}
        BY <2>2, <3>1, <3>2 DEF Redirect, Addresses
      <3> QED BY <2>3, <3>3 DEF Addresses
    <2>5. CASE u.role # "student"
      <3>1. Guard(staff, Users, u) = None
        BY <1>2, <2>1, <2>5 DEF Guard
      <3>2. RoleBasedRedirect(u) = "dashboard"
        BY <2>1, <2>5 DEF RoleBasedRedirect
      <3>3. /\ Guard(staff, Voters, u) \in {None, "dashboard"}
            /\ Guard(staff, Managers, u) \in {None, "dashboard"}
            /\ Guard({"admin"}, Users, u) \in {None, "profile"}
        BY <1>2, <2>1, <2>5 DEF Guard
      <3>4. Redirect(p, u) \in {None, "dashboard", "profile"}
        BY <2>2, <3>1, <3>2, <3>3 DEF Redirect, Addresses
      <3>5. Redirect("dashboard", u) = None
        BY <3>1 DEF Redirect
      <3> QED BY <2>3, <3>4, <3>5 DEF Addresses
    <2> QED BY <2>4, <2>5
  <1> QED BY <1>1, <1>2

LEMMA RoutesBegins == RoutesInit => RoutesInv
  BY DEF RoutesInit, RoutesInv, Addresses

LEMMA RoutesKept ==
  ASSUME RoutesInv, RoutesNext
  PROVE  RoutesInv'
  <1> DEFINE R == [at : {"routes"}, path : Addresses, from : Addresses \cup {None},
                   user : Users \cup {None}, hops : 0..2]
  <1>0. page \in R
    BY DEF RoutesInv
  <1>9. 0 \in 0..2
    OBVIOUS
  \* Whatever address is opened anew, for whomever, at most two hops follow.
  <1>1. ASSUME page' \in R, page'.hops = 0 PROVE RoutesInv'
    BY <1>1 DEF RoutesInv
  <1>2. CASE FollowRedirect
    <2> DEFINE p == page.path
               u == page.user
               q == Redirect(p, u)
               f == IF u = None /\ q = "login" THEN p ELSE page.from
    <2>1. q # None
      BY <1>2 DEF FollowRedirect, Rendered
    <2>2. q \in Addresses /\ (Redirect(q, u) # None => Redirect(Redirect(q, u), u) = None)
      BY <1>0, <2>1, GuardsEnd
    <2>3. page' = [page EXCEPT !.hops = page.hops + 1, !.path = q, !.from = f]
      BY <1>2 DEF FollowRedirect
    <2>4. page.hops < 2 /\ page.hops \in 0..2 /\ (Redirect(q, u) # None => page.hops = 0)
      BY <1>2, <1>0 DEF FollowRedirect, RoutesInv
    <2>5. f \in Addresses \cup {None} /\ u \in Users \cup {None} /\ page.hops + 1 \in 0..2
      BY <1>0, <2>4
    <2> HIDE DEF q, f
    <2>6. page' \in R /\ page'.hops = page.hops + 1 /\ page'.path = q /\ page'.user = u
      BY <1>0, <2>2, <2>3, <2>5
    <2> QED BY <2>2, <2>4, <2>6 DEF RoutesInv, Rendered
  <1>3. CASE \E path \in Addresses : Visit(path)
    <2>1. PICK q \in Addresses : page' = [page EXCEPT !.path = q, !.from = None, !.hops = 0]
      BY <1>3 DEF Visit
    <2>2. page' \in R /\ page'.hops = 0
      BY <1>0, <1>9, <2>1
    <2> QED BY <1>1, <2>2
  <1>4. CASE \E v \in Users : LogIn(v)
    <2>1. PICK v \in Users, q \in Addresses :
            page' = [page EXCEPT !.user = v, !.hops = 0, !.path = q]
      <3>1. PICK v \in Users : LogIn(v)
        BY <1>4
      <3>2. (IF page.from = None THEN "unknown" ELSE page.from) \in Addresses
        BY <1>0 DEF Addresses
      <3> QED BY <3>1, <3>2 DEF LogIn
    <2>2. page' \in R /\ page'.hops = 0
      BY <1>0, <1>9, <2>1
    <2> QED BY <1>1, <2>2
  <1>5. CASE \E v \in Users \cup {None} : UserReplaced(v)
    <2>1. PICK v \in Users \cup {None} : page' = [page EXCEPT !.user = v, !.hops = 0]
      BY <1>5 DEF UserReplaced
    <2>2. page' \in R /\ page'.hops = 0
      BY <1>0, <1>9, <2>1
    <2> QED BY <1>1, <2>2
  <1> QED BY <1>2, <1>3, <1>4, <1>5 DEF RoutesNext

LEMMA RoutesIdle == RoutesInv /\ UNCHANGED vars => RoutesInv'
  BY DEF vars, RoutesInv, Rendered

\* Every address ends at a page after at most two redirects, whoever opens it
\* and whatever they lose in the meantime (ProtectedRoute, RoleBasedRedirect).
THEOREM RedirectsAreFew == Spec => []RedirectsEnd
  <1> DEFINE IInv == Named /\ (page.at = "routes" => RoutesInv)
  <1>1. Init => IInv
    BY PortalBegins, OfficeBegins, RoutesBegins DEF Init
  <1>2. IInv /\ [Next]_vars => IInv'
    <2> SUFFICES ASSUME IInv, [Next]_vars PROVE IInv'
      OBVIOUS
    <2>1. Named' /\ page'.at = page.at
      BY NextStays DEF Named, Stays
    <2> QED BY <2>1, StepOfPage, RoutesKept, RoutesIdle
  <1>3. IInv => RedirectsEnd
    BY DEF RedirectsEnd, RoutesInv
  <1> QED BY <1>1, <1>2, <1>3, PTL DEF Spec

------------------------------------------------------------------------------
\* Push: whom the device delivers to, and who is about to stop it.

PushPage == [at : {"push"}, hook : {"loading", "on", "off", "blocked", "hidden"},
             busy : BOOLEAN, failed : BOOLEAN, user : Owners \cup {None}, excused : BOOLEAN,
             doubt : BOOLEAN,
             device : [perm : {"default", "granted", "denied"}, optedOut : BOOLEAN,
                       sub : [end : Endpoints \cup {None}, key : {None, "old", "new"}]]]
PushServer == [rows : [Endpoints -> Owners \cup {None}], spent : SUBSET Endpoints,
               enabled : {TRUE}]
PushTypes ==
  /\ page \in PushPage /\ server \in PushServer
  /\ \A e \in Endpoints \ server.spent : server.rows[e] = None
  /\ Device.sub.end \in server.spent \cup {None}
PushTask(t) ==
  /\ IsTask(t) /\ t.fn \in {"config"} \cup Renewing \cup Ending
  /\ t.arg \in Owners \cup {None}
  /\ t.fn \in {"save", "resumeSave"} /\ t.wire # "failed" => t.reply \in server.spent
  /\ t.fn \in Ending => t.reply \in server.spent \cup {None}
PushAwaited ==
  page.user # None /\ page.busy =>
    \E t \in tasks : t.fn \in {"prompt", "save", "turnOff"} /\ t.arg = page.user

\* Unless excused: no subscription is taken down while one is renewed, and ...
Exclusive == \A s, t \in tasks : ~(s.fn \in Renewing /\ t.fn \in Ending)
\* ... it is renewed for who is signed in, ...
Renews(t) ==
  /\ t.arg = page.user /\ page.user # None
  /\ t.fn = "resume" => Device.perm = "granted"
  /\ t.fn = "prompt" /\ t.wire = "ok" /\ t.reply = "granted" => Device.perm = "granted"
  /\ t.fn \in {"resume", "resumeSave"} => ~Device.optedOut
  /\ t.fn \in {"save", "resumeSave"} /\ t.wire # "failed" =>
       /\ t.reply = Device.sub.end /\ Device.sub.key = "new"
       /\ t.wire = "ok" => server.rows[t.reply] = page.user
\* ... it is taken down by whom it delivers to, ...
Ends(t) ==
  /\ t.reply # None => /\ server.rows[t.reply] \in {None, t.arg}
                       /\ t.wire = "ok" => server.rows[t.reply] = None
  /\ t.fn = "logout" => Device.sub.end \in {t.reply, None}
  /\ t.fn = "turnOff" => Device.optedOut
  /\ t.fn = "drop" => page.user = None
Calls == \A t \in tasks : (t.fn \in Renewing => Renews(t)) /\ (t.fn \in Ending => Ends(t))
Owned ==
  Device.sub.end # None =>
    /\ Device.perm = "granted"
    /\ Device.sub.key # "new" => server.rows[Device.sub.end] = None
    /\ page.user # None => server.rows[Device.sub.end] \in {None, page.user}
\* ... and what nobody or somebody who opted out still gets is being stopped.
Delivering == Device.sub.end # None /\ server.rows[Device.sub.end] # None
Dropping(t) == t.fn \in Ending /\ t.reply = Device.sub.end /\ t.wire # "ok"
SignedOut == page.user = None /\ Delivering => \E t \in tasks : Dropping(t)
OptedOut ==
  Device.optedOut /\ Delivering =>
    \E t \in tasks : Dropping(t) \/ (t.fn = "save" /\ t.wire # "sent")
Calm == Exclusive /\ Calls /\ Owned /\ SignedOut /\ OptedOut
PushInv ==
  /\ PushTypes /\ \A t \in tasks : PushTask(t)
  /\ PushAwaited /\ (~page.excused => Calm)

LEMMA PushBegins == PushInit => PushInv
  <1> SUFFICES ASSUME PushInit PROVE PushInv
    OBVIOUS
  <1>1. PICK perm \in {"default", "granted", "denied"}, out \in BOOLEAN,
             old \in Endpoints \cup {None} :
       /\ old # None => perm = "granted" /\ ~out
       /\ page = [at |-> "push", hook |-> "loading", busy |-> FALSE,
                  failed |-> FALSE, user |-> None, excused |-> FALSE, doubt |-> FALSE,
                  device |-> [perm |-> perm, optedOut |-> out,
                     sub |-> IF old = None THEN NoSub ELSE [end |-> old, key |-> "old"]]]
       /\ server = [rows |-> [e \in Endpoints |-> None],
                    spent |-> {old} \ {None}, enabled |-> TRUE]
    BY DEF PushInit
  <1> DEFINE sub == IF old = None THEN NoSub ELSE [end |-> old, key |-> "old"]
  <1>2. sub \in [end : Endpoints \cup {None}, key : {None, "old", "new"}] /\ sub.end = old
    BY <1>1 DEF NoSub
  <1> HIDE DEF sub
  <1>3. page \in PushPage /\ Device.sub.end = old /\ page.user = None /\ Device.perm = perm
    BY <1>1, <1>2 DEF PushPage, Device, sub
  <1>4. server \in PushServer /\ server.spent = {old} \ {None}
        /\ \A e \in Endpoints : server.rows[e] = None
    BY <1>1 DEF PushServer
  <1>5. tasks = {}
    BY DEF PushInit
  <1>6. PushTypes
    BY <1>3, <1>4 DEF PushTypes
  <1>7. Owned /\ ~Delivering
    BY <1>1, <1>3, <1>4 DEF Owned, Delivering
  <1> QED BY <1>3, <1>5, <1>6, <1>7 DEF PushInv, PushAwaited, Calm, Exclusive, Calls,
                                        SignedOut, OptedOut

LEMMA SignInKeeps ==
  ASSUME PushInv, NEW u \in Owners, SignIn(u)
  PROVE  PushInv'
  <1> DEFINE c == New("config", u)
             r == New("resume", u)
  <1>1. /\ IsTask(c) /\ c.fn = "config" /\ c.arg = u /\ c.wire = "sent"
        /\ IsTask(r) /\ r.fn = "resume" /\ r.arg = u /\ r.wire = "sent"
    BY NewTask
  <1>2. /\ page' = [page EXCEPT !.user = u, !.hook = "loading", !.failed = FALSE,
                                !.busy = FALSE, !.excused = Overlap(Ending),
                                !.doubt = tasks # {}]
        /\ tasks' = tasks \cup {c} \cup
             IF Device.perm = "granted" /\ ~Device.optedOut THEN {r} ELSE {}
        /\ UNCHANGED <<server, stale>> /\ page.user = None
    BY DEF SignIn
  <1> HIDE DEF c, r
  <1>3. /\ page' \in PushPage /\ page'.device = page.device /\ page'.user = u
        /\ page'.busy = FALSE /\ page'.hook = "loading" /\ u # None
        /\ ~page'.excused => ~page.excused /\ \A t \in tasks : t.fn \notin Ending
    BY <1>2, PushAssumption DEF PushInv, PushTypes, PushPage, Overlap, PushAssumption
  <1>4. PushTypes'
    BY <1>2, <1>3 DEF PushInv, PushTypes, Device
  <1>5. \A t \in tasks' : PushTask(t)'
    BY <1>1, <1>2 DEF PushInv, PushTask, Renewing, Ending
  <1>6. PushAwaited'
    BY <1>3 DEF PushAwaited
  <1>7. ASSUME ~page'.excused PROVE Calm'
    <2>1. Calm /\ \A t \in tasks : t.fn \notin Ending \cup Renewing
      BY <1>2, <1>3, <1>7 DEF PushInv, Calm, Calls, Renews
    <2>2. ~Delivering
      BY <1>2, <2>1 DEF Calm, SignedOut, Dropping
    <2>3. Exclusive' /\ Calls'
      BY <1>1, <1>2, <1>3, <2>1 DEF Exclusive, Calls, Renewing, Ending, Renews, Device
    <2>4. Owned' /\ ~Delivering'
      BY <1>2, <1>3, <2>1, <2>2 DEF Calm, Owned, Delivering, Device
    <2> QED BY <2>3, <2>4 DEF Calm, SignedOut, OptedOut
  <1> QED BY <1>4, <1>5, <1>6, <1>7 DEF PushInv

LEMMA TurnOnKeeps ==
  ASSUME PushInv, TurnOn
  PROVE  PushInv'
  <1> DEFINE p == New("prompt", page.user)
  <1>1. IsTask(p) /\ p.fn = "prompt" /\ p.arg = page.user /\ p.wire = "sent"
    BY NewTask
  <1>2. /\ page' = [page EXCEPT !.failed = FALSE, !.busy = TRUE, !.excused = Overlap(Ending)]
        /\ tasks' = tasks \cup {p} /\ UNCHANGED <<server, stale>> /\ page.user # None
    BY DEF TurnOn, Start
  <1> HIDE DEF p
  <1>3. /\ page' \in PushPage /\ page'.device = page.device /\ page'.user = page.user
        /\ page'.hook = page.hook
        /\ ~page'.excused => ~page.excused /\ \A t \in tasks : t.fn \notin Ending
    BY <1>2 DEF PushInv, PushTypes, PushPage, Overlap
  <1>4. PushTypes'
    BY <1>2, <1>3 DEF PushInv, PushTypes, Device
  <1>5. \A t \in tasks' : PushTask(t)'
    BY <1>1, <1>2 DEF PushInv, PushTask, Renewing, Ending, PushTypes, PushPage
  <1>6. PushAwaited'
    BY <1>1, <1>2, <1>3 DEF PushAwaited
  <1>7. ASSUME ~page'.excused PROVE Calm'
    <2>1. Calm /\ \A t \in tasks : t.fn \notin Ending
      BY <1>3, <1>7 DEF PushInv
    <2>2. Exclusive' /\ Calls'
      BY <1>1, <1>2, <1>3, <2>1 DEF Calm, Exclusive, Calls, Renewing, Ending, Renews, Device
    <2>3. Owned' /\ SignedOut' /\ OptedOut'
      BY <1>2, <1>3, <2>1 DEF Calm, Owned, Delivering, SignedOut, OptedOut, Dropping, Device
    <2> QED BY <2>2, <2>3 DEF Calm
  <1> QED BY <1>4, <1>5, <1>6, <1>7 DEF PushInv

LEMMA AnswerPromptKeeps ==
  ASSUME PushInv, NEW t \in tasks, NEW perm \in {"default", "granted", "denied"},
         AnswerPrompt(t, perm)
  PROVE  PushInv'
  <1> DEFINE u == [t EXCEPT !.wire = "ok", !.reply = perm]
  <1>0. PushTask(t) /\ t.fn = "prompt" /\ t.wire = "sent"
    BY DEF PushInv, AnswerPrompt, Awaiting
  <1>1. /\ IsTask(u) /\ u.fn = "prompt" /\ u.arg = t.arg /\ u.wire = "ok" /\ u.reply = perm
    BY <1>0 DEF PushTask, IsTask
  <1>2. /\ page' = [page EXCEPT !.device.perm = perm]
        /\ tasks' = (tasks \ {t}) \cup {u} /\ UNCHANGED <<server, stale>>
        /\ page.device.perm # "default" => perm = page.device.perm
    BY DEF AnswerPrompt, Answered, GoOn, Device
  <1> HIDE DEF u
  <1>3. /\ page' \in PushPage /\ page'.device.perm = perm
        /\ page'.device.optedOut = page.device.optedOut /\ page'.device.sub = page.device.sub
        /\ page'.user = page.user /\ page'.hook = page.hook /\ page'.busy = page.busy
        /\ page'.excused = page.excused
    BY <1>2 DEF PushInv, PushTypes, PushPage
  <1>8. page.device.perm = "granted" => page'.device.perm = "granted"
    BY <1>2, <1>3
  <1>4. PushTypes'
    BY <1>2, <1>3 DEF PushInv, PushTypes, Device
  <1>5. \A v \in tasks' : PushTask(v)'
    BY <1>1, <1>2 DEF PushInv, PushTask, Renewing, Ending
  <1>6. PushAwaited'
    BY <1>0, <1>1, <1>2, <1>3 DEF PushInv, PushAwaited
  <1>7. ASSUME ~page'.excused PROVE Calm'
    <2>1. Calm
      BY <1>3, <1>7 DEF PushInv
    <2>2. Exclusive'
      BY <1>0, <1>1, <1>2, <2>1 DEF Calm, Exclusive
    <2>3. Calls'
      <3>1. Renews(u)'
        BY <1>0, <1>1, <1>2, <1>3, <2>1 DEF Calm, Calls, Renews, Renewing, Device
      <3>2. \A v \in tasks : /\ v.fn \in Renewing => Renews(v)'
                             /\ v.fn \in Ending => Ends(v)'
        BY <1>2, <1>3, <1>8, <2>1 DEF Calm, Calls, Renews, Ends, Device
      <3> QED BY <1>1, <1>2, <3>1, <3>2 DEF Calls, Ending
    <2>4. Owned'
      BY <1>2, <1>3, <1>8, <2>1 DEF Calm, Owned, Device
    <2>5. SignedOut' /\ OptedOut'
      BY <1>0, <1>2, <1>3, <2>1 DEF Calm, Delivering, SignedOut, OptedOut, Dropping, Device,
                                    Ending
    <2> QED BY <2>2, <2>3, <2>4, <2>5 DEF Calm
  <1> QED BY <1>4, <1>5, <1>6, <1>7 DEF PushInv

\* The device has a subscription under the server's key, and saving it begins.
LEMMA SubscribeKeeps ==
  ASSUME PushInv, NEW t \in tasks, NEW save \in {"save", "resumeSave"}, Subscribe(t, save),
         t.wire = "ok",
         \/ t.fn = "prompt" /\ t.reply = "granted" /\ save = "save"
         \/ t.fn = "resume" /\ save = "resumeSave"
  PROVE  PushInv'
  <1>1. PICK sub : /\ sub = IF Usable THEN Device.sub
                            ELSE [end |-> CHOOSE e \in FreshEndpoints : TRUE, key |-> "new"]
                   /\ page' = [page EXCEPT !.device.sub = sub]
                   /\ server' = [server EXCEPT !.spent = @ \cup {sub.end}]
                   /\ GoOn(t, [New(save, page.user) EXCEPT !.reply = sub.end])
    BY DEF Subscribe
  <1>2. /\ sub \in [end : Endpoints, key : {"new"}]
        /\ sub = Device.sub \/ sub.end \notin server.spent
        /\ Usable => sub = Device.sub
    <2>1. CASE Usable
      BY <1>1, <2>1 DEF Usable, Device, PushInv, PushTypes, PushPage
    <2>2. CASE ~Usable
      <3>1. (CHOOSE e \in FreshEndpoints : TRUE) \in FreshEndpoints
        BY <2>2 DEF Subscribe
      <3> QED BY <1>1, <2>2, <3>1 DEF FreshEndpoints
    <2> QED BY <2>1, <2>2
  <1>3. PICK new : /\ IsTask(new) /\ new.fn = save /\ new.arg = page.user /\ new.wire = "sent"
                   /\ new.reply = sub.end /\ tasks' = (tasks \ {t}) \cup {new}
    <2> DEFINE n == New(save, page.user)
               m == [n EXCEPT !.reply = sub.end]
    <2>1. IsTask(n) /\ n.fn = save /\ n.arg = page.user /\ n.wire = "sent"
      BY NewTask
    <2> HIDE DEF n
    <2>2. IsTask(m) /\ m.fn = save /\ m.arg = page.user /\ m.wire = "sent" /\ m.reply = sub.end
      BY <2>1 DEF IsTask
    <2>3. tasks' = (tasks \ {t}) \cup {m}
      BY <1>1 DEF GoOn, n
    <2> HIDE DEF m
    <2> QED BY <2>2, <2>3
  <1>4. /\ page' \in PushPage /\ page'.device.sub = sub
        /\ page'.device.perm = page.device.perm /\ page'.device.optedOut = page.device.optedOut
        /\ page'.user = page.user /\ page'.hook = page.hook /\ page'.busy = page.busy
        /\ page'.excused = page.excused
    BY <1>1, <1>2 DEF PushInv, PushTypes, PushPage
  <1>5. /\ server' \in PushServer /\ server'.rows = server.rows
        /\ server'.spent = server.spent \cup {sub.end}
    BY <1>1, <1>2 DEF PushInv, PushTypes, PushServer
  <1>6. PushTypes'
    BY <1>4, <1>5 DEF PushInv, PushTypes, Device
  <1>7. \A v \in tasks' : PushTask(v)'
    BY <1>3, <1>5 DEF PushInv, PushTask, Renewing, Ending, PushTypes, PushPage
  <1>8. PushAwaited'
    BY <1>3, <1>4 DEF PushInv, PushAwaited
  <1>9. ASSUME ~page'.excused PROVE Calm'
    <2>1. Calm
      BY <1>4, <1>9 DEF PushInv
    <2>2. t.fn \in Renewing /\ new.fn \in Renewing /\ (\A v \in tasks : v.fn \notin Ending) /\ Renews(t)
      BY <1>3, <2>1 DEF Calm, Exclusive, Calls, Renewing
    <2>3. server.rows[sub.end] = None \/ sub = Device.sub
      BY <1>2 DEF PushInv, PushTypes
    <2>4. Exclusive'
      BY <1>3, <2>2 DEF Exclusive, Renewing, Ending
    <2>5. Calls'
      <3>1. new.fn = "resumeSave" => ~Device.optedOut
        BY <1>3, <2>2 DEF Renews
      <3>2. Renews(new)'
        BY <1>2, <1>3, <1>4, <2>2, <3>1 DEF Renews, Device
      <3>3. ASSUME NEW v \in tasks, v.fn \in Renewing PROVE Renews(v)'
        <4>1. Renews(v) /\ PushTask(v)
          BY <2>1, <3>3 DEF PushInv, Calm, Calls
        <4>2. CASE v.fn \in {"save", "resumeSave"} /\ v.wire # "failed"
          <5>1. Usable
            BY <4>1, <4>2, PushAssumption DEF PushInv, PushTypes, PushServer, PushTask,
                                              Renews,
                                              Usable, PushAssumption
          <5>2. sub = Device.sub
            BY <1>2, <5>1
          <5> QED BY <1>4, <1>5, <4>1, <5>2 DEF Renews, Device
        <4>3. CASE ~(v.fn \in {"save", "resumeSave"} /\ v.wire # "failed")
          BY <1>4, <4>1, <4>3 DEF Renews, Device
        <4> QED BY <4>2, <4>3
      <3> QED BY <1>3, <2>2, <3>2, <3>3 DEF Calls, Ending, Renewing
    <2>6. Owned'
      BY <1>2, <1>4, <1>5, <2>1, <2>2, <2>3 DEF Calm, Owned, Device, Renews
    <2>7. SignedOut' /\ OptedOut'
      <3>1. page'.user # None
        BY <1>4, <2>2 DEF Renews
      <3>2. CASE sub = Device.sub
        <4>1. Delivering' => Delivering
          BY <1>4, <1>5, <3>2 DEF Delivering, Device
        <4>2. ASSUME Device.optedOut, Delivering
              PROVE  \E v \in tasks : v.fn = "save" /\ v.wire # "sent"
          BY <2>1, <2>2, <4>2 DEF Calm, OptedOut, Dropping
        <4>3. t.fn # "save"
          OBVIOUS
        <4> QED BY <1>3, <1>4, <3>1, <4>1, <4>2, <4>3 DEF SignedOut, OptedOut, Device
      <3>3. CASE server.rows[sub.end] = None
        BY <1>4, <1>5, <3>1, <3>3 DEF SignedOut, OptedOut, Delivering, Device
      <3> QED BY <2>3, <3>2, <3>3
    <2> QED BY <2>4, <2>5, <2>6, <2>7 DEF Calm
  <1> QED BY <1>6, <1>7, <1>8, <1>9 DEF PushInv

\* The old subscription may be gone, and there is no other.
LEMMA SubscribeFailsKeeps ==
  ASSUME PushInv, NEW t \in tasks, SubscribeFails(t), t.wire = "ok",
         t.fn = "prompt" \/ t.fn = "resume"
  PROVE  PushInv'
  <1>1. PICK sub \in {Device.sub, NoSub}, failed \in BOOLEAN, busy \in BOOLEAN,
             doubt \in BOOLEAN :
          /\ page' = [page EXCEPT !.device.sub = sub, !.failed = failed, !.busy = busy,
                                  !.doubt = doubt]
          /\ busy => page.busy /\ (t.fn = "resume" \/ t.arg # page.user)
    <2>1. page \in PushPage
      BY DEF PushInv, PushTypes
    <2>2. PICK sub \in {Device.sub, NoSub} :
            page' = IF t.fn = "prompt"
              THEN [page EXCEPT !.device.sub = sub, !.failed = @ \/ Mounted(t),
                                !.busy = @ /\ ~Mounted(t)]
              ELSE [page EXCEPT !.device.sub = sub, !.doubt = TRUE]
      BY DEF SubscribeFails
    <2>3. CASE t.fn = "prompt"
      <3> DEFINE failed == page.failed \/ Mounted(t)
                 busy == page.busy /\ ~Mounted(t)
      <3>1. /\ failed \in BOOLEAN /\ busy \in BOOLEAN
            /\ busy => page.busy /\ t.arg # page.user
        BY <2>1 DEF PushPage, Mounted
      <3>2. page' = [page EXCEPT !.device.sub = sub, !.failed = failed, !.busy = busy]
        BY <2>2, <2>3
      <3> HIDE DEF failed, busy
      <3>3. page' = [page EXCEPT !.device.sub = sub, !.failed = failed, !.busy = busy,
                                 !.doubt = page.doubt]
        BY <2>1, <3>2 DEF PushPage
      <3>4. page.doubt \in BOOLEAN
        BY <2>1 DEF PushPage
      <3> QED BY <3>1, <3>3, <3>4
    <2>4. CASE t.fn = "resume"
      <3>1. page' = [page EXCEPT !.device.sub = sub, !.doubt = TRUE]
        BY <2>2, <2>4
      <3>2. page' = [page EXCEPT !.device.sub = sub, !.failed = page.failed,
                                 !.busy = page.busy, !.doubt = TRUE]
        BY <2>1, <3>1 DEF PushPage
      <3>3. page.failed \in BOOLEAN /\ page.busy \in BOOLEAN
        BY <2>1 DEF PushPage
      <3> QED BY <2>4, <3>2, <3>3
    <2> QED BY <2>3, <2>4
  <1>2. /\ ~Usable /\ tasks' = tasks \ {t} /\ UNCHANGED <<server, stale>>
        /\ t.fn \in Renewing
    BY DEF SubscribeFails, End, Renewing
  <1>3. /\ page' \in PushPage /\ page'.device.sub = sub
        /\ page'.device.perm = page.device.perm /\ page'.device.optedOut = page.device.optedOut
        /\ page'.user = page.user /\ page'.excused = page.excused /\ page'.busy = busy
    <2>1. page \in PushPage
      BY DEF PushInv, PushTypes
    <2>2. sub \in [end : Endpoints \cup {None}, key : {None, "old", "new"}]
      BY <2>1 DEF PushPage, Device, NoSub
    <2> QED BY <1>1, <2>1, <2>2 DEF PushPage
  <1>4. sub.end \in {Device.sub.end, None} /\ (sub.end # None => sub = Device.sub)
    BY DEF NoSub
  <1>5. PushTypes'
    BY <1>2, <1>3, <1>4 DEF PushInv, PushTypes, Device
  <1>6. (\A v \in tasks' : PushTask(v)') /\ PushAwaited'
    BY <1>1, <1>2, <1>3 DEF PushInv, PushTask, PushAwaited, Device
  <1>7. ASSUME ~page'.excused PROVE Calm'
    <2>1. Calm /\ (\A v \in tasks : v.fn \notin Ending) /\ Renews(t)
      BY <1>2, <1>3, <1>7 DEF PushInv, Calm, Exclusive, Calls
    <2>2. Exclusive'
      BY <1>2, <2>1 DEF Exclusive
    <2>3. Calls'
      <3> SUFFICES ASSUME NEW v \in tasks, v.fn \in Renewing PROVE Renews(v)'
        BY <1>2, <2>1 DEF Calls
      <3>1. Renews(v) /\ PushTask(v)
        BY <2>1 DEF PushInv, Calm, Calls
      <3>2. ~(v.fn \in {"save", "resumeSave"} /\ v.wire # "failed")
        BY <1>2, <3>1, PushAssumption DEF PushInv, PushTypes, PushServer, PushTask, Renews,
                                          Usable, PushAssumption
      <3> QED BY <1>2, <1>3, <3>1, <3>2 DEF Renews, Device
    <2>4. Owned'
      BY <1>2, <1>3, <1>4, <2>1 DEF Calm, Owned, Device
    <2>5. ~Delivering'
      BY <1>2, <1>3, <1>4, <2>1 DEF Calm, Owned, Delivering, Device, Usable, PushInv,
                                    PushTypes, PushPage
    <2> QED BY <2>1, <2>2, <2>3, <2>4, <2>5 DEF Calm, SignedOut, OptedOut
  <1> QED BY <1>5, <1>6, <1>7 DEF PushInv

LEMMA PromptReturnsKeeps ==
  ASSUME PushInv, NEW t \in tasks, PromptReturns(t)
  PROVE  PushInv'
  <1>1. CASE t.reply = "granted" /\ Subscribe(t, "save")
    BY <1>1, SubscribeKeeps DEF PromptReturns, Returned
  <1>3. CASE t.reply = "granted" /\ SubscribeFails(t)
    BY <1>3, SubscribeFailsKeeps DEF PromptReturns, Returned
  <1>2. CASE t.reply # "granted"
    <2>0. /\ t.fn = "prompt" /\ tasks' = tasks \ {t} /\ UNCHANGED <<server, stale>>
          /\ page' = IF t.arg # page.user THEN page ELSE [page EXCEPT !.busy = FALSE,
                        !.hook = IF t.reply = "denied" THEN "blocked" ELSE "off"]
      BY <1>2 DEF PromptReturns, Returned, End, Mounted
    <2>1. /\ page' \in PushPage /\ page'.device = page.device /\ page'.user = page.user
          /\ page'.excused = page.excused
          /\ page'.hook = "on" => page.hook = "on"
          /\ page'.busy => page.busy /\ t.arg # page.user
      BY <2>0 DEF PushInv, PushTypes, PushPage
    <2>2. PushTypes' /\ PushAwaited' /\ \A v \in tasks' : PushTask(v)'
      BY <2>0, <2>1 DEF PushInv, PushTypes, PushAwaited, PushTask, Device
    <2>3. ASSUME ~page'.excused PROVE Calm'
      <3>1. Calm
        BY <2>1, <2>3 DEF PushInv
      <3>2. Exclusive' /\ Calls'
        BY <2>0, <2>1, <3>1 DEF Calm, Exclusive, Calls, Renews, Ends, Device
      <3>3. Owned' /\ SignedOut' /\ OptedOut'
        BY <2>0, <2>1, <3>1 DEF Calm, Owned, Delivering, SignedOut, OptedOut, Dropping,
                                Device, Ending
      <3> QED BY <3>2, <3>3 DEF Calm
    <2> QED BY <2>2, <2>3 DEF PushInv
  <1> QED BY <1>1, <1>2, <1>3 DEF PromptReturns

LEMMA ResumeReturnsKeeps ==
  ASSUME PushInv, NEW t \in tasks, ResumeReturns(t)
  PROVE  PushInv'
  <1>1. CASE Returned(t, "resume") /\ Subscribe(t, "resumeSave")
    BY <1>1, SubscribeKeeps DEF Returned
  <1>2. CASE Returned(t, "resume") /\ SubscribeFails(t)
    BY <1>2, SubscribeFailsKeeps DEF Returned
  <1>3. CASE Threw(t, "resume") /\ End(t) /\ page' = [page EXCEPT !.doubt = TRUE]
             /\ UNCHANGED <<server, stale>>
    <2>1. /\ page' \in PushPage /\ page'.device = page.device /\ page'.user = page.user
          /\ page'.excused = page.excused /\ page'.busy = page.busy
          /\ t.fn = "resume" /\ tasks' = tasks \ {t}
      BY <1>3 DEF PushInv, PushTypes, PushPage, Threw, End
    <2>2. PushTypes' /\ PushAwaited' /\ \A v \in tasks' : PushTask(v)'
      BY <1>3, <2>1 DEF PushInv, PushTypes, PushAwaited, PushTask, Device
    <2>3. ASSUME ~page'.excused PROVE Calm'
      <3>1. Calm
        BY <2>1, <2>3 DEF PushInv
      <3>2. Exclusive' /\ Calls'
        BY <1>3, <2>1, <3>1 DEF Calm, Exclusive, Calls, Renews, Ends, Device
      <3>3. Owned' /\ SignedOut' /\ OptedOut'
        BY <1>3, <2>1, <3>1 DEF Calm, Owned, Delivering, SignedOut, OptedOut, Dropping,
                                Device, Ending
      <3> QED BY <3>2, <3>3 DEF Calm
    <2> QED BY <2>2, <2>3 DEF PushInv
  <1> QED BY <1>1, <1>2, <1>3 DEF ResumeReturns

LEMMA ServePushKeeps ==
  ASSUME PushInv, NEW t \in tasks, ServePush(t)
  PROVE  PushInv'
  <1> DEFINE after == IF t.fn \in {"save", "resumeSave"}
                        THEN [server EXCEPT !.rows[t.reply] = t.arg] ELSE server
             accepts == t.fn \in {"save", "resumeSave"} => t.arg # None
             reply == IF t.fn \in {"save", "resumeSave"} THEN t.reply ELSE None
  <1>0. /\ t.fn \in {"config", "resume", "save", "resumeSave"} /\ t.wire = "sent"
        /\ PushTask(t) /\ Serve(t, accepts, after, reply)
    BY DEF PushInv, ServePush, Awaiting
  <1> HIDE DEF after, accepts, reply
  <1>1. PICK u : /\ IsTask(u) /\ u.fn = t.fn /\ u.arg = t.arg /\ u.no = t.no
                 /\ tasks' = (tasks \ {t}) \cup {u}
                 /\ u.wire \in {"ok", "failed"}
                 /\ u.wire = "ok" => accepts /\ server' = after /\ u.reply = reply
    BY <1>0, Served DEF PushTask
  <1>2. UNCHANGED page /\ (server' # server => accepts /\ server' = after)
    BY <1>0, Served DEF PushTask
  <1> DEFINE saving == t.fn \in {"save", "resumeSave"}
  <1>3. saving => t.reply \in server.spent /\ t.reply \in Endpoints
    BY <1>0 DEF PushInv, PushTypes, PushServer, PushTask
  <1>4. /\ server' \in PushServer /\ server'.spent = server.spent
        /\ \A e \in Endpoints : server'.rows[e] # server.rows[e] =>
             saving /\ e = t.reply /\ server'.rows[e] = t.arg
        /\ u.wire = "ok" /\ saving => server'.rows[t.reply] = t.arg /\ u.reply = t.reply
    <2>1. server \in PushServer /\ t.arg \in Owners \cup {None}
      BY <1>0 DEF PushInv, PushTypes, PushTask
    <2>2. CASE server' = server /\ u.wire = "failed"
      BY <2>1, <2>2
    <2>3. CASE saving /\ server' = after
      <3>1. server' = [server EXCEPT !.rows[t.reply] = t.arg] /\ reply = t.reply
        BY <2>3 DEF after, reply
      <3> QED BY <1>1, <1>3, <2>1, <2>3, <3>1 DEF PushServer
    <2>4. CASE ~saving
      <3>1. server' = server
        BY <1>1, <1>2, <2>4 DEF after
      <3> QED BY <2>1, <2>4, <3>1
    <2> QED BY <1>1, <1>2, <2>2, <2>3, <2>4
  <1>5. PushTypes'
    BY <1>2, <1>3, <1>4 DEF PushInv, PushTypes, Device
  <1>6. \A v \in tasks' : PushTask(v)'
    BY <1>0, <1>1, <1>3, <1>4 DEF PushInv, PushTask, Ending
  <1>7. PushAwaited'
    BY <1>0, <1>1, <1>2 DEF PushInv, PushAwaited
  <1>8. ASSUME ~page'.excused PROVE Calm'
    <2>1. Calm
      BY <1>2, <1>8 DEF PushInv
    <2>2. Exclusive'
      BY <1>0, <1>1, <2>1 DEF Calm, Exclusive
    <2>3. saving => t.arg = page.user /\ page.user # None /\ t.reply = Device.sub.end
                    /\ Device.sub.key = "new" /\ \A v \in tasks : v.fn \notin Ending
      BY <1>0, <2>1 DEF Calm, Exclusive, Calls, Renews, Renewing
    <2>4. /\ Device.sub.end \in Endpoints \cup {None}
          /\ server'.rows[Device.sub.end] # server.rows[Device.sub.end] /\ Device.sub.end # None =>
               saving /\ server'.rows[Device.sub.end] = page.user
      BY <1>4, <2>3 DEF PushInv, PushTypes, PushPage, Device
    <2>5. Calls'
      <3>1. ASSUME t.fn \in Renewing PROVE Renews(u)'
        BY <1>0, <1>1, <1>2, <1>4, <2>1, <2>3, <3>1 DEF Calm, Calls, Renews, Device
      <3>2. ASSUME NEW v \in tasks, v.fn \in Renewing PROVE Renews(v)'
        <4>1. Renews(v)
          BY <2>1, <3>2 DEF Calm, Calls
        <4>2. v.fn \in {"save", "resumeSave"} /\ v.wire # "failed" => v.reply \in Endpoints
          BY <3>2 DEF PushInv, PushTask, PushTypes, PushServer
        <4> QED BY <1>2, <1>4, <2>3, <4>1, <4>2 DEF Renews, Device
      <3>3. ASSUME NEW v \in tasks, v.fn \in Ending PROVE Ends(v)'
        <4>1. Ends(v) /\ ~saving
          BY <2>1, <2>3, <3>3 DEF Calm, Calls
        <4>2. v.reply # None => v.reply \in Endpoints
          BY <3>3 DEF PushInv, PushTask, PushTypes, PushServer
        <4> QED BY <1>2, <1>4, <4>1, <4>2 DEF Ends, Device
      <3>4. t.fn \notin Ending
        BY <1>0 DEF Ending
      <3> QED BY <1>1, <3>1, <3>2, <3>3, <3>4 DEF Calls
    <2>6. Owned'
      BY <1>2, <2>1, <2>3, <2>4 DEF Calm, Owned, Device
    <2>7. SignedOut' /\ OptedOut'
      <3>1. CASE Device.sub.end # None /\ server'.rows[Device.sub.end] # server.rows[Device.sub.end]
        <4>1. page'.user # None
          BY <1>2, <2>3, <2>4, <3>1
        <4>2. ~Device.optedOut \/ (u.fn = "save" /\ u.wire # "sent")
          BY <1>0, <1>1, <2>1, <2>4, <3>1 DEF Calm, Calls, Renews, Renewing
        <4> QED BY <1>1, <1>2, <4>1, <4>2 DEF SignedOut, OptedOut, Device
      <3>2. CASE ~(Device.sub.end # None /\ server'.rows[Device.sub.end] # server.rows[Device.sub.end])
        <4>1. (Delivering' <=> Delivering) /\ \A v : Dropping(v)' <=> Dropping(v)
          BY <1>2, <3>2 DEF Delivering, Dropping, Device
        <4>2. ~Dropping(t)
          BY <1>0 DEF Dropping, Ending
        <4>3. t.wire = "sent"
          BY <1>0
        <4> QED BY <1>1, <1>2, <2>1, <4>1, <4>2, <4>3 DEF Calm, SignedOut, OptedOut, Device
      <3> QED BY <3>1, <3>2
    <2> QED BY <2>2, <2>5, <2>6, <2>7 DEF Calm
  <1> QED BY <1>5, <1>6, <1>7, <1>8 DEF PushInv

LEMMA SaveReturnsKeeps ==
  ASSUME PushInv, NEW t \in tasks, SaveReturns(t)
  PROVE  PushInv'
  <1>0. /\ t.fn \in {"save", "resumeSave"} /\ t.wire \in {"ok", "failed"} /\ PushTask(t)
        /\ tasks' = tasks \ {t} /\ UNCHANGED <<server, stale>>
    BY DEF SaveReturns, End, PushInv, PushTask, IsTask
  <1>1. /\ page' \in PushPage /\ page'.user = page.user /\ page'.device.sub = page.device.sub
        /\ page'.device.perm = page.device.perm
        /\ page'.device.optedOut => page.device.optedOut /\ ~(t.fn = "save" /\ t.wire = "ok")
        /\ page.device.optedOut => page'.device.optedOut \/ (t.fn = "save" /\ t.wire = "ok")
        /\ page'.busy => page.busy /\ (t.fn = "save" => t.arg # page.user)
        /\ ~page'.excused => ~page.excused /\ (t.fn = "save" => t.wire = "ok")
    <2>1. page \in PushPage
      BY DEF PushInv, PushTypes
    <2>2. CASE t.fn = "resumeSave"
      <3>1. page' = [page EXCEPT !.doubt = @ \/ t.wire = "failed"]
        BY <2>2 DEF SaveReturns
      <3>2. (page.doubt \/ t.wire = "failed") \in BOOLEAN
        BY <2>1 DEF PushPage
      <3>3. /\ page' \in PushPage /\ page'.user = page.user /\ page'.device = page.device
            /\ page'.busy = page.busy /\ page'.excused = page.excused
        BY <2>1, <3>1, <3>2 DEF PushPage
      <3> QED BY <1>0, <2>2, <3>3
    <2>3. CASE t.fn = "save" /\ t.wire = "ok"
      <3>1. page' = [page EXCEPT !.hook = IF t.arg = page.user THEN "on" ELSE @,
                       !.busy = @ /\ t.arg # page.user, !.device.optedOut = FALSE]
        BY <2>3 DEF SaveReturns, Mounted
      <3> QED BY <2>1, <2>3, <3>1 DEF PushPage
    <2>4. CASE t.fn = "save" /\ t.wire = "failed"
      <3>1. page' = [page EXCEPT !.failed = @ \/ t.arg = page.user,
                       !.busy = @ /\ t.arg # page.user, !.excused = TRUE]
        BY <2>4 DEF SaveReturns, Mounted
      <3> QED BY <2>1, <2>4, <3>1 DEF PushPage
    <2> QED BY <1>0, <2>2, <2>3, <2>4
  <1>2. PushTypes' /\ (\A v \in tasks' : PushTask(v)') /\ PushAwaited'
    BY <1>0, <1>1 DEF PushInv, PushTypes, PushTask, PushAwaited, Device
  <1>3. ASSUME ~page'.excused PROVE Calm'
    <2>1. Calm /\ (t.fn = "save" => t.wire = "ok") /\ Renews(t)
          /\ \A v \in tasks : v.fn \notin Ending
      BY <1>0, <1>1, <1>3 DEF PushInv, Calm, Exclusive, Calls, Renewing
    <2>2. Exclusive'
      BY <1>0, <2>1 DEF Exclusive
    <2>3. Calls'
      BY <1>0, <1>1, <2>1 DEF Calm, Calls, Renews, Device
    <2>4. Owned'
      BY <1>0, <1>1, <2>1 DEF Calm, Owned, Device
    <2>5. SignedOut' /\ OptedOut'
      BY <1>0, <1>1, <2>1 DEF Calm, SignedOut, OptedOut, Delivering, Dropping, Device,
                              Renews
    <2> QED BY <2>2, <2>3, <2>4, <2>5 DEF Calm
  <1> QED BY <1>2, <1>3 DEF PushInv

LEMMA ConfigReturnsKeeps ==
  ASSUME PushInv, NEW t \in tasks, ConfigReturns(t)
  PROVE  PushInv'
  <1>0. /\ t.fn = "config" /\ tasks' = tasks \ {t} /\ UNCHANGED <<server, stale>>
    BY DEF ConfigReturns, End
  <1>1. /\ page' \in PushPage /\ page'.user = page.user /\ page'.device = page.device
        /\ page'.busy = page.busy /\ page'.excused = page.excused
    <2>1. page \in PushPage
      BY DEF PushInv, PushTypes
    <2>2. PICK h \in {"hidden", "blocked", "on", "off"} :
            page' = page \/ page' = [page EXCEPT !.hook = h]
      BY DEF ConfigReturns
    <2> QED BY <2>1, <2>2 DEF PushPage
  <1>2. PushTypes' /\ (\A v \in tasks' : PushTask(v)') /\ PushAwaited'
    BY <1>0, <1>1 DEF PushInv, PushTypes, PushTask, PushAwaited, Device
  <1>3. ASSUME ~page'.excused PROVE Calm'
    <2>1. Calm
      BY <1>1, <1>3 DEF PushInv
    <2>2. Exclusive' /\ Calls' /\ Owned'
      BY <1>0, <1>1, <2>1 DEF Calm, Exclusive, Calls, Renews, Ends, Owned, Device
    <2>3. SignedOut' /\ OptedOut'
      BY <1>0, <1>1, <2>1 DEF Calm, SignedOut, OptedOut, Delivering, Dropping, Device,
                              Ending
    <2> QED BY <2>2, <2>3 DEF Calm
  <1> QED BY <1>2, <1>3 DEF PushInv

LEMMA TurnOffKeeps ==
  ASSUME PushInv, TurnOff
  PROVE  PushInv'
  <1>1. /\ page' \in PushPage /\ page'.user = page.user /\ page.user # None
        /\ page'.device.sub = page.device.sub /\ page'.device.perm = page.device.perm
        /\ page'.device.optedOut /\ (page'.busy => Device.sub.end # None)
        /\ ~page'.excused => ~page.excused /\ \A v \in tasks : v.fn \notin Renewing
        /\ UNCHANGED <<server, stale>>
    <2>1. /\ page' = [page EXCEPT !.failed = FALSE, !.device.optedOut = TRUE,
                        !.busy = Device.sub.end # None, !.excused = Overlap(Renewing),
                        !.hook = IF Device.sub.end = None THEN "off" ELSE @]
          /\ page.user # None /\ UNCHANGED <<server, stale>> /\ page \in PushPage
      BY DEF TurnOff, PushInv, PushTypes
    <2>2. Overlap(Renewing) \in BOOLEAN /\ (Device.sub.end # None) \in BOOLEAN
          /\ (~Overlap(Renewing) => ~page.excused /\ \A v \in tasks : v.fn \notin Renewing)
      BY <2>1 DEF Overlap, PushPage
    <2> QED BY <2>1, <2>2 DEF PushPage
  <1>2. PICK new : /\ tasks' = tasks \cup new /\ (Device.sub.end # None => new # {})
                   /\ \A u \in new : /\ IsTask(u) /\ u.fn = "turnOff" /\ u.arg = page.user
                                     /\ u.wire = "sent" /\ u.reply = Device.sub.end
    <2> DEFINE n == New("turnOff", page.user)
               u == [n EXCEPT !.reply = Device.sub.end]
    <2>1. IsTask(n) /\ n.fn = "turnOff" /\ n.arg = page.user /\ n.wire = "sent"
      BY NewTask
    <2> HIDE DEF n
    <2>2. /\ IsTask(u) /\ u.fn = "turnOff" /\ u.arg = page.user /\ u.wire = "sent"
          /\ u.reply = Device.sub.end
      BY <2>1 DEF IsTask
    <2> HIDE DEF u
    <2> DEFINE new == IF Device.sub.end = None THEN {} ELSE {u}
    <2>3. tasks' = tasks \cup new
      BY DEF TurnOff, Start, n, u
    <2>4. (Device.sub.end # None => new # {}) /\ \A v \in new : v = u
      OBVIOUS
    <2> HIDE DEF new
    <2> QED BY <2>2, <2>3, <2>4
  <1>3. PushTypes' /\ (\A v \in tasks' : PushTask(v)') /\ PushAwaited'
    <2>1. PushTypes'
      BY <1>1 DEF PushInv, PushTypes, Device
    <2>2. \A v \in tasks' : PushTask(v)'
      BY <1>1, <1>2 DEF PushInv, PushTypes, PushTask, PushPage, Device, Ending, Renewing
    <2>3. PushAwaited'
      BY <1>1, <1>2 DEF PushAwaited
    <2> QED BY <2>1, <2>2, <2>3
  <1>4. ASSUME ~page'.excused PROVE Calm'
    <2>1. Calm /\ \A v \in tasks : v.fn \notin Renewing
      BY <1>1, <1>4 DEF PushInv
    <2>2. Exclusive'
      BY <1>2, <2>1 DEF Exclusive, Renewing
    <2>3. Calls'
      BY <1>1, <1>2, <2>1 DEF Calm, Calls, Ends, Owned, Device, Renewing
    <2>4. Owned'
      BY <1>1, <2>1 DEF Calm, Owned, Device
    <2>5. SignedOut'
      BY <1>1 DEF SignedOut, Device
    <2>6. ASSUME Delivering' PROVE \E v \in tasks' : Dropping(v)'
      <3>1. Device.sub.end # None
        BY <1>1, <2>6 DEF Delivering, Device
      <3>2. PICK v \in new : TRUE
        BY <1>2, <3>1
      <3> QED BY <1>1, <1>2, <3>2 DEF Dropping, Ending, Device
    <2>7. OptedOut'
      BY <2>6 DEF OptedOut
    <2> QED BY <2>2, <2>3, <2>4, <2>5, <2>7 DEF Calm
  <1> QED BY <1>3, <1>4 DEF PushInv

LEMMA SignOutKeeps ==
  ASSUME PushInv, SignOut
  PROVE  PushInv'
  <1>1. /\ page' \in PushPage /\ page'.user = page.user /\ page.user # None
        /\ page'.device = page.device /\ page'.busy = page.busy /\ page'.hook = page.hook
        /\ ~page'.excused => /\ ~page.excused
                             /\ \A v \in tasks : v.fn \notin Renewing \cup Ending
        /\ UNCHANGED <<server, stale>>
    BY DEF SignOut, PushInv, PushTypes, PushPage, Overlap
  <1>2. PICK u : /\ tasks' = tasks \cup {u} /\ IsTask(u) /\ u.fn = "logout"
                 /\ u.arg = page.user /\ u.wire = "sent" /\ u.reply = Device.sub.end
    <2> DEFINE n == New("logout", page.user)
               u == [n EXCEPT !.reply = Device.sub.end]
    <2>1. IsTask(n) /\ n.fn = "logout" /\ n.arg = page.user /\ n.wire = "sent"
      BY NewTask
    <2> HIDE DEF n
    <2>2. /\ IsTask(u) /\ u.fn = "logout" /\ u.arg = page.user /\ u.wire = "sent"
          /\ u.reply = Device.sub.end
      BY <2>1 DEF IsTask
    <2>3. tasks' = tasks \cup {u}
      BY DEF SignOut, Start, n
    <2> HIDE DEF u
    <2> QED BY <2>2, <2>3
  <1>3. PushTypes' /\ (\A v \in tasks' : PushTask(v)') /\ PushAwaited'
    BY <1>1, <1>2 DEF PushInv, PushTypes, PushTask, PushAwaited, Device, Ending, Renewing,
                      PushPage
  <1>4. ASSUME ~page'.excused PROVE Calm'
    <2>1. Calm /\ \A v \in tasks : v.fn \notin Renewing \cup Ending
      BY <1>1, <1>4 DEF PushInv
    <2>2. Exclusive'
      BY <1>2, <2>1 DEF Exclusive, Renewing
    <2>3. Calls'
      BY <1>1, <1>2, <2>1 DEF Calm, Calls, Ends, Owned, Device, Renewing
    <2>4. Owned'
      BY <1>1, <2>1 DEF Calm, Owned, Device
    <2>5. SignedOut' /\ OptedOut'
      BY <1>1, <1>2, <2>1 DEF Calm, SignedOut, OptedOut, Delivering, Dropping, Device,
                              Ending
    <2> QED BY <2>2, <2>3, <2>4, <2>5 DEF Calm
  <1> QED BY <1>3, <1>4 DEF PushInv

LEMMA ServeDropKeeps ==
  ASSUME PushInv, NEW t \in tasks, ServeDrop(t)
  PROVE  PushInv'
  <1>0. /\ t.fn \in Ending /\ t.wire = "sent" /\ t.reply # None /\ PushTask(t)
        /\ UNCHANGED <<page, stale>>
    BY DEF ServeDrop, Awaiting, PushInv
  <1>1. PICK u : /\ IsTask(u) /\ u.fn = t.fn /\ u.arg = t.arg /\ u.reply = t.reply
                 /\ tasks' = (tasks \ {t}) \cup {u} /\ u.wire \in {"ok", "failed"}
                 /\ IF u.wire = "failed" THEN UNCHANGED server
                    ELSE server' = [server EXCEPT !.rows[t.reply] =
                                      IF @ = t.arg THEN None ELSE @]
    <2>1. CASE /\ server' = [server EXCEPT !.rows[t.reply] = IF @ = t.arg THEN None ELSE @]
               /\ tasks' = (tasks \ {t}) \cup {[t EXCEPT !.wire = "ok"]}
      <3> DEFINE u == [t EXCEPT !.wire = "ok"]
      <3>1. /\ IsTask(u) /\ u.fn = t.fn /\ u.arg = t.arg /\ u.reply = t.reply
            /\ u.wire = "ok" /\ tasks' = (tasks \ {t}) \cup {u}
        BY <1>0, <2>1 DEF PushTask, IsTask
      <3> HIDE DEF u
      <3> QED BY <2>1, <3>1
    <2>2. CASE UNCHANGED server /\ tasks' = (tasks \ {t}) \cup {[t EXCEPT !.wire = "failed"]}
      <3> DEFINE u == [t EXCEPT !.wire = "failed"]
      <3>1. /\ IsTask(u) /\ u.fn = t.fn /\ u.arg = t.arg /\ u.reply = t.reply
            /\ u.wire = "failed" /\ tasks' = (tasks \ {t}) \cup {u}
        BY <1>0, <2>2 DEF PushTask, IsTask
      <3> HIDE DEF u
      <3> QED BY <2>2, <3>1
    <2> QED BY <2>1, <2>2 DEF ServeDrop
  <1>2. /\ server' \in PushServer /\ server'.spent = server.spent
        /\ \A e \in Endpoints : server'.rows[e] # server.rows[e] =>
             /\ e = t.reply /\ u.wire = "ok"
             /\ server.rows[e] = t.arg /\ server'.rows[e] = None
        /\ u.wire = "ok" /\ server.rows[t.reply] = t.arg => server'.rows[t.reply] = None
    <2>1. server \in PushServer /\ t.reply \in Endpoints
      BY <1>0 DEF PushInv, PushTypes, PushTask, PushServer
    <2>2. CASE u.wire = "failed"
      BY <1>1, <2>1, <2>2
    <2>3. CASE u.wire = "ok"
      <3>1. server' = [server EXCEPT !.rows[t.reply] = IF @ = t.arg THEN None ELSE @]
        BY <1>1, <2>3
      <3> QED BY <2>1, <2>3, <3>1 DEF PushServer
    <2> QED BY <1>1, <2>2, <2>3
  <1>3. PushTypes'
    BY <1>0, <1>2 DEF PushInv, PushTypes, Device
  <1>4. \A v \in tasks' : PushTask(v)'
    BY <1>0, <1>1, <1>2 DEF PushInv, PushTask, Ending
  <1>5. PushAwaited'
    BY <1>0, <1>1 DEF PushInv, PushAwaited
  <1>6. ASSUME ~page'.excused PROVE Calm'
    <2>1. Calm /\ Ends(t) /\ \A v \in tasks : v.fn \notin Renewing
      BY <1>0, <1>6 DEF PushInv, Calm, Calls, Exclusive
    <2>2. t.fn \notin Renewing
      BY <2>1
    <2>3. Exclusive'
      BY <1>1, <2>1, <2>2 DEF Exclusive
    <2>4. Calls'
      <3>1. Ends(u)'
        BY <1>0, <1>1, <1>2, <2>1 DEF Ends, Device, PushTask, PushInv, PushTypes, PushServer
      <3>2. ASSUME NEW v \in tasks, v.fn \in Ending PROVE Ends(v)'
        <4>1. Ends(v) /\ (v.reply # None => v.reply \in Endpoints)
          BY <2>1, <3>2 DEF Calm, Calls, PushInv, PushTask, PushTypes, PushServer
        <4> QED BY <1>0, <1>2, <4>1 DEF Ends, Device
      <3> QED BY <1>1, <2>1, <2>2, <3>1, <3>2 DEF Calls
    <2>5. Device.sub.end # None =>
            /\ server'.rows[Device.sub.end] \in {None, server.rows[Device.sub.end]}
            /\ server'.rows[Device.sub.end] # server.rows[Device.sub.end] =>
                 t.reply = Device.sub.end
      BY <1>2 DEF PushInv, PushTypes, PushPage, Device
    <2>6. Owned'
      BY <1>0, <2>1, <2>5 DEF Calm, Owned, Device
    <2>7. SignedOut' /\ OptedOut'
      <3>1. ASSUME Delivering', NEW v \in tasks, Dropping(v)
            PROVE  \E w \in tasks' : Dropping(w)'
        <4>1. CASE v = t
          <5>1. u.wire = "failed"
            BY <1>0, <1>1, <1>2, <2>1, <2>5, <3>1, <4>1 DEF Delivering, Dropping, Device,
                                                            Ends
          <5> QED BY <1>0, <1>1, <3>1, <4>1, <5>1 DEF Dropping, Device
        <4>2. CASE v # t
          BY <1>0, <1>1, <3>1, <4>2 DEF Dropping, Device
        <4> QED BY <4>1, <4>2
      <3>2. Delivering' => Delivering
        BY <1>0, <2>5 DEF Delivering, Device
      <3>3. \A v \in tasks : v.fn # "save"
        BY <2>1 DEF Renewing
      <3> QED BY <1>0, <2>1, <3>1, <3>2, <3>3 DEF Calm, SignedOut, OptedOut, Device
    <2> QED BY <2>3, <2>4, <2>6, <2>7 DEF Calm
  <1> QED BY <1>3, <1>4, <1>5, <1>6 DEF PushInv

LEMMA UnsubscribeKeeps ==
  ASSUME PushInv, NEW t \in tasks, NEW ok \in BOOLEAN, Unsubscribe(t, ok)
  PROVE  PushInv'
  <1>0. /\ t.fn \in Ending /\ t.wire \in {"ok", "failed"} /\ t.reply # None /\ PushTask(t)
        /\ tasks' = tasks \ {t} /\ UNCHANGED <<server, stale>>
    BY DEF Unsubscribe, End, PushInv, PushTask, IsTask
  <1> DEFINE mine == t.fn = "turnOff" /\ t.arg = page.user
             given == ok /\ Device.sub.end = t.reply
  <1>1. /\ page' \in PushPage
        /\ page'.device.sub = IF given THEN NoSub ELSE page.device.sub
        /\ page'.device.perm = page.device.perm
        /\ page'.device.optedOut = page.device.optedOut
        /\ page'.user = IF t.fn = "logout" THEN None ELSE page.user
        /\ page'.busy => page.busy /\ ~mine
        /\ ~page'.excused => ~page.excused /\ (ok \/ t.wire = "ok")
    <2> DEFINE sub == IF given THEN NoSub ELSE page.device.sub
               excused == page.excused \/ (~ok /\ t.wire = "failed")
               user == IF t.fn = "logout" THEN None ELSE page.user
               busy == page.busy /\ ~mine
               hook == IF mine THEN "off" ELSE page.hook
    <2>1. page' = [page EXCEPT !.device.sub = sub, !.excused = excused, !.user = user,
                               !.busy = busy, !.hook = hook]
      BY DEF Unsubscribe, Mounted, Device
    <2>2. page \in PushPage
      BY DEF PushInv, PushTypes
    <2>3. /\ sub \in [end : Endpoints \cup {None}, key : {None, "old", "new"}]
          /\ excused \in BOOLEAN /\ user \in Owners \cup {None} /\ busy \in BOOLEAN
          /\ hook \in {"loading", "on", "off", "blocked", "hidden"}
      BY <2>2 DEF PushPage, NoSub
    <2> HIDE DEF sub, excused, user, busy, hook
    <2>4. /\ page' \in PushPage /\ page'.device.sub = sub /\ page'.excused = excused
          /\ page'.device.perm = page.device.perm /\ page'.user = user /\ page'.busy = busy
          /\ page'.device.optedOut = page.device.optedOut
      BY <2>1, <2>2, <2>3 DEF PushPage
    <2> QED BY <1>0, <2>4 DEF sub, excused, user, busy
  <1> HIDE DEF mine
  <1>2. PushTypes' /\ \A v \in tasks' : PushTask(v)'
    BY <1>0, <1>1 DEF PushInv, PushTypes, PushTask, Device, NoSub
  <1>3. PushAwaited'
    BY <1>0, <1>1 DEF PushInv, PushAwaited, mine, Ending
  <1>4. ASSUME ~page'.excused PROVE Calm'
    <2>1. Calm /\ Ends(t) /\ \A v \in tasks : v.fn \notin Renewing
      BY <1>0, <1>1, <1>4 DEF PushInv, Calm, Calls, Exclusive
    <2>2. Exclusive'
      BY <1>0, <2>1 DEF Exclusive
    <2>3. Calls'
      BY <1>0, <1>1, <2>1 DEF Calm, Calls, Ends, Device, NoSub
    <2>4. Owned'
      BY <1>0, <1>1, <2>1 DEF Calm, Owned, Device, NoSub
    <2>5. ASSUME Delivering', NEW v \in tasks, Dropping(v)
          PROVE  \E w \in tasks' : Dropping(w)'
      <3>1. ~given /\ Device'.sub = Device.sub
        BY <1>1, <2>5 DEF Delivering, Device, NoSub
      <3>2. v # t
        BY <1>0, <1>1, <1>4, <2>5, <3>1 DEF Dropping
      <3> QED BY <1>0, <2>5, <3>1, <3>2 DEF Dropping, Device
    <2>6. Delivering' => Delivering /\ ~given
      BY <1>0, <1>1 DEF Delivering, Device, NoSub
    <2>7. Delivering' => t.fn # "logout"
      BY <1>0, <1>1, <1>4, <2>1, <2>6 DEF Delivering, Ends, Device
    <2>8. SignedOut' /\ OptedOut'
      <3>1. \A v \in tasks : v.fn # "save"
        BY <2>1 DEF Renewing
      <3> QED BY <1>0, <1>1, <2>1, <2>5, <2>6, <2>7, <3>1 DEF Calm, SignedOut, OptedOut,
                                                              Device
    <2> QED BY <2>2, <2>3, <2>4, <2>8 DEF Calm
  <1> QED BY <1>2, <1>3, <1>4 DEF PushInv

LEMMA LogoutGoesOnKeeps ==
  ASSUME PushInv, NEW t \in tasks, LogoutGoesOn(t)
  PROVE  PushInv'
  <1>0. /\ t.fn = "logout" /\ t.wire = "sent" /\ PushTask(t)
        /\ UNCHANGED <<server, stale>>
    BY DEF LogoutGoesOn, Awaiting, PushInv
  <1>1. /\ page' \in PushPage /\ page'.user = None /\ page'.device = page.device
        /\ page'.excused = page.excused
    BY DEF LogoutGoesOn, PushInv, PushTypes, PushPage
  <1>2. PICK new : /\ tasks' = (tasks \ {t}) \cup new /\ (t.reply # None => new # {})
                   /\ \A u \in new : /\ IsTask(u) /\ u.fn = "drop" /\ u.arg = t.arg
                                     /\ u.wire = "sent" /\ u.reply = t.reply
    <2> DEFINE u == [t EXCEPT !.fn = "drop"]
    <2>1. /\ IsTask(u) /\ u.fn = "drop" /\ u.arg = t.arg /\ u.wire = "sent"
          /\ u.reply = t.reply
      BY <1>0 DEF PushTask, IsTask
    <2> HIDE DEF u
    <2> DEFINE new == IF t.reply = None THEN {} ELSE {u}
    <2>2. tasks' = (tasks \ {t}) \cup new
      BY DEF LogoutGoesOn, End, GoOn, u
    <2>3. (t.reply # None => new # {}) /\ \A v \in new : v = u
      OBVIOUS
    <2> HIDE DEF new
    <2> QED BY <2>1, <2>2, <2>3
  <1>3. PushTypes'
    BY <1>0, <1>1 DEF PushInv, PushTypes, Device
  <1>4. \A v \in tasks' : PushTask(v)'
    BY <1>0, <1>2 DEF PushInv, PushTask, Ending, Renewing
  <1>5. PushAwaited'
    BY <1>1 DEF PushAwaited
  <1>6. ASSUME ~page'.excused PROVE Calm'
    <2>1. Calm /\ Ends(t) /\ \A v \in tasks : v.fn \notin Renewing
      BY <1>0, <1>1, <1>6 DEF PushInv, Calm, Calls, Exclusive, Ending
    <2>2. Exclusive'
      BY <1>2, <2>1 DEF Exclusive, Renewing
    <2>3. Calls'
      BY <1>0, <1>1, <1>2, <2>1 DEF Calm, Calls, Ends, Device, Renewing, Ending
    <2>4. Owned'
      BY <1>0, <1>1, <2>1 DEF Calm, Owned, Device
    <2>5. ASSUME Delivering' PROVE \E w \in tasks' : Dropping(w)'
      <3>1. t.reply = Device.sub.end /\ Device.sub.end # None
        BY <1>0, <1>1, <2>1, <2>5 DEF Delivering, Device, Ends
      <3>2. PICK w \in new : TRUE
        BY <1>2, <3>1
      <3> QED BY <1>1, <1>2, <3>1, <3>2 DEF Dropping, Device, Ending
    <2>6. SignedOut' /\ OptedOut'
      BY <1>1, <2>5 DEF SignedOut, OptedOut
    <2> QED BY <2>2, <2>3, <2>4, <2>6 DEF Calm
  <1> QED BY <1>3, <1>4, <1>5, <1>6 DEF PushInv

LEMMA PushKept ==
  ASSUME PushInv, PushNext
  PROVE  PushInv'
  <1>1. CASE (\E u \in Owners : SignIn(u)) \/ TurnOn \/ TurnOff \/ SignOut
    BY <1>1, SignInKeeps, TurnOnKeeps, TurnOffKeeps, SignOutKeeps
  <1>2. ASSUME NEW t \in tasks,
               \/ \E perm \in {"default", "granted", "denied"} : AnswerPrompt(t, perm)
               \/ PromptReturns(t) \/ ResumeReturns(t) \/ ServePush(t) \/ SaveReturns(t)
               \/ ConfigReturns(t) \/ ServeDrop(t)
               \/ \E ok \in BOOLEAN : Unsubscribe(t, ok)
               \/ LogoutGoesOn(t)
        PROVE  PushInv'
    <2>1. CASE \E perm \in {"default", "granted", "denied"} : AnswerPrompt(t, perm)
      BY <2>1, AnswerPromptKeeps
    <2>2. CASE PromptReturns(t) \/ ResumeReturns(t) \/ ServePush(t) \/ SaveReturns(t)
      BY <2>2, PromptReturnsKeeps, ResumeReturnsKeeps, ServePushKeeps, SaveReturnsKeeps
    <2>3. CASE ConfigReturns(t) \/ ServeDrop(t) \/ LogoutGoesOn(t)
      BY <2>3, ConfigReturnsKeeps, ServeDropKeeps, LogoutGoesOnKeeps
    <2>4. CASE \E ok \in BOOLEAN : Unsubscribe(t, ok)
      BY <2>4, UnsubscribeKeeps
    <2> QED BY <1>2, <2>1, <2>2, <2>3, <2>4
  <1> QED BY <1>1, <1>2 DEF PushNext

PushRest == NoNoticesAfterLogout /\ OptOutKept
LEMMA PushHolds ==
  ASSUME PushInv
  PROVE  PushRest
  <1> SUFFICES ASSUME tasks = {}, ~page.excused PROVE PushRest
    BY DEF PushRest, NoNoticesAfterLogout, OptOutKept
  <1>1. Owned /\ SignedOut /\ OptedOut
    BY DEF PushInv, Calm
  <1>2. \A u \in Owners : Delivers(u) => Delivering
    BY PushAssumption DEF PushAssumption, Delivers, Delivering
  <1> QED BY <1>1, <1>2 DEF PushRest, NoNoticesAfterLogout, OptOutKept, SignedOut, OptedOut

LEMMA PushIdle == PushInv /\ UNCHANGED vars => PushInv'
  BY DEF vars, PushInv, PushTypes, PushAwaited, PushTask, Calm, Exclusive, Calls, Renews,
         Ends, Owned, SignedOut, OptedOut, Delivers, Delivering, Dropping, Device

------------------------------------------------------------------------------
\* The switch: what the device and the tasks under way hold in a session that
\* began with nothing under way, whose renewal has not failed, and that is not
\* being left.

\* A subscription needs the permission, which is not taken back.
Permitted ==
  /\ Device.sub.end # None => Device.perm = "granted"
  /\ \A t \in tasks : t.fn = "resume" \/ (t.fn = "prompt" /\ t.wire = "ok" /\ t.reply = "granted")
                        => Device.perm = "granted"
Confident == page.user # None /\ ~page.doubt /\ \A t \in tasks : t.fn # "logout"
\* One flag isBusy, for one of these at a time.
Switches(t) == t.fn \in {"prompt", "save", "turnOff"}
Renewed(t) ==
  t.wire # "failed" => /\ t.reply = Device.sub.end /\ Device.sub.key = "new"
                       /\ t.wire = "ok" => server.rows[t.reply] = page.user
SwitchTask(t) ==
  /\ t.arg = page.user /\ t.fn # "drop"
  /\ Switches(t) => page.busy /\ page.hook # "loading"
  /\ t.fn = "config" => page.hook = "loading"
  /\ t.fn \in {"prompt", "save"} => page.hook # "on"
  /\ t.fn = "turnOff" => Device.optedOut
  /\ t.fn = "save" => Renewed(t)
SwitchTasks ==
  /\ \A t \in tasks : SwitchTask(t)
  /\ \A s, t \in tasks : Switches(s) /\ Switches(t) => s = t
  /\ \A s, t \in tasks : s.fn = "config" /\ t.fn = "config" => s = t
\* Notices reach who is signed in, or will: the renewal is under way.
Honest ==
  page.hook \in {"on", "loading"} /\ ~Device.optedOut =>
    /\ page.hook = "on" => Device.sub.end # None
    /\ Device.sub.end # None =>
         \/ Delivers(page.user)
         \/ \E t \in tasks : t.fn = "resume" \/ (t.fn = "resumeSave" /\ Renewed(t))
SwitchInv == Permitted /\ (Confident => SwitchTasks /\ Honest)

LEMMA SwitchBegins == PushInit => SwitchInv
  BY DEF PushInit, SwitchInv, Permitted, Confident, Device, NoSub

LEMMA SignInHonest ==
  ASSUME PushInv, SwitchInv, NEW u \in Owners, SignIn(u)
  PROVE  SwitchInv'
  <1> DEFINE c == New("config", u)
             r == New("resume", u)
  <1>1. /\ c.fn = "config" /\ c.arg = u /\ c.wire = "sent"
        /\ r.fn = "resume" /\ r.arg = u /\ r.wire = "sent"
    BY NewTask
  <1>2. /\ page' = [page EXCEPT !.user = u, !.hook = "loading", !.failed = FALSE,
                                !.busy = FALSE, !.excused = Overlap(Ending),
                                !.doubt = tasks # {}]
        /\ tasks' = tasks \cup {c} \cup
             IF Device.perm = "granted" /\ ~Device.optedOut THEN {r} ELSE {}
        /\ UNCHANGED <<server, stale>>
    BY DEF SignIn
  <1> HIDE DEF c, r
  <1>3. /\ page'.device = page.device /\ page'.user = u /\ page'.hook = "loading"
        /\ ~page'.doubt => tasks = {}
    BY <1>2 DEF PushInv, PushTypes, PushPage
  <1>4. Permitted'
    BY <1>1, <1>2, <1>3 DEF SwitchInv, Permitted, Device
  <1>5. ASSUME Confident' PROVE SwitchTasks' /\ Honest'
    <2>1. /\ \A t \in tasks' : t \in {c, r}
          /\ Device.perm = "granted" /\ ~Device.optedOut => r \in tasks'
      BY <1>2, <1>3, <1>5 DEF Confident
    <2>2. SwitchTasks'
      BY <1>1, <1>3, <2>1 DEF SwitchTasks, SwitchTask, Switches
    <2>3. Honest'
      BY <1>1, <1>3, <2>1 DEF SwitchInv, Permitted, Honest, Device
    <2> QED BY <2>2, <2>3
  <1> QED BY <1>4, <1>5 DEF SwitchInv

LEMMA TurnOnHonest ==
  ASSUME PushInv, SwitchInv, TurnOn
  PROVE  SwitchInv'
  <1>1. PICK p : Fresh(p, "prompt", page.user) /\ tasks' = tasks \cup {p}
    BY TapStarts DEF TurnOn
  <1>2. /\ page'.device = page.device /\ page'.user = page.user /\ page'.hook = page.hook
        /\ page'.doubt = page.doubt /\ page'.busy /\ page.hook = "off" /\ ~page.busy
        /\ UNCHANGED server
    BY DEF TurnOn, PushInv, PushTypes, PushPage
  <1>3. Permitted'
    BY <1>1, <1>2 DEF SwitchInv, Permitted, Device, Fresh
  <1>4. ASSUME Confident' PROVE SwitchTasks' /\ Honest'
    <2>1. SwitchTasks /\ \A t \in tasks : ~Switches(t)
      BY <1>1, <1>2, <1>4 DEF SwitchInv, Confident, SwitchTasks, SwitchTask
    <2>2. \A t \in tasks' : SwitchTask(t)'
      BY <1>1, <1>2, <2>1 DEF SwitchTasks, SwitchTask, Switches, Fresh, Device
    <2>3. SwitchTasks'
      BY <1>1, <2>1, <2>2 DEF SwitchTasks, Switches, Fresh
    <2>4. Honest'
      BY <1>2 DEF Honest
    <2> QED BY <2>3, <2>4
  <1> QED BY <1>3, <1>4 DEF SwitchInv

LEMMA TurnOffHonest ==
  ASSUME PushInv, SwitchInv, TurnOff
  PROVE  SwitchInv'
  <1>1. /\ page'.user = page.user /\ page'.doubt = page.doubt
        /\ page'.device.sub = page.device.sub /\ page'.device.perm = page.device.perm
        /\ page'.device.optedOut /\ (Device.sub.end # None => page'.busy)
        /\ page'.hook # "loading" /\ page.hook = "on" /\ ~page.busy /\ UNCHANGED server
    <2> DEFINE hook == IF Device.sub.end = None THEN "off" ELSE page.hook
               busy == Device.sub.end # None
               excused == Overlap(Renewing)
    <2>1. page' = [page EXCEPT !.failed = FALSE, !.device.optedOut = TRUE, !.busy = busy,
                     !.excused = excused, !.hook = hook]
      BY DEF TurnOff
    <2>2. page.hook = "on" /\ ~page.busy /\ UNCHANGED server /\ page \in PushPage
      BY DEF TurnOff, PushInv, PushTypes
    <2>3. (Device.sub.end # None => busy) /\ hook \in {"off", page.hook}
      OBVIOUS
    <2> HIDE DEF hook, busy, excused
    <2>4. /\ page'.device.sub = page.device.sub /\ page'.device.perm = page.device.perm
          /\ page'.device.optedOut /\ page'.user = page.user /\ page'.doubt = page.doubt
          /\ page'.busy = busy /\ page'.hook = hook
      BY <2>1, <2>2 DEF PushPage
    <2> QED BY <2>2, <2>3, <2>4
  <1>2. PICK new : /\ tasks' = tasks \cup new /\ (new # {} => Device.sub.end # None)
                   /\ \A u \in new : u.fn = "turnOff" /\ u.arg = page.user
                   /\ \A u, v \in new : u = v
    <2> DEFINE n == New("turnOff", page.user)
               u == [n EXCEPT !.reply = Device.sub.end]
    <2>1. IsTask(n) /\ n.fn = "turnOff" /\ n.arg = page.user
      BY NewTask
    <2> HIDE DEF n
    <2>2. u.fn = "turnOff" /\ u.arg = page.user
      BY <2>1 DEF IsTask
    <2> HIDE DEF u
    <2> DEFINE new == IF Device.sub.end = None THEN {} ELSE {u}
    <2>3. tasks' = tasks \cup new
      BY DEF TurnOff, Start, n, u
    <2>4. (new # {} => Device.sub.end # None) /\ \A v \in new : v = u
      OBVIOUS
    <2> HIDE DEF new
    <2> QED BY <2>2, <2>3, <2>4
  <1>3. Permitted'
    BY <1>1, <1>2 DEF SwitchInv, Permitted, Device
  <1>4. ASSUME Confident' PROVE SwitchTasks' /\ Honest'
    <2>1. SwitchTasks /\ \A t \in tasks : ~Switches(t) /\ t.fn # "config"
      BY <1>1, <1>2, <1>4 DEF SwitchInv, Confident, SwitchTasks, SwitchTask
    <2>2. ASSUME NEW t \in tasks' PROVE SwitchTask(t)'
      <3>1. CASE t \in tasks
        BY <1>1, <2>1, <3>1 DEF SwitchTasks, SwitchTask, Switches
      <3>2. CASE t \in new
        BY <1>1, <1>2, <3>2 DEF SwitchTask, Device
      <3> QED BY <1>2, <3>1, <3>2
    <2>3. SwitchTasks'
      BY <1>2, <2>1, <2>2 DEF SwitchTasks, Switches
    <2>4. Honest'
      BY <1>1 DEF Honest, Device
    <2> QED BY <2>3, <2>4
  <1> QED BY <1>3, <1>4 DEF SwitchInv

\* Being left, the session is not looked at.
LEMMA LeavingHonest ==
  ASSUME PushInv, SwitchInv, SignOut \/ \E t \in tasks : LogoutGoesOn(t)
  PROVE  SwitchInv'
  <1>1. CASE SignOut
    <2> DEFINE n == New("logout", page.user)
               u == [n EXCEPT !.reply = Device.sub.end]
    <2>1. IsTask(n) /\ n.fn = "logout"
      BY NewTask
    <2> HIDE DEF n
    <2>2. u.fn = "logout"
      BY <2>1 DEF IsTask
    <2>3. tasks' = tasks \cup {u} /\ page'.device = page.device
      BY <1>1 DEF SignOut, Start, n, PushInv, PushTypes, PushPage
    <2> HIDE DEF u
    <2> QED BY <2>2, <2>3 DEF SwitchInv, Permitted, Confident, Device
  <1>2. ASSUME NEW t \in tasks, LogoutGoesOn(t) PROVE SwitchInv'
    <2> DEFINE u == [t EXCEPT !.fn = "drop"]
    <2>1. IsTask(t) /\ u.fn = "drop"
      BY DEF PushInv, PushTask, IsTask
    <2> HIDE DEF u
    <2>2. page'.device = page.device /\ page'.user = None /\ tasks' \subseteq tasks \cup {u}
      BY <1>2 DEF LogoutGoesOn, End, GoOn, u, PushInv, PushTypes, PushPage
    <2> QED BY <2>1, <2>2 DEF SwitchInv, Permitted, Confident, Device
  <1> QED BY <1>1, <1>2

\* t gives way to u, and the session is no better known than before.
LEMMA Before ==
  ASSUME SwitchInv, NEW t \in tasks, NEW new, tasks' = (tasks \ {t}) \cup new,
         t.fn = "logout" => \E u \in new : u.fn = "logout",
         page'.user = page.user, page.doubt => page'.doubt, Confident'
  PROVE  SwitchTasks /\ Honest /\ Confident
  BY DEF SwitchInv, Confident

LEMMA AnswerPromptHonest ==
  ASSUME PushInv, SwitchInv, NEW t \in tasks, NEW perm \in {"default", "granted", "denied"},
         AnswerPrompt(t, perm)
  PROVE  SwitchInv'
  <1> DEFINE u == [t EXCEPT !.wire = "ok", !.reply = perm]
  <1>0. PushTask(t) /\ t.fn = "prompt" /\ t.wire = "sent"
    BY DEF PushInv, AnswerPrompt, Awaiting
  <1>1. u.fn = "prompt" /\ u.arg = t.arg /\ u.wire = "ok" /\ u.reply = perm
    BY <1>0 DEF PushTask, IsTask
  <1>2. /\ page' = [page EXCEPT !.device.perm = perm]
        /\ tasks' = (tasks \ {t}) \cup {u} /\ UNCHANGED server
        /\ page.device.perm # "default" => perm = page.device.perm
    BY DEF AnswerPrompt, Answered, GoOn, Device
  <1> HIDE DEF u
  <1>3. /\ page'.device.perm = perm /\ page'.doubt = page.doubt
        /\ page'.device.optedOut = page.device.optedOut /\ page'.device.sub = page.device.sub
        /\ page'.user = page.user /\ page'.hook = page.hook /\ page'.busy = page.busy
    BY <1>2 DEF PushInv, PushTypes, PushPage
  <1>4. Permitted'
    BY <1>1, <1>2, <1>3 DEF SwitchInv, Permitted, Device
  <1>5. ASSUME Confident' PROVE SwitchTasks' /\ Honest'
    <2>1. SwitchTasks
      BY <1>0, <1>2, <1>3, <1>5, Before
    <2>2. \A v \in tasks' : SwitchTask(v)'
      BY <1>0, <1>1, <1>2, <1>3, <2>1 DEF SwitchTasks, SwitchTask, Switches, Renewed, Device
    <2>3. SwitchTasks'
      BY <1>0, <1>1, <1>2, <2>1, <2>2 DEF SwitchTasks, Switches
    <2>4. Honest'
      BY <1>0, <1>3, <2>1 DEF SwitchTasks, SwitchTask, Switches, Honest
    <2> QED BY <2>3, <2>4
  <1> QED BY <1>4, <1>5 DEF SwitchInv

LEMMA SubscribeHonest ==
  ASSUME PushInv, SwitchInv, NEW t \in tasks, NEW save \in {"save", "resumeSave"},
         Subscribe(t, save), t.wire = "ok",
         \/ t.fn = "prompt" /\ t.reply = "granted" /\ save = "save"
         \/ t.fn = "resume" /\ save = "resumeSave"
  PROVE  SwitchInv'
  <1>1. PICK sub : /\ sub = IF Usable THEN Device.sub
                            ELSE [end |-> CHOOSE e \in FreshEndpoints : TRUE, key |-> "new"]
                   /\ page' = [page EXCEPT !.device.sub = sub]
                   /\ server' = [server EXCEPT !.spent = @ \cup {sub.end}]
                   /\ GoOn(t, [New(save, page.user) EXCEPT !.reply = sub.end])
    BY DEF Subscribe
  <1>2. sub.key = "new" /\ (Usable => sub = Device.sub)
    BY <1>1 DEF Usable
  <1>3. PICK new : /\ IsTask(new) /\ new.fn = save /\ new.arg = page.user /\ new.wire = "sent"
                   /\ new.reply = sub.end /\ tasks' = (tasks \ {t}) \cup {new}
    <2> DEFINE n == New(save, page.user)
               m == [n EXCEPT !.reply = sub.end]
    <2>1. IsTask(n) /\ n.fn = save /\ n.arg = page.user /\ n.wire = "sent"
      BY NewTask
    <2> HIDE DEF n
    <2>2. IsTask(m) /\ m.fn = save /\ m.arg = page.user /\ m.wire = "sent" /\ m.reply = sub.end
      BY <2>1 DEF IsTask
    <2>3. tasks' = (tasks \ {t}) \cup {m}
      BY <1>1 DEF GoOn, n
    <2> HIDE DEF m
    <2> QED BY <2>2, <2>3
  <1>4. /\ page'.device.sub = sub /\ page'.device.perm = page.device.perm
        /\ page'.device.optedOut = page.device.optedOut /\ page'.doubt = page.doubt
        /\ page'.user = page.user /\ page'.hook = page.hook /\ page'.busy = page.busy
    BY <1>1 DEF PushInv, PushTypes, PushPage
  <1>5. server'.rows = server.rows
    BY <1>1 DEF PushInv, PushTypes, PushServer
  <1>6. Permitted'
    BY <1>3, <1>4 DEF SwitchInv, Permitted, Device
  <1>7. ASSUME Confident' PROVE SwitchTasks' /\ Honest'
    <2>1. SwitchTasks /\ Honest
      BY <1>3, <1>4, <1>7, Before
    <2>2. ASSUME NEW v \in tasks, v.fn = "save" PROVE Renewed(v)'
      <3>1. PushTask(v) /\ Renewed(v)
        BY <2>1, <2>2 DEF PushInv, SwitchTasks, SwitchTask
      <3>2. v.wire # "failed" => Usable
        BY <2>2, <3>1, PushAssumption DEF PushInv, PushTypes, PushServer, PushTask, Renewed,
                                          Usable, PushAssumption
      <3> QED BY <1>2, <1>4, <1>5, <3>1, <3>2 DEF Renewed, Device
    <2>3. Renewed(new)'
      BY <1>2, <1>3, <1>4 DEF Renewed, Device
    <2>4. ASSUME NEW v \in tasks' PROVE SwitchTask(v)'
      <3>1. CASE v \in tasks
        BY <1>4, <2>1, <2>2, <3>1 DEF SwitchTasks, SwitchTask, Switches, Device
      <3>2. CASE v = new
        BY <1>3, <1>4, <2>1, <2>3, <3>2 DEF SwitchTasks, SwitchTask, Switches, Device
      <3> QED BY <1>3, <3>1, <3>2
    <2>5. SwitchTasks'
      BY <1>3, <2>1, <2>4 DEF SwitchTasks, Switches
    <2>6. Honest'
      <3>1. CASE t.fn = "prompt"
        BY <1>4, <2>1, <3>1 DEF SwitchTasks, SwitchTask, Switches, Honest
      <3>2. CASE t.fn = "resume"
        <4>1. new \in tasks' /\ new.fn = "resumeSave"
          BY <1>3, <3>2
        <4>2. page.hook = "on" /\ ~Device.optedOut => Device'.sub.end # None
          <5>1. CASE Usable
            BY <1>2, <1>4, <5>1 DEF Usable, Device
          <5>2. CASE ~Usable
            <6>1. (CHOOSE e \in FreshEndpoints : TRUE) \in FreshEndpoints
              BY <5>2 DEF Subscribe
            <6> QED BY <1>1, <1>4, <5>2, <6>1, PushAssumption
                    DEF FreshEndpoints, Device, PushAssumption
          <5> QED BY <5>1, <5>2
        <4> QED BY <1>4, <2>3, <4>1, <4>2 DEF Honest, Device
      <3> QED BY <3>1, <3>2
    <2> QED BY <2>5, <2>6
  <1> QED BY <1>6, <1>7 DEF SwitchInv

LEMMA SubscribeFailsHonest ==
  ASSUME PushInv, SwitchInv, NEW t \in tasks, SubscribeFails(t), t.wire = "ok",
         t.fn = "prompt" \/ t.fn = "resume"
  PROVE  SwitchInv'
  <1>0. page \in PushPage /\ tasks' = tasks \ {t} /\ UNCHANGED server /\ ~Usable
    BY DEF SubscribeFails, PushInv, PushTypes, End
  <1>1. PICK sub \in {Device.sub, NoSub} :
          page' = IF t.fn = "prompt"
            THEN [page EXCEPT !.device.sub = sub, !.failed = @ \/ Mounted(t),
                              !.busy = @ /\ ~Mounted(t)]
            ELSE [page EXCEPT !.device.sub = sub, !.doubt = TRUE]
    BY DEF SubscribeFails
  <1>2. /\ page'.device.sub = sub /\ page'.device.perm = page.device.perm
        /\ page'.device.optedOut = page.device.optedOut /\ page'.user = page.user
        /\ page'.hook = page.hook /\ (page.doubt => page'.doubt)
        /\ t.fn = "resume" => page'.doubt
    BY <1>0, <1>1 DEF PushPage
  <1>3. Permitted'
    BY <1>0, <1>2 DEF SwitchInv, Permitted, Device, NoSub
  <1>4. ASSUME Confident' PROVE SwitchTasks' /\ Honest'
    <2>1. t.fn = "prompt"
      BY <1>2, <1>4 DEF Confident
    <2>2. SwitchTasks
      BY <1>0, <1>2, <1>4, <2>1, Before
    <2>3. \A v \in tasks' : SwitchTask(v)' /\ ~Switches(v)
      BY <1>0, <1>2, <2>1, <2>2 DEF SwitchTasks, SwitchTask, Switches
    <2>4. SwitchTasks'
      BY <1>0, <2>2, <2>3 DEF SwitchTasks, Switches
    <2>5. Honest'
      BY <1>2, <2>1, <2>2 DEF SwitchTasks, SwitchTask, Switches, Honest
    <2> QED BY <2>4, <2>5
  <1> QED BY <1>3, <1>4 DEF SwitchInv

LEMMA PromptReturnsHonest ==
  ASSUME PushInv, SwitchInv, NEW t \in tasks, PromptReturns(t)
  PROVE  SwitchInv'
  <1>1. CASE t.reply = "granted" /\ Subscribe(t, "save")
    BY <1>1, SubscribeHonest DEF PromptReturns, Returned
  <1>2. CASE t.reply = "granted" /\ SubscribeFails(t)
    BY <1>2, SubscribeFailsHonest DEF PromptReturns, Returned
  <1>3. CASE t.reply # "granted"
    <2>1. /\ t.fn = "prompt" /\ tasks' = tasks \ {t} /\ UNCHANGED server
          /\ page' = IF t.arg # page.user THEN page ELSE [page EXCEPT !.busy = FALSE,
                        !.hook = IF t.reply = "denied" THEN "blocked" ELSE "off"]
      BY <1>3 DEF PromptReturns, Returned, End, Mounted
    <2>2. /\ page'.device = page.device /\ page'.user = page.user /\ page'.doubt = page.doubt
          /\ page'.hook \in {page.hook, "blocked", "off"}
      BY <2>1 DEF PushInv, PushTypes, PushPage
    <2>3. Permitted'
      BY <2>1, <2>2 DEF SwitchInv, Permitted, Device
    <2>4. ASSUME Confident' PROVE SwitchTasks' /\ Honest'
      <3>1. SwitchTasks
        BY <2>1, <2>2, <2>4, Before
      <3>2. \A v \in tasks' : /\ SwitchTask(v) /\ ~Switches(v) /\ v.fn # "config"
        BY <2>1, <3>1 DEF SwitchTasks, SwitchTask, Switches
      <3>3. SwitchTasks'
        BY <2>1, <2>2, <3>1, <3>2 DEF SwitchTasks, SwitchTask, Switches
      <3>4. Honest'
        BY <2>1, <2>2, <3>1 DEF SwitchTasks, SwitchTask, Switches, Honest
      <3> QED BY <3>3, <3>4
    <2> QED BY <2>3, <2>4 DEF SwitchInv
  <1> QED BY <1>1, <1>2, <1>3 DEF PromptReturns

LEMMA ResumeReturnsHonest ==
  ASSUME PushInv, SwitchInv, NEW t \in tasks, ResumeReturns(t)
  PROVE  SwitchInv'
  <1>1. CASE Returned(t, "resume") /\ Subscribe(t, "resumeSave")
    BY <1>1, SubscribeHonest DEF Returned
  <1>2. CASE Returned(t, "resume") /\ SubscribeFails(t)
    BY <1>2, SubscribeFailsHonest DEF Returned
  <1>3. CASE Threw(t, "resume") /\ End(t) /\ page' = [page EXCEPT !.doubt = TRUE]
             /\ UNCHANGED <<server, stale>>
    <2>1. page'.device = page.device /\ page'.doubt /\ tasks' = tasks \ {t}
      BY <1>3 DEF PushInv, PushTypes, PushPage, End
    <2> QED BY <2>1 DEF SwitchInv, Permitted, Confident, Device
  <1> QED BY <1>1, <1>2, <1>3 DEF ResumeReturns

LEMMA ServePushHonest ==
  ASSUME PushInv, SwitchInv, NEW t \in tasks, ServePush(t)
  PROVE  SwitchInv'
  <1> DEFINE after == IF t.fn \in {"save", "resumeSave"}
                        THEN [server EXCEPT !.rows[t.reply] = t.arg] ELSE server
             accepts == t.fn \in {"save", "resumeSave"} => t.arg # None
             reply == IF t.fn \in {"save", "resumeSave"} THEN t.reply ELSE None
             saving == t.fn \in {"save", "resumeSave"}
  <1>0. /\ t.fn \in {"config", "resume", "save", "resumeSave"} /\ t.wire = "sent"
        /\ PushTask(t) /\ Serve(t, accepts, after, reply)
    BY DEF PushInv, ServePush, Awaiting
  <1> HIDE DEF after, accepts, reply
  <1>1. PICK u : /\ IsTask(u) /\ u.fn = t.fn /\ u.arg = t.arg
                 /\ tasks' = (tasks \ {t}) \cup {u}
                 /\ u.wire \in {"ok", "failed"}
                 /\ u.wire = "ok" => accepts /\ server' = after /\ u.reply = reply
    BY <1>0, Served DEF PushTask
  <1>2. UNCHANGED page /\ (server' # server => accepts /\ server' = after)
    BY <1>0, Served DEF PushTask
  <1>3. saving => t.reply \in server.spent /\ t.reply \in Endpoints
    BY <1>0 DEF PushInv, PushTypes, PushServer, PushTask
  <1>4. /\ \A e \in Endpoints : server'.rows[e] # server.rows[e] =>
             saving /\ server'.rows[e] = t.arg
        /\ u.wire = "ok" /\ saving => server'.rows[t.reply] = t.arg /\ u.reply = t.reply
    <2>1. server \in PushServer
      BY DEF PushInv, PushTypes
    <2>2. CASE server' = server /\ u.wire = "failed"
      BY <2>2
    <2>3. CASE saving /\ server' = after
      <3>1. server' = [server EXCEPT !.rows[t.reply] = t.arg] /\ reply = t.reply
        BY <2>3 DEF after, reply
      <3>2. \A e \in Endpoints : server'.rows[e] = IF e = t.reply THEN t.arg ELSE server.rows[e]
        BY <1>3, <2>1, <2>3, <3>1 DEF PushServer
      <3> QED BY <1>1, <1>3, <2>3, <3>1, <3>2
    <2>4. CASE ~saving
      <3>1. server' = server
        BY <1>1, <1>2, <2>4 DEF after
      <3> QED BY <2>4, <3>1
    <2> QED BY <1>1, <1>2, <2>2, <2>3, <2>4
  <1>5. Permitted'
    BY <1>0, <1>1, <1>2 DEF SwitchInv, Permitted, Device
  <1>6. ASSUME Confident' PROVE SwitchTasks' /\ Honest'
    <2>1. SwitchTasks /\ Honest /\ t.arg = page.user
      <3>1. SwitchTasks /\ Honest
        BY <1>0, <1>1, <1>2, <1>6, Before
      <3> QED BY <3>1 DEF SwitchTasks, SwitchTask
    <2>2. ASSUME NEW v \in tasks, Renewed(v), v.fn \in {"save", "resumeSave"}
          PROVE  Renewed(v)'
      <3>1. v.wire # "failed" => v.reply \in Endpoints
        BY <2>2 DEF PushInv, PushTask, PushTypes, PushServer
      <3>2. v.wire # "failed" => server'.rows[v.reply] \in {server.rows[v.reply], page.user}
        BY <1>4, <2>1, <3>1
      <3> QED BY <1>2, <2>2, <3>2 DEF Renewed, Device
    <2>3. saving /\ Renewed(t) => Renewed(u)'
      BY <1>0, <1>1, <1>2, <1>4, <2>1 DEF Renewed, Device
    <2>4. ASSUME NEW v \in tasks' PROVE SwitchTask(v)'
      <3>1. CASE v \in tasks
        BY <1>2, <2>1, <2>2, <3>1 DEF SwitchTasks, SwitchTask, Switches, Device
      <3>2. CASE v = u
        BY <1>1, <1>2, <2>1, <2>3, <3>2 DEF SwitchTasks, SwitchTask, Switches, Device
      <3> QED BY <1>1, <3>1, <3>2
    <2>5. SwitchTasks'
      BY <1>1, <2>1, <2>4 DEF SwitchTasks, Switches
    <2>6. ASSUME Delivers(page.user) PROVE Delivers(page.user)'
      <3>1. Device.sub.end \in Endpoints /\ server.rows[Device.sub.end] = page.user
        BY <2>6 DEF Delivers, Device, PushInv, PushTypes, PushPage
      <3>2. server'.rows[Device.sub.end] = page.user
        BY <1>4, <2>1, <3>1
      <3> QED BY <1>2, <2>6, <3>2 DEF Delivers, Device
    <2>7. ASSUME NEW v \in tasks, v.fn = "resume" \/ (v.fn = "resumeSave" /\ Renewed(v))
          PROVE  \E w \in tasks' : w.fn = "resume" \/ (w.fn = "resumeSave" /\ Renewed(w)')
      <3>1. CASE v = t
        BY <1>1, <2>3, <2>7, <3>1
      <3>2. CASE v # t
        BY <1>1, <2>2, <2>7, <3>2
      <3> QED BY <3>1, <3>2
    <2>8. Honest'
      BY <1>2, <2>1, <2>6, <2>7 DEF Honest, Device
    <2> QED BY <2>5, <2>8
  <1> QED BY <1>5, <1>6 DEF SwitchInv

LEMMA SaveReturnsHonest ==
  ASSUME PushInv, SwitchInv, NEW t \in tasks, SaveReturns(t)
  PROVE  SwitchInv'
  <1>0. /\ t.fn \in {"save", "resumeSave"} /\ t.wire \in {"ok", "failed"} /\ PushTask(t)
        /\ tasks' = tasks \ {t} /\ UNCHANGED server /\ page \in PushPage
    BY DEF SaveReturns, End, PushInv, PushTask, IsTask, PushTypes
  <1>1. CASE t.fn = "resumeSave"
    <2>1. /\ page'.device = page.device /\ page'.user = page.user /\ page'.hook = page.hook
          /\ page'.busy = page.busy /\ (page.doubt => page'.doubt)
          /\ t.wire = "failed" => page'.doubt
      <3>1. page' = [page EXCEPT !.doubt = @ \/ t.wire = "failed"]
        BY <1>1 DEF SaveReturns
      <3> QED BY <1>0, <3>1 DEF PushPage
    <2>2. Permitted'
      BY <1>0, <2>1 DEF SwitchInv, Permitted, Device
    <2>3. ASSUME Confident' PROVE SwitchTasks' /\ Honest'
      <3>1. SwitchTasks /\ Honest /\ t.wire = "ok"
        <4>1. SwitchTasks /\ Honest
          BY <1>0, <2>1, <2>3, Before
        <4> QED BY <1>0, <2>1, <2>3, <4>1 DEF Confident
      <3>2. \A v \in tasks' : SwitchTask(v)'
        BY <1>0, <2>1, <3>1 DEF SwitchTasks, SwitchTask, Switches, Renewed, Device
      <3>3. SwitchTasks'
        BY <1>0, <3>1, <3>2 DEF SwitchTasks, Switches
      <3>4. Renewed(t) => Device.sub.end = t.reply /\ Delivers(page.user)
        BY <1>0, <3>1, PushAssumption DEF Renewed, Delivers, PushTask, PushInv, PushTypes,
                                          PushServer, PushAssumption
      <3>5. ASSUME Device.sub.end # None, page.hook \in {"on", "loading"}, ~Device.optedOut
            PROVE  \/ Delivers(page.user)
                   \/ \E v \in tasks' : v.fn = "resume" \/ (v.fn = "resumeSave" /\ Renewed(v))
        BY <1>0, <1>1, <3>1, <3>4, <3>5 DEF Honest
      <3>6. Honest'
        BY <1>0, <2>1, <3>1, <3>5 DEF Honest, Delivers, Renewed, Device
      <3> QED BY <3>3, <3>6
    <2> QED BY <2>2, <2>3 DEF SwitchInv
  <1>2. CASE t.fn = "save"
    <2>1. /\ page'.user = page.user /\ page'.device.sub = page.device.sub
          /\ page'.device.perm = page.device.perm /\ page'.doubt = page.doubt
          /\ t.wire = "failed" => /\ page'.hook = page.hook
                                  /\ page'.device.optedOut = page.device.optedOut
          /\ t.wire = "ok" => page'.hook \in {page.hook, "on"}
      <3>1. CASE t.wire = "ok"
        <4>1. page' = [page EXCEPT !.hook = IF t.arg = page.user THEN "on" ELSE @,
                         !.busy = @ /\ t.arg # page.user, !.device.optedOut = FALSE]
          BY <1>2, <3>1 DEF SaveReturns, Mounted
        <4> QED BY <1>0, <3>1, <4>1 DEF PushPage
      <3>2. CASE t.wire = "failed"
        <4>1. page' = [page EXCEPT !.failed = @ \/ t.arg = page.user,
                         !.busy = @ /\ t.arg # page.user, !.excused = TRUE]
          BY <1>2, <3>2 DEF SaveReturns, Mounted
        <4> QED BY <1>0, <3>2, <4>1 DEF PushPage
      <3> QED BY <1>0, <3>1, <3>2
    <2>2. Permitted'
      BY <1>0, <2>1 DEF SwitchInv, Permitted, Device
    <2>3. ASSUME Confident' PROVE SwitchTasks' /\ Honest'
      <3>1. SwitchTasks
        BY <1>0, <2>1, <2>3, Before
      <3>2. \A v \in tasks' : SwitchTask(v) /\ ~Switches(v) /\ v.fn # "config"
        BY <1>0, <1>2, <3>1 DEF SwitchTasks, SwitchTask, Switches
      <3>3. \A v \in tasks' : SwitchTask(v)'
        BY <2>1, <3>2 DEF SwitchTask, Switches
      <3>4. SwitchTasks'
        BY <1>0, <3>1, <3>3 DEF SwitchTasks, Switches
      <3>5. Honest'
        <4>1. CASE t.wire = "failed"
          BY <1>0, <1>2, <2>1, <3>1, <4>1 DEF SwitchTasks, SwitchTask, Switches, Honest
        <4>2. CASE t.wire = "ok"
          <5>1. Renewed(t)
            BY <1>2, <3>1 DEF SwitchTasks, SwitchTask
          <5>2. Delivers(page.user)'
            BY <1>0, <2>1, <4>2, <5>1, PushAssumption
            DEF Renewed, Delivers, PushTask, PushInv, PushTypes, PushServer, PushAssumption,
                Device
          <5> QED BY <5>2 DEF Honest, Delivers
        <4> QED BY <1>0, <4>1, <4>2
      <3> QED BY <3>4, <3>5
    <2> QED BY <2>2, <2>3 DEF SwitchInv
  <1> QED BY <1>0, <1>1, <1>2

LEMMA ConfigReturnsHonest ==
  ASSUME PushInv, SwitchInv, NEW t \in tasks, ConfigReturns(t)
  PROVE  SwitchInv'
  <1>0. /\ t.fn = "config" /\ tasks' = tasks \ {t} /\ UNCHANGED server
    BY DEF ConfigReturns, End
  <1>1. /\ page'.user = page.user /\ page'.device = page.device
        /\ page'.busy = page.busy /\ page'.doubt = page.doubt
        /\ \/ page' = page /\ t.arg # page.user
           \/ page'.hook # "loading" /\ (page'.hook = "on" => Device.sub.end # None)
    <2>1. page \in PushPage
      BY DEF PushInv, PushTypes
    <2>2. PICK h \in {"hidden", "blocked", "on", "off"} :
            /\ \/ page' = page /\ t.arg # page.user
               \/ page' = [page EXCEPT !.hook = h]
            /\ h = "on" => Device.sub.end # None
      BY DEF ConfigReturns, Mounted
    <2> QED BY <2>1, <2>2 DEF PushPage
  <1>2. Permitted'
    BY <1>0, <1>1 DEF SwitchInv, Permitted, Device
  <1>3. ASSUME Confident' PROVE SwitchTasks' /\ Honest'
    <2>1. SwitchTasks /\ Honest
      BY <1>0, <1>1, <1>3, Before
    <2>2. t.arg = page.user /\ page.hook = "loading"
          /\ \A v \in tasks' : SwitchTask(v) /\ ~Switches(v) /\ v.fn # "config"
      BY <1>0, <2>1 DEF SwitchTasks, SwitchTask, Switches
    <2>3. \A v \in tasks' : SwitchTask(v)'
      BY <1>0, <1>1, <2>2 DEF SwitchTask, Switches
    <2>4. SwitchTasks'
      BY <1>0, <2>1, <2>3 DEF SwitchTasks, Switches
    <2>5. Honest'
      BY <1>0, <1>1, <2>1, <2>2 DEF Honest, Delivers, Renewed, Device
    <2> QED BY <2>4, <2>5
  <1> QED BY <1>2, <1>3 DEF SwitchInv

LEMMA ServeDropHonest ==
  ASSUME PushInv, SwitchInv, NEW t \in tasks, ServeDrop(t)
  PROVE  SwitchInv'
  <1>0. t.fn \in Ending /\ UNCHANGED page /\ PushTask(t)
    BY DEF ServeDrop, Awaiting, PushInv
  <1>1. PICK wire \in {"ok", "failed"} : tasks' = (tasks \ {t}) \cup {[t EXCEPT !.wire = wire]}
    BY DEF ServeDrop
  <1>2. PICK u : u.fn = t.fn /\ u.arg = t.arg /\ tasks' = (tasks \ {t}) \cup {u}
    <2> DEFINE u == [t EXCEPT !.wire = wire]
    <2>1. u.fn = t.fn /\ u.arg = t.arg
      BY <1>0 DEF PushTask, IsTask
    <2> HIDE DEF u
    <2> QED BY <1>1, <2>1 DEF u
  <1>3. Permitted'
    BY <1>0, <1>2 DEF SwitchInv, Permitted, Device, Ending
  <1>4. ASSUME Confident' PROVE SwitchTasks' /\ Honest'
    <2>1. SwitchTasks /\ t.fn = "turnOff"
      <3>1. SwitchTasks /\ Confident
        BY <1>0, <1>2, <1>4, Before
      <3> QED BY <1>0, <3>1 DEF SwitchTasks, SwitchTask, Confident, Ending
    <2>2. \A v \in tasks' : SwitchTask(v)'
      BY <1>0, <1>2, <2>1 DEF SwitchTasks, SwitchTask, Switches, Device
    <2>3. SwitchTasks'
      BY <1>2, <2>1, <2>2 DEF SwitchTasks, Switches
    <2>4. Honest'
      BY <1>0, <2>1 DEF SwitchTasks, SwitchTask, Honest, Device
    <2> QED BY <2>3, <2>4
  <1> QED BY <1>3, <1>4 DEF SwitchInv

LEMMA UnsubscribeHonest ==
  ASSUME PushInv, SwitchInv, NEW t \in tasks, NEW ok \in BOOLEAN, Unsubscribe(t, ok)
  PROVE  SwitchInv'
  <1>0. t.fn \in Ending /\ tasks' = tasks \ {t} /\ UNCHANGED server /\ page \in PushPage
    BY DEF Unsubscribe, End, PushInv, PushTypes
  <1>1. /\ page'.device.sub \in {page.device.sub, NoSub}
        /\ page'.device.perm = page.device.perm
        /\ page'.device.optedOut = page.device.optedOut /\ page'.doubt = page.doubt
        /\ page'.user = IF t.fn = "logout" THEN None ELSE page.user
    <2> DEFINE sub == IF ok /\ Device.sub.end = t.reply THEN NoSub ELSE page.device.sub
               user == IF t.fn = "logout" THEN None ELSE page.user
               mine == t.fn = "turnOff" /\ t.arg = page.user
               busy == page.busy /\ ~mine
               hook == IF mine THEN "off" ELSE page.hook
               excused == page.excused \/ (~ok /\ t.wire = "failed")
    <2>1. page' = [page EXCEPT !.device.sub = sub, !.excused = excused, !.user = user,
                               !.busy = busy, !.hook = hook]
      BY DEF Unsubscribe, Mounted, Device
    <2>2. sub \in {page.device.sub, NoSub}
      OBVIOUS
    <2> HIDE DEF sub, user, busy, hook, excused
    <2>3. /\ page'.device.sub = sub /\ page'.device.perm = page.device.perm
          /\ page'.device.optedOut = page.device.optedOut /\ page'.doubt = page.doubt
          /\ page'.user = user
      BY <1>0, <2>1 DEF PushPage
    <2> QED BY <2>2, <2>3 DEF user
  <1>2. Permitted'
    BY <1>0, <1>1 DEF SwitchInv, Permitted, Device, NoSub
  <1>3. ASSUME Confident' PROVE SwitchTasks' /\ Honest'
    <2>1. t.fn # "logout" /\ page'.user = page.user
      BY <1>1, <1>3 DEF Confident
    <2>2. SwitchTasks
      BY <1>0, <1>1, <1>3, <2>1, Before
    <2>3. t.fn = "turnOff" /\ Device.optedOut
      BY <1>0, <2>1, <2>2 DEF SwitchTasks, SwitchTask, Ending
    <2>4. \A v \in tasks' : SwitchTask(v) /\ ~Switches(v) /\ v.fn # "config"
      BY <1>0, <2>2, <2>3 DEF SwitchTasks, SwitchTask, Switches
    <2>5. \A v \in tasks' : SwitchTask(v)'
      BY <2>1, <2>4 DEF SwitchTask, Switches
    <2>6. SwitchTasks'
      BY <1>0, <2>2, <2>5 DEF SwitchTasks, Switches
    <2>7. Honest'
      BY <1>1, <2>3 DEF Honest, Device
    <2> QED BY <2>6, <2>7
  <1> QED BY <1>2, <1>3 DEF SwitchInv

LEMMA SwitchKept ==
  ASSUME PushInv, SwitchInv, PushNext
  PROVE  SwitchInv'
  <1>1. CASE (\E u \in Owners : SignIn(u)) \/ TurnOn \/ TurnOff \/ SignOut
    BY <1>1, SignInHonest, TurnOnHonest, TurnOffHonest, LeavingHonest
  <1>2. ASSUME NEW t \in tasks,
               \/ \E perm \in {"default", "granted", "denied"} : AnswerPrompt(t, perm)
               \/ PromptReturns(t) \/ ResumeReturns(t) \/ ServePush(t) \/ SaveReturns(t)
               \/ ConfigReturns(t) \/ ServeDrop(t)
               \/ \E ok \in BOOLEAN : Unsubscribe(t, ok)
               \/ LogoutGoesOn(t)
        PROVE  SwitchInv'
    <2>1. CASE \E perm \in {"default", "granted", "denied"} : AnswerPrompt(t, perm)
      BY <2>1, AnswerPromptHonest
    <2>2. CASE PromptReturns(t) \/ ResumeReturns(t) \/ ServePush(t) \/ SaveReturns(t)
      BY <2>2, PromptReturnsHonest, ResumeReturnsHonest, ServePushHonest, SaveReturnsHonest
    <2>3. CASE ConfigReturns(t) \/ ServeDrop(t) \/ LogoutGoesOn(t)
      BY <2>3, ConfigReturnsHonest, ServeDropHonest, LeavingHonest
    <2>4. CASE \E ok \in BOOLEAN : Unsubscribe(t, ok)
      BY <2>4, UnsubscribeHonest
    <2> QED BY <1>2, <2>1, <2>2, <2>3, <2>4
  <1> QED BY <1>1, <1>2 DEF PushNext

LEMMA SwitchIdle == SwitchInv /\ UNCHANGED vars => SwitchInv'
  BY DEF vars, SwitchInv, Permitted, Confident, SwitchTasks, SwitchTask, Switches, Honest,
         Renewed, Delivers, Device

LEMMA SwitchHolds == SwitchInv => SwitchHonest
  BY DEF SwitchInv, Confident, Honest, SwitchHonest

LEMMA PushAlways == Spec => [](PushRest /\ SwitchHonest)
  <1> DEFINE IInv == Named /\ (page.at = "push" => PushInv /\ SwitchInv)
  <1>1. Init => IInv
    BY PortalBegins, OfficeBegins, PushBegins, SwitchBegins DEF Init
  <1>2. IInv /\ [Next]_vars => IInv'
    <2> SUFFICES ASSUME IInv, [Next]_vars PROVE IInv'
      OBVIOUS
    <2>1. Named' /\ page'.at = page.at
      BY NextStays DEF Named, Stays
    <2> QED BY <2>1, StepOfPage, PushKept, PushIdle, SwitchKept, SwitchIdle
  <1>3. IInv => PushRest /\ SwitchHonest
    BY PushHolds, SwitchHolds DEF PushRest, NoNoticesAfterLogout, OptOutKept, SwitchHonest
  <1> QED BY <1>1, <1>2, <1>3, PTL DEF Spec

\* A shared phone: once somebody has signed out of it and the calls have come
\* back, it gets nobody's notices (disablePush in logout, with the excuses of
\* the property).
THEOREM PhoneIsLeftQuiet == Spec => []NoNoticesAfterLogout
  <1>1. PushRest => NoNoticesAfterLogout
    BY DEF PushRest
  <1> QED BY <1>1, PushAlways, PTL

\* Who turned push off stays without it through later logins (resumePush).
THEOREM ChoiceIsKept == Spec => []OptOutKept
  <1>1. PushRest => OptOutKept
    BY DEF PushRest
  <1> QED BY <1>1, PushAlways, PTL

\* The switch that says on is telling the truth, unless the renewal after
\* signing in has failed or the session began with calls of an earlier one
\* under way (subscribe, usePush).
THEOREM SwitchIsHonest == Spec => []SwitchHonest
  BY PushAlways, PTL

------------------------------------------------------------------------------
\* MyApplicationsPage: a run of the journeys for the list that is shown.

MineLists == UNION {[s -> {"pending", "rejected"}] : s \in SUBSET AppIds}
InStep == \A a \in DOMAIN page.list :
            a \in DOMAIN page.journeys /\ page.journeys[a] = page.list[a]
MineTask(t) ==
  /\ IsTask(t) /\ t.fn \in {"load", "journeys", "delete"}
  /\ t.fn = "load" /\ t.wire = "ok" => t.reply # None /\ (~stale => t.reply = server)
  /\ t.fn = "journeys" /\ t.arg # None => t.arg = page.list
MineInv ==
  /\ DOMAIN page = {"at", "list", "error", "target", "deleting", "deleteError", "journeys"}
  /\ server \in MineLists
  /\ \A t \in tasks : MineTask(t)
  /\ page.list # None /\ ~InStep =>
       \E t \in tasks : t.fn = "journeys" /\ t.arg = page.list
  /\ page.deleting => \E t \in tasks : t.fn = "delete"
  /\ page.list = None /\ ~page.error => \E t \in tasks : t.fn = "load"
  /\ ~stale /\ page.list # None /\ ~page.error /\ page.list # server =>
       \E t \in tasks : t.fn = "load" \/ (t.fn = "delete" /\ t.wire = "ok")

LEMMA MineBegins == MineInit => MineInv
  <1> SUFFICES ASSUME MineInit PROVE MineInv
    OBVIOUS
  <1>1. server = [a \in AppIds |-> "pending"] /\ tasks = {Task("load", 1, None)}
        /\ page = [at |-> "mine", list |-> None, error |-> FALSE, target |-> None,
                   deleting |-> FALSE, deleteError |-> FALSE, journeys |-> << >>]
    BY DEF MineInit
  <1>2. server \in MineLists
    BY <1>1 DEF MineLists
  <1>3. PICK t : /\ tasks = {t} /\ IsTask(t) /\ t.fn = "load" /\ t.wire = "sent"
    BY <1>1, FirstTask
  <1> QED BY <1>1, <1>2, <1>3 DEF MineInv, MineTask, InStep

LEMMA AbandonedTasks ==
  ASSUME NEW ts, \A t \in ts : IsTask(t)
  PROVE  /\ \A u \in Abandoned(ts) :
              \/ u \in ts /\ u.fn # "journeys"
              \/ IsTask(u) /\ u.fn = "journeys" /\ u.arg = None
         /\ \A t \in ts : t.fn # "journeys" => t \in Abandoned(ts)
  <1>1. \A t \in ts : /\ IsTask([t EXCEPT !.arg = None])
                      /\ [t EXCEPT !.arg = None].arg = None
                      /\ [t EXCEPT !.arg = None].fn = t.fn
    BY DEF IsTask
  <1> QED BY <1>1 DEF Abandoned

LEMMA MineLoadKeeps ==
  ASSUME MineInv, NEW t \in tasks, MineLoadReturns(t)
  PROVE  MineInv'
  <1>0. /\ t.fn = "load" /\ MineTask(t) /\ UNCHANGED <<server, stale>>
        /\ \A v \in tasks : IsTask(v)
    BY DEF MineInv, MineTask, MineLoadReturns
  <1>1. CASE t.wire = "failed"
    <2>1. /\ tasks' = tasks \ {t} /\ DOMAIN page' = DOMAIN page /\ page'.error
          /\ page'.list = page.list /\ page'.deleting = page.deleting
          /\ page'.journeys = page.journeys
      BY <1>1 DEF MineInv, MineLoadReturns, End
    <2> QED BY <1>0, <2>1 DEF MineInv, MineTask, InStep
  <1>2. CASE t.wire = "ok"
    <2>1. /\ DOMAIN page' = DOMAIN page /\ page'.list = t.reply /\ t.reply # None
          /\ page'.error = page.error /\ page'.deleting = page.deleting
          /\ page'.journeys = page.journeys /\ (~stale => t.reply = server)
      BY <1>0, <1>2 DEF MineInv, MineTask, MineLoadReturns
    <2>2. FollowJourneys(t, t.reply)
      BY <1>2 DEF MineLoadReturns
    <2>3. CASE t.reply = page.list
      <3>1. tasks' = tasks \ {t}
        BY <2>2, <2>3 DEF FollowJourneys
      <3> QED BY <1>0, <2>1, <2>3, <3>1 DEF MineInv, MineTask, InStep
    <2>4. CASE t.reply # page.list
      <3> DEFINE ts == tasks \ {t}
                 kept == Abandoned(ts)
      <3>1. /\ \A u \in kept : \/ u \in ts /\ u.fn # "journeys"
                               \/ IsTask(u) /\ u.fn = "journeys" /\ u.arg = None
            /\ \A v \in ts : v.fn # "journeys" => v \in kept
        BY <1>0, AbandonedTasks
      <3> HIDE DEF kept
      <3>2. PICK new : /\ tasks' = kept \cup new
                       /\ \A u \in new : IsTask(u) /\ u.fn = "journeys" /\ u.arg = t.reply
                       /\ new = {} => DOMAIN t.reply = {}
        <4> DEFINE n == New("journeys", t.reply)
                   new == IF DOMAIN t.reply = {} THEN {} ELSE {n}
        <4>1. tasks' = kept \cup new
          BY <2>2, <2>4 DEF FollowJourneys, kept
        <4>2. IsTask(n) /\ n.fn = "journeys" /\ n.arg = t.reply
          BY NewTask
        <4> HIDE DEF n
        <4>3. (new = {} => DOMAIN t.reply = {}) /\ \A u \in new : u = n
          OBVIOUS
        <4> HIDE DEF new
        <4> QED BY <4>1, <4>2, <4>3
      <3>3. \A u \in tasks' : MineTask(u)'
        BY <1>0, <2>1, <3>1, <3>2 DEF MineInv, MineTask
      <3>4. ~InStep' => \E u \in tasks' : u.fn = "journeys" /\ u.arg = page'.list
        BY <2>1, <3>2 DEF InStep
      <3>5. page.deleting => \E u \in tasks' : u.fn = "delete"
        BY <1>0, <3>1, <3>2 DEF MineInv
      <3> QED BY <1>0, <2>1, <3>3, <3>4, <3>5 DEF MineInv
    <2> QED BY <2>3, <2>4
  <1> QED BY <1>0, <1>1, <1>2 DEF MineLoadReturns, MineTask, IsTask

LEMMA JourneysKeeps ==
  ASSUME MineInv, NEW t \in tasks, JourneysReturn(t)
  PROVE  MineInv'
  <1>0. /\ t.fn = "journeys" /\ MineTask(t) /\ UNCHANGED <<server, stale>>
        /\ tasks' = tasks \ {t}
    BY DEF MineInv, JourneysReturn, End
  <1>1. /\ DOMAIN page' = DOMAIN page /\ page'.error = page.error
        /\ page'.list = page.list /\ page'.deleting = page.deleting
        /\ IF t.arg = None THEN page'.journeys = page.journeys
           ELSE page'.journeys = page.list
    BY <1>0 DEF MineInv, MineTask, JourneysReturn
  <1> QED BY <1>0, <1>1 DEF MineInv, MineTask, InStep

LEMMA MineAsked ==
  ASSUME MineInv, \/ \E a \in AppIds : AskRemoval(a)
                  \/ CancelRemoval \/ ConfirmRemoval
  PROVE  MineInv'
  <1>1. PICK new : /\ tasks' = tasks \cup new
                   /\ \A u \in new : IsTask(u) /\ u.fn = "delete" /\ u.wire = "sent"
                   /\ page'.deleting => page.deleting \/ new # {}
    <2>1. CASE (\E a \in AppIds : AskRemoval(a)) \/ CancelRemoval
      <3> DEFINE new == tasks \ tasks
      <3>1. tasks' = tasks \cup new /\ page'.deleting = page.deleting
        BY <2>1 DEF MineInv, AskRemoval, CancelRemoval
      <3>2. \A u : u \notin new
        OBVIOUS
      <3> HIDE DEF new
      <3> QED BY <3>1, <3>2
    <2>2. CASE ConfirmRemoval
      <3> DEFINE n == New("delete", page.target)
      <3>1. tasks' = tasks \cup {n} /\ IsTask(n) /\ n.fn = "delete" /\ n.wire = "sent"
        BY <2>2, NewTask DEF ConfirmRemoval, Start
      <3> HIDE DEF n
      <3> QED BY <3>1
    <2> QED BY <2>1, <2>2
  <1>2. /\ DOMAIN page' = DOMAIN page /\ page'.error = page.error
        /\ page'.list = page.list /\ page'.journeys = page.journeys
        /\ UNCHANGED <<server, stale>>
    BY DEF MineInv, AskRemoval, CancelRemoval, ConfirmRemoval
  <1> QED BY <1>1, <1>2 DEF MineInv, MineTask, InStep

LEMMA MineRemovalKeeps ==
  ASSUME MineInv, NEW t \in tasks, RemovalReturns(t)
  PROVE  MineInv'
  <1>0. /\ t.fn = "delete" /\ MineTask(t) /\ UNCHANGED <<server, stale>>
    BY DEF MineInv, RemovalReturns
  <1>1. PICK new : /\ tasks' = (tasks \ {t}) \cup new
                   /\ \A u \in new : IsTask(u) /\ u.fn = "load" /\ u.wire = "sent"
                   /\ t.wire = "ok" => new # {}
    <2> DEFINE n == New("load", None)
               new == IF t.wire = "failed" THEN {} ELSE {n}
    <2>1. IsTask(n) /\ n.fn = "load" /\ n.wire = "sent"
      BY NewTask
    <2>2. tasks' = (tasks \ {t}) \cup new
      BY DEF RemovalReturns, End, GoOn
    <2> HIDE DEF n
    <2>3. (t.wire = "ok" => new # {}) /\ \A u \in new : u = n
      OBVIOUS
    <2> HIDE DEF new
    <2> QED BY <2>1, <2>2, <2>3
  <1>2. /\ DOMAIN page' = DOMAIN page /\ page'.error = page.error /\ ~page'.deleting
        /\ page'.list = page.list /\ page'.journeys = page.journeys
    BY DEF MineInv, RemovalReturns
  <1> QED BY <1>0, <1>1, <1>2 DEF MineInv, MineTask, InStep, IsTask

LEMMA ServeMineKeeps ==
  ASSUME MineInv, NEW t \in tasks, ServeMine(t)
  PROVE  MineInv'
  <1> DEFINE after == IF t.fn = "delete" THEN Except(server, t.arg) ELSE server
             accepts == t.fn = "delete" => t.arg \in DOMAIN server
             reply == IF t.fn = "delete" THEN None ELSE server
  <1>0. MineTask(t) /\ t.wire = "sent" /\ Serve(t, accepts, after, reply)
    <2>1. MineTask(t)
      BY DEF MineInv
    <2>2. CASE Awaiting(t, {"load", "journeys"}) /\ Serve(t, TRUE, server, server)
      <3>1. accepts = TRUE /\ after = server /\ reply = server /\ t.wire = "sent"
        BY <2>2 DEF Awaiting
      <3> QED BY <2>1, <2>2, <3>1
    <2>3. CASE /\ Awaiting(t, {"delete"})
               /\ Serve(t, t.arg \in DOMAIN server, Except(server, t.arg), None)
      <3>1. /\ accepts = (t.arg \in DOMAIN server) /\ after = Except(server, t.arg)
            /\ reply = None /\ t.wire = "sent"
        BY <2>3 DEF Awaiting
      <3> QED BY <2>1, <2>3, <3>1
    <2> QED BY <2>2, <2>3 DEF ServeMine
  <1> HIDE DEF accepts
  <1>1. after \in MineLists
    <2>1. PICK ids \in SUBSET AppIds : server \in [ids -> {"pending", "rejected"}]
      BY DEF MineInv, MineLists
    <2>2. Except(server, t.arg) \in [ids \ {t.arg} -> {"pending", "rejected"}]
      BY <2>1 DEF Except
    <2> QED BY <2>1, <2>2 DEF MineLists
  <1>2. server # None
    BY StudentApplicationsAssumption DEF MineInv, MineLists, StudentApplicationsAssumption
  <1>3. t.fn # "delete" => after = server /\ reply = server
    OBVIOUS
  <1> HIDE DEF after, reply
  <1>4. UNCHANGED page /\ (server' # server => server' = after)
    BY <1>0, Served DEF MineTask
  <1>5. PICK u : /\ IsTask(u) /\ u.fn = t.fn /\ u.arg = t.arg /\ u.no = t.no
                 /\ tasks' = (tasks \ {t}) \cup {u}
                 /\ u.wire \in {"ok", "failed"}
                 /\ u.wire = "ok" => accepts /\ server' = after /\ u.reply = reply
                 /\ ~stale' =>
                      IF t.fn = "load" /\ u.wire = "ok"
                        THEN \A v \in tasks \ {t} : ~OnItsWay(v)
                        ELSE /\ ~stale
                             /\ server' # server => u.wire = "ok" /\ ~ReadUnderWay(t)
    BY <1>0, Served DEF MineTask
  <1>6. server' \in MineLists
    BY <1>1, <1>4 DEF MineInv
  <1>7. MineTask(u)'
    BY <1>0, <1>2, <1>3, <1>4, <1>5 DEF MineTask
  <1>8. ASSUME NEW v \in tasks \ {t} PROVE MineTask(v)'
    <2>1. MineTask(v)
      BY DEF MineInv
    <2>2. ASSUME v.fn = "load", v.wire = "ok", ~stale' PROVE ~stale /\ server' = server
      <3>1. OnItsWay(v)
        BY <2>2 DEF OnItsWay
      <3>2. ReadUnderWay(t)
        BY <2>2, <3>1 DEF ReadUnderWay
      <3> QED BY <1>5, <2>2, <3>1, <3>2
    <2> QED BY <1>4, <2>1, <2>2 DEF MineTask
  <1>9. ASSUME ~stale', page.list # None, ~page.error, page.list # server'
        PROVE  \E v \in tasks' : v.fn = "load" \/ (v.fn = "delete" /\ v.wire = "ok")
    <2>1. CASE u.fn = "load" \/ (u.fn = "delete" /\ u.wire = "ok")
      BY <1>5, <2>1
    <2>2. CASE ~(u.fn = "load" \/ (u.fn = "delete" /\ u.wire = "ok"))
      <3>1. ~stale /\ server' = server
        BY <1>0, <1>3, <1>4, <1>5, <1>9, <2>2 DEF MineTask
      <3> QED BY <1>0, <1>5, <1>9, <2>2, <3>1 DEF MineInv
    <2> QED BY <2>1, <2>2
  <1> QED BY <1>0, <1>4, <1>5, <1>6, <1>7, <1>8, <1>9 DEF MineInv, InStep

LEMMA MineDecidedKeeps ==
  ASSUME MineInv, NEW a \in AppIds, MineDecided(a)
  PROVE  MineInv'
  <1>1. /\ server' = [server EXCEPT ![a] = "rejected"] /\ stale' = TRUE
        /\ UNCHANGED <<page, tasks>>
    BY DEF MineDecided, Elsewhere
  <1>2. server' \in MineLists
    BY <1>1 DEF MineInv, MineLists
  <1> QED BY <1>1, <1>2 DEF MineInv, MineTask, InStep

LEMMA MineKept == MineInv /\ MineNext => MineInv'
  BY MineLoadKeeps, JourneysKeeps, MineAsked, MineRemovalKeeps, ServeMineKeeps,
     MineDecidedKeeps DEF MineNext

LEMMA MineRest ==
  MineInv => /\ JourneysInStep
             /\ tasks = {} => ~MineBusy
             /\ AtRest => MineAgree
  BY DEF MineInv, JourneysInStep, InStep, MineBusy, AtRest, MineAgree

LEMMA MineIdle == MineInv /\ UNCHANGED vars => MineInv'
  BY DEF vars, MineInv, MineTask, InStep

\* The journey drawn under an application is computed from the status shown
\* beside it once nothing is under way, however its requests and the lists
\* before it overtake each other (useApplicationJourneys).
THEOREM JourneysFollow == Spec => []JourneysInStep
  <1> DEFINE IInv == Named /\ (page.at = "mine" => MineInv)
  <1>1. Init => IInv
    BY PortalBegins, OfficeBegins, MineBegins DEF Init
  <1>2. IInv /\ [Next]_vars => IInv'
    <2> SUFFICES ASSUME IInv, [Next]_vars PROVE IInv'
      OBVIOUS
    <2>1. Named' /\ page'.at = page.at
      BY NextStays DEF Named, Stays
    <2> QED BY <2>1, StepOfPage, MineKept, MineIdle
  <1>3. IInv => JourneysInStep
    BY MineRest DEF JourneysInStep
  <1> QED BY <1>1, <1>2, <1>3, PTL DEF Spec

------------------------------------------------------------------------------
\* The wizard (NewApplicationPage).

WizardPage ==
  [at : {"wizard"}, step : {1, 2, 3, 4}, sent : BOOLEAN, ready : BOOLEAN, dorm : Dorms \cup {None},
   rooms : Dorms \cup {None}, room : Dorms \cup {None}, dormDocs : SUBSET Dorms,
   chosen : BOOLEAN, benefitDocs : {None, {}, {Benefit}}, files : SUBSET RequiredDocs,
   asked : {None, {}, {"details"}}, saving : BOOLEAN, contract : Contract \cup {None},
   agreed : Contract \cup {None}, submitting : BOOLEAN, left : BOOLEAN]
Application ==
  {a \in [dorm : Dorms \cup {None}, docs : SUBSET RequiredDocs, agreed : Contract] :
     a.agreed = [dorm |-> a.dorm, room |-> a.dorm]}
Submission ==
  {a \in [dorm : Dorms \cup {None}, room : Dorms \cup {None}, docs : SUBSET RequiredDocs,
          agreed : Contract] : a.agreed = [dorm |-> a.dorm, room |-> a.room]}
Chosen == [dorm |-> page.dorm, room |-> page.room]
Submits(t) == t.fn \in {"upload", "create", "attach", "rollback"}
WizardTask(t) ==
  /\ IsTask(t)
  /\ t.fn = "lists" => t.arg \in Dorms
  /\ t.fn = "rooms" => t.arg \in Dorms \cup {None}
  /\ t.fn = "contract" => page.step = 4 /\ t.arg = Chosen
  /\ t.fn \in {"upload", "create", "attach"} => t.arg \in Submission
  /\ t.fn = "upload" \/ (t.fn = "create" /\ t.wire # "ok") => stale \/ server.app = None
  /\ t.fn = "attach" \/ (t.fn = "create" /\ t.wire = "ok") =>
       server.app \in Application /\ server.known = t.arg.docs
  /\ t.fn = "attach" /\ t.wire = "ok" => server.app.docs = t.arg.docs
  /\ t.fn = "rollback" /\ t.wire = "ok" => server.app = None
  /\ t.fn \notin {"load", "enrich"}
  /\ Submits(t) => page.submitting /\ ~page.sent
WizardInv ==
  /\ page \in WizardPage /\ server \in [app : Application \cup {None}, known : SUBSET RequiredDocs]
  /\ \A t \in tasks : WizardTask(t)
  /\ \A s, t \in tasks : Submits(s) /\ Submits(t) => s = t
  /\ page.submitting => \E t \in tasks : Submits(t)
  /\ page.saving => \E t \in tasks : t.fn = "details"
  /\ page.agreed # None => page.step = 4 /\ page.agreed = Chosen
  /\ page.contract # None /\ page.step = 4 => page.contract = Chosen
  /\ ~page.submitting /\ ~page.sent /\ ~page.left /\ ~stale => server.app = None
  /\ page.sent => server.app # None /\ server.app.docs = server.known

\* As long as it is not known what the profile lacks, the profile is being read.
Profiled == page.asked = None => \E t \in tasks : t.fn = "profile"

LEMMA WizardBegins == WizardInit => WizardInv /\ Profiled
  <1> SUFFICES ASSUME WizardInit PROVE WizardInv /\ Profiled
    OBVIOUS
  <1>1. page \in WizardPage /\ ~page.submitting /\ ~page.saving /\ page.agreed = None
        /\ page.contract = None /\ ~page.sent
    BY DEF WizardInit, WizardPage
  <1>2. server \in [app : {None}, known : {{}}]
    BY DEF WizardInit
  <1>3. PICK s, t : /\ tasks = {s, t} /\ IsTask(s) /\ IsTask(t)
                    /\ s.fn = "dormitories" /\ t.fn = "profile"
    BY FirstTask DEF WizardInit
  <1>4. Profiled
    BY <1>3 DEF Profiled
  <1> QED BY <1>1, <1>2, <1>3, <1>4 DEF WizardInv, WizardTask, Submits

\* What is done before, or besides, a submission.
FormTask(u) ==
  /\ IsTask(u) /\ u.fn \in {"lists", "rooms", "benefitDocs", "contract", "details"}
  /\ u.fn = "lists" => u.arg \in Dorms
  /\ u.fn = "rooms" => u.arg \in Dorms \cup {None}
LEMMA FormStep ==
  ASSUME WizardInv, UNCHANGED <<server, stale>>, page' \in WizardPage,
         page'.submitting = page.submitting, page'.sent = page.sent, page'.left = page.left,
         \A u \in tasks' : u \in tasks \/ FormTask(u),
         \A u \in tasks' : u.fn = "contract" =>
           page'.step = 4 /\ u.arg = [dorm |-> page'.dorm, room |-> page'.room],
         \A u \in tasks : Submits(u) => u \in tasks',
         page'.saving => \E u \in tasks' : u.fn = "details",
         page'.agreed # None =>
           page'.step = 4 /\ page'.agreed = [dorm |-> page'.dorm, room |-> page'.room],
         page'.contract # None /\ page'.step = 4 =>
           page'.contract = [dorm |-> page'.dorm, room |-> page'.room]
  PROVE  WizardInv'
  <1>1. \A u \in tasks' : WizardTask(u)'
    <2> SUFFICES ASSUME NEW u \in tasks' PROVE WizardTask(u)'
      OBVIOUS
    <2>1. CASE u \in tasks
      <3>1. WizardTask(u)
        BY <2>1 DEF WizardInv
      <3> QED BY <3>1 DEF WizardTask, Chosen, Submits
    <2>2. CASE FormTask(u)
      BY <2>2 DEF FormTask, WizardTask, Chosen, Submits
    <2> QED BY <2>1, <2>2
  <1>2. \A u \in tasks' : Submits(u) => u \in tasks
    BY DEF FormTask, Submits
  <1>3. /\ \A s, t \in tasks' : Submits(s) /\ Submits(t) => s = t
        /\ page'.submitting => \E t \in tasks' : Submits(t)
    BY <1>2 DEF WizardInv
  <1> QED BY <1>1, <1>3 DEF WizardInv, Chosen, Submits

\* ... without leaving the step, or the dormitory and the room.
LEMMA SameStep ==
  ASSUME WizardInv, UNCHANGED <<server, stale>>, page' \in WizardPage,
         page'.submitting = page.submitting, page'.sent = page.sent, page'.left = page.left,
         page'.step = page.step, page'.dorm = page.dorm, page'.room = page.room,
         \A u \in tasks' : u \in tasks \/ (FormTask(u) /\ u.fn # "contract"),
         \A u \in tasks : Submits(u) => u \in tasks',
         page'.saving => \E u \in tasks' : u.fn = "details",
         page'.agreed = page.agreed \/ (page.step = 4 /\ page'.agreed \in {None, Chosen}),
         page'.contract \in {page.contract, Chosen}
  PROVE  WizardInv'
  <1>1. \A u \in tasks' : u.fn = "contract" =>
          page'.step = 4 /\ u.arg = [dorm |-> page'.dorm, room |-> page'.room]
    BY DEF WizardInv, WizardTask, Chosen
  <1>2. /\ page'.agreed # None =>
             page'.step = 4 /\ page'.agreed = [dorm |-> page'.dorm, room |-> page'.room]
        /\ page'.contract # None /\ page'.step = 4 =>
             page'.contract = [dorm |-> page'.dorm, room |-> page'.room]
    BY DEF WizardInv, Chosen
  <1> QED BY <1>1, <1>2, FormStep

LEMMA FormReplies ==
  ASSUME WizardInv, NEW t \in tasks, NEW ok \in BOOLEAN,
         \/ DormitoriesReturn(t, ok) \/ ProfileReturns(t) \/ WizardListReturns(t, ok)
         \/ ContractReturns(t, ok)
  PROVE  WizardInv'
  <1>1. /\ t.fn \in {"dormitories", "profile", "lists", "rooms", "benefitDocs", "contract"}
        /\ tasks' = tasks \ {t} /\ UNCHANGED <<server, stale>> /\ page \in WizardPage
        /\ WizardTask(t)
    BY DEF WizardInv, DormitoriesReturn, ProfileReturns, WizardListReturns, ContractReturns,
           Awaiting, End
  <1>9. \/ DormitoriesReturn(t, ok) \/ ProfileReturns(t) \/ WizardListReturns(t, ok)
        \/ ContractReturns(t, ok)
    OBVIOUS
  <1> DEFINE Same ==
        /\ page' \in WizardPage /\ page'.submitting = page.submitting
        /\ page'.sent = page.sent /\ page'.left = page.left /\ page'.step = page.step
        /\ page'.dorm = page.dorm /\ page'.room = page.room /\ page'.saving = page.saving
        /\ page'.agreed = page.agreed /\ page'.contract \in {page.contract, Chosen}
  <1>6. Same
    <2>1. CASE DormitoriesReturn(t, ok) \/ ProfileReturns(t)
      <3>1. PICK ready \in BOOLEAN, asked \in {None, {}, {"details"}} :
              page' = [page EXCEPT !.ready = ready] \/ page' = [page EXCEPT !.asked = asked]
        BY <1>1, <2>1 DEF DormitoriesReturn, ProfileReturns, WizardPage
      <3>2. Same
        BY <1>1, <3>1 DEF WizardPage
      <3> QED BY <3>2
    <2>2. CASE WizardListReturns(t, ok) /\ t.fn = "benefitDocs"
      <3>1. PICK docs \in {{}, {Benefit}} : page' = [page EXCEPT !.benefitDocs = docs]
        BY <2>2 DEF WizardListReturns
      <3>2. Same
        BY <1>1, <3>1 DEF WizardPage
      <3> QED BY <3>2
    <2>3. CASE WizardListReturns(t, ok) /\ t.fn # "benefitDocs"
      <3> DEFINE rooms == IF ok THEN t.arg ELSE None
                 docs == IF t.fn = "rooms" THEN page.dormDocs ELSE IF ok THEN {t.arg} ELSE {}
      <3>1. page' = [page EXCEPT !.rooms = rooms, !.dormDocs = docs]
        BY <2>3 DEF WizardListReturns
      <3>2. t.arg \in Dorms \cup {None} /\ (t.fn # "rooms" => t.arg \in Dorms)
        BY <1>1, <2>3 DEF WizardTask, WizardListReturns, Awaiting
      <3>3. rooms \in Dorms \cup {None} /\ docs \in SUBSET Dorms
        BY <1>1, <3>2 DEF WizardPage
      <3> HIDE DEF rooms, docs
      <3>4. Same
        BY <1>1, <3>1, <3>3 DEF WizardPage
      <3> QED BY <3>4
    <2>4. CASE ContractReturns(t, ok)
      <3>1. t.arg = Chosen /\ Chosen \in Contract
        BY <1>1, <2>4 DEF ContractReturns, Awaiting, WizardTask, Chosen, Contract,
                          WizardPage
      <3> HIDE DEF Same
      <3>2. page' = page \/ page' = [page EXCEPT !.contract = Chosen]
        BY <3>1, <2>4 DEF ContractReturns
      <3>3. Same
        BY <1>1, <3>1, <3>2 DEF WizardPage, Same
      <3> QED BY <3>3
    <2> QED BY <1>9, <2>1, <2>2, <2>3, <2>4
  <1>7. page'.saving => \E u \in tasks' : u.fn = "details"
    BY <1>1, <1>6 DEF WizardInv
  <1>8. \A u \in tasks : Submits(u) => u \in tasks'
    BY <1>1 DEF Submits
  <1> QED BY <1>1, <1>6, <1>7, <1>8, SameStep

LEMMA FormEdits ==
  ASSUME WizardInv, ToggleBenefit \/ SetDocFiles \/ SetContractAgreed
  PROVE  WizardInv'
  <1>1. page \in WizardPage /\ UNCHANGED <<server, stale>>
    BY DEF WizardInv, ToggleBenefit, SetDocFiles, SetContractAgreed
  <1>2. \A u \in tasks' : u \in tasks \/ (FormTask(u) /\ u.fn # "contract")
    <2> DEFINE n == New("benefitDocs", None)
    <2>1. IsTask(n) /\ n.fn = "benefitDocs"
      BY NewTask
    <2>2. \A u \in tasks' : u \in tasks \/ u = n
      BY DEF ToggleBenefit, SetDocFiles, SetContractAgreed, Start
    <2> HIDE DEF n
    <2> QED BY <2>1, <2>2 DEF FormTask
  <1>3. tasks \subseteq tasks'
    BY DEF ToggleBenefit, SetDocFiles, SetContractAgreed, Start
  <1>4. PICK chosen \in BOOLEAN, files \in SUBSET RequiredDocs,
             agreed \in Contract \cup {None} :
          /\ \/ page' = [page EXCEPT !.chosen = chosen]
             \/ page' = [page EXCEPT !.files = files]
             \/ page' = [page EXCEPT !.agreed = agreed]
          /\ agreed = page.agreed \/ (page.step = 4 /\ agreed \in {None, Chosen})
    <2>1. CASE ToggleBenefit
      <3>1. page' = [page EXCEPT !.chosen = ~page.chosen] /\ (~page.chosen) \in BOOLEAN
        BY <2>1 DEF ToggleBenefit
      <3> QED BY <1>1, <3>1 DEF WizardPage
    <2>2. CASE SetDocFiles
      <3>1. page' = [page EXCEPT !.files = page.files \cup AllRequiredDocs]
        BY <2>2 DEF SetDocFiles
      <3>2. page.files \cup AllRequiredDocs \in SUBSET RequiredDocs
        BY <1>1 DEF AllRequiredDocs, WizardPage, RequiredDocs
      <3> QED BY <1>1, <3>1, <3>2 DEF WizardPage
    <2>3. CASE SetContractAgreed
      <3>1. page' = [page EXCEPT !.agreed = IF page.agreed = None THEN page.contract ELSE None]
            /\ page.step = 4 /\ page.contract = Chosen
        BY <2>3 DEF SetContractAgreed, AtStep, WizardInv
      <3> QED BY <1>1, <3>1 DEF WizardPage
    <2> QED BY <2>1, <2>2, <2>3
  <1>5. /\ page' \in WizardPage /\ page'.submitting = page.submitting
        /\ page'.sent = page.sent /\ page'.left = page.left /\ page'.step = page.step
        /\ page'.dorm = page.dorm /\ page'.room = page.room /\ page'.saving = page.saving
        /\ page'.agreed = page.agreed \/ (page.step = 4 /\ page'.agreed \in {None, Chosen})
        /\ page'.contract = page.contract
    BY <1>1, <1>4 DEF WizardPage
  <1>6. page'.saving => \E u \in tasks' : u.fn = "details"
    BY <1>3, <1>5 DEF WizardInv
  <1> QED BY <1>1, <1>2, <1>3, <1>5, <1>6, SameStep

\* Choosing, at the first step, where no contract is.
LEMMA ChoiceKeeps ==
  ASSUME WizardInv, SelectRoom \/ \E d \in Dorms : ChooseDormitory(d)
  PROVE  WizardInv'
  <1>0. page.step = 1 /\ UNCHANGED <<server, stale>>
    <2>1. CASE SelectRoom
      BY <2>1 DEF SelectRoom, AtStep
    <2>2. CASE \E d \in Dorms : ChooseDormitory(d)
      BY <2>2 DEF ChooseDormitory, AtStep
    <2> QED BY <2>1, <2>2
  <1>1. page \in WizardPage /\ page.agreed = None /\ \A u \in tasks : u.fn # "contract"
    BY <1>0 DEF WizardInv, WizardTask
  <1>2. /\ tasks \subseteq tasks'
        /\ \A u \in tasks' : u \in tasks \/ (FormTask(u) /\ u.fn = "lists")
    <2>1. CASE SelectRoom
      BY <2>1 DEF SelectRoom
    <2>2. ASSUME NEW d \in Dorms, ChooseDormitory(d)
          PROVE  /\ tasks \subseteq tasks'
                 /\ \A u \in tasks' : u \in tasks \/ (FormTask(u) /\ u.fn = "lists")
      <3> DEFINE n == New("lists", d)
      <3>1. IsTask(n) /\ n.fn = "lists" /\ n.arg = d
        BY NewTask
      <3>2. tasks' = tasks \cup {n}
        BY <2>2 DEF ChooseDormitory, Start
      <3> HIDE DEF n
      <3> QED BY <3>1, <3>2 DEF FormTask
    <2> QED BY <2>1, <2>2
  <1>3. PICK d \in Dorms \cup {None}, r \in Dorms \cup {None} :
          page' = [page EXCEPT !.dorm = d, !.room = r] \/ page' = [page EXCEPT !.room = r]
    <2>1. CASE SelectRoom
      <3>1. page' = [page EXCEPT !.room = IF page.room = page.rooms THEN None ELSE page.rooms]
        BY <2>1 DEF SelectRoom
      <3> QED BY <1>1, <3>1 DEF WizardPage
    <2>2. CASE \E d \in Dorms : ChooseDormitory(d)
      <3>1. PICK d \in Dorms : page' = [page EXCEPT !.dorm = d, !.room = None]
        BY <2>2 DEF ChooseDormitory
      <3> QED BY <3>1
    <2> QED BY <2>1, <2>2
  <1>4. /\ page' \in WizardPage /\ page'.submitting = page.submitting
        /\ page'.sent = page.sent /\ page'.left = page.left /\ page'.step = 1
        /\ page'.saving = page.saving /\ page'.agreed = None
    BY <1>0, <1>1, <1>3 DEF WizardPage
  <1>5. page'.saving => \E u \in tasks' : u.fn = "details"
    BY <1>2, <1>4 DEF WizardInv
  <1> QED BY <1>0, <1>1, <1>2, <1>4, <1>5, FormStep

\* Going to another step: the contract of before is taken away.
LEMMA ToStepKeeps ==
  ASSUME WizardInv, UNCHANGED <<server, stale>>, NEW n \in {1, 2, 3, 4}, NEW p \in WizardPage,
         NEW ts \in SUBSET tasks, ToStep(n, p, ts),
         \A u \in tasks : u.fn # "details" => u \in ts,
         p.submitting = page.submitting, p.sent = page.sent, p.left = page.left,
         p.dorm = page.dorm, p.room = page.room,
         p.saving => \E u \in ts : u.fn = "details",
         p.agreed = None \/ (n = 4 /\ p.agreed = page.agreed)
  PROVE  WizardInv'
  <1>1. PICK contract \in {p.contract, None} :
          /\ page' = [p EXCEPT !.step = n, !.contract = contract]
          /\ n = 4 => contract = None
    BY DEF ToStep
  <1>2. /\ page' \in WizardPage /\ page'.submitting = page.submitting
        /\ page'.sent = page.sent /\ page'.left = page.left /\ page'.step = n
        /\ page'.dorm = page.dorm /\ page'.room = page.room /\ page'.saving = p.saving
        /\ page'.agreed = p.agreed /\ (n = 4 => page'.contract = None)
    BY <1>1 DEF WizardPage
  <1>3. /\ \A u \in ts : u.fn # "contract" => u \in tasks'
        /\ \A u \in tasks' : \/ u \in ts /\ (u.fn = "contract" => n = 4)
                             \/ n = 4 /\ FormTask(u) /\ u.fn = "contract" /\ u.arg = Chosen
    <2>1. CASE n = 4
      <3> DEFINE new == New("contract", Chosen)
      <3>1. IsTask(new) /\ new.fn = "contract" /\ new.arg = Chosen
        BY NewTask
      <3>2. tasks' = ts \cup {new}
        BY <2>1 DEF ToStep, Chosen
      <3> HIDE DEF new
      <3> QED BY <2>1, <3>1, <3>2 DEF FormTask
    <2>2. CASE n # 4
      <3>1. tasks' = IF page.step = 4 THEN GivenUp(ts) ELSE ts
        BY <2>2 DEF ToStep
      <3>2. \A u \in ts : u.fn = "contract" => page.step = 4
        BY DEF WizardInv, WizardTask
      <3> QED BY <3>1, <3>2 DEF GivenUp
    <2> QED BY <2>1, <2>2
  <1>4. \A u \in tasks' : u.fn = "contract" =>
          page'.step = 4 /\ u.arg = [dorm |-> page'.dorm, room |-> page'.room]
    BY <1>2, <1>3 DEF WizardInv, WizardTask, Chosen
  <1>5. \A u \in tasks : Submits(u) => u \in tasks'
    BY <1>3 DEF Submits
  <1>6. page'.saving => \E u \in tasks' : u.fn = "details"
    BY <1>2, <1>3
  <1>7. page'.agreed # None =>
          page'.step = 4 /\ page'.agreed = [dorm |-> page'.dorm, room |-> page'.room]
    BY <1>2 DEF WizardInv, Chosen
  <1> QED BY <1>2, <1>3, <1>4, <1>5, <1>6, <1>7, FormStep

LEMMA EnterFirstKeeps ==
  ASSUME WizardInv, UNCHANGED <<server, stale>>, NEW p \in WizardPage, EnterFirst(p),
         p.submitting = page.submitting, p.sent = page.sent, p.left = page.left,
         p.saving = page.saving, p.agreed = None
  PROVE  WizardInv'
  <1>1. /\ page' \in WizardPage /\ page'.submitting = page.submitting
        /\ page'.sent = page.sent /\ page'.left = page.left /\ page'.step = 1
        /\ page'.saving = page.saving /\ page'.agreed = None
    <2>1. PICK r \in Dorms \cup {None} :
            page' = [p EXCEPT !.step = 1, !.room = r, !.rooms = r]
      BY DEF EnterFirst
    <2>2. page' \in WizardPage
      BY <2>1 DEF WizardPage
    <2>3. /\ page'.submitting = p.submitting /\ page'.sent = p.sent /\ page'.left = p.left
          /\ page'.step = 1 /\ page'.saving = p.saving /\ page'.agreed = p.agreed
      BY <2>1 DEF WizardPage
    <2> QED BY <2>2, <2>3
  <1> DEFINE new == New("rooms", p.dorm)
  <1>2. FormTask(new) /\ new.fn = "rooms"
    <2>1. IsTask(new) /\ new.fn = "rooms" /\ new.arg = p.dorm
      BY NewTask
    <2>2. p.dorm \in Dorms \cup {None}
      BY DEF WizardPage
    <2> HIDE DEF new
    <2> QED BY <2>1, <2>2 DEF FormTask
  <1>3. tasks' = GivenUp(tasks) \cup {new}
    BY DEF EnterFirst
  <1> HIDE DEF new
  <1>4. /\ \A u \in tasks' : u.fn # "contract" /\ (u \in tasks \/ FormTask(u))
        /\ \A u \in tasks : Submits(u) => u \in tasks'
        /\ page'.saving => \E u \in tasks' : u.fn = "details"
    BY <1>1, <1>2, <1>3 DEF GivenUp, Submits, WizardInv
  <1> QED BY <1>1, <1>4, FormStep

LEMMA DetailsKeep ==
  ASSUME WizardInv, NEW t \in tasks, NEW ok \in BOOLEAN, DetailsReturn(t, ok)
  PROVE  WizardInv'
  <1>1. t.fn = "details" /\ UNCHANGED <<server, stale>> /\ page \in WizardPage
    BY DEF WizardInv, DetailsReturn, Awaiting
  <1>2. CASE ~ok
    <2>1. tasks' = tasks \ {t} /\ page' = [page EXCEPT !.saving = FALSE]
      BY <1>2 DEF DetailsReturn, End
    <2>2. /\ page' \in WizardPage /\ page'.submitting = page.submitting
          /\ page'.sent = page.sent /\ page'.left = page.left /\ page'.step = page.step
          /\ page'.dorm = page.dorm /\ page'.room = page.room /\ ~page'.saving
          /\ page'.agreed = page.agreed /\ page'.contract = page.contract
      BY <1>1, <2>1 DEF WizardPage
    <2>3. \A u \in tasks : Submits(u) => u \in tasks'
      BY <1>1, <2>1 DEF Submits
    <2> QED BY <1>1, <2>1, <2>2, <2>3, SameStep
  <1>3. CASE ok
    <2> DEFINE n == IF page.step < 4 THEN page.step + 1 ELSE page.step
               p == [page EXCEPT !.saving = FALSE, !.asked = {}]
               ts == tasks \ {t}
    <2>1. ToStep(n, p, ts)
      BY <1>3 DEF DetailsReturn
    <2>2. n \in {1, 2, 3, 4} /\ (n # 4 => page.step # 4)
      BY <1>1 DEF WizardPage
    <2>3. /\ p \in WizardPage /\ p.submitting = page.submitting /\ p.sent = page.sent
          /\ p.left = page.left /\ p.dorm = page.dorm /\ p.room = page.room /\ ~p.saving
          /\ p.agreed = page.agreed
      BY <1>1 DEF WizardPage
    <2>4. p.agreed = None \/ (n = 4 /\ p.agreed = page.agreed)
      BY <2>2, <2>3 DEF WizardInv
    <2>5. ts \in SUBSET tasks /\ \A u \in tasks : u.fn # "details" => u \in ts
      BY <1>1
    <2> HIDE DEF n, p, ts
    <2> QED BY <1>1, <2>1, <2>2, <2>3, <2>4, <2>5, ToStepKeeps
  <1> QED BY <1>2, <1>3

LEMMA StepsKeep ==
  ASSUME WizardInv, GoNext \/ GoBack \/ \E n \in {1, 2} : Change(n)
  PROVE  WizardInv'
  <1>1. page \in WizardPage /\ (page.saving => \E u \in tasks : u.fn = "details")
    BY DEF WizardInv
  <1>2. UNCHANGED <<server, stale>>
    BY DEF GoNext, GoBack, Change
  <1>3. ASSUME NEW n \in {1, 2, 3, 4}, page.step # 4, ToStep(n, page, tasks)
        PROVE  WizardInv'
    <2>1. page.agreed = None
      BY <1>3 DEF WizardInv
    <2> QED BY <1>1, <1>2, <1>3, <2>1, ToStepKeeps
  <1>4. ASSUME GoNext PROVE WizardInv'
    <2>1. CASE \E n \in {2, 3, 4} : page.step # 4 /\ ToStep(n, page, tasks)
      BY <1>3, <2>1
    <2>2. CASE /\ page' = [page EXCEPT !.saving = TRUE]
               /\ Start(New("details", None))
      <3> DEFINE n == New("details", None)
      <3>1. IsTask(n) /\ n.fn = "details" /\ tasks' = tasks \cup {n}
        BY <2>2, NewTask DEF Start
      <3> HIDE DEF n
      <3>2. /\ page' \in WizardPage /\ page'.submitting = page.submitting
            /\ page'.sent = page.sent /\ page'.left = page.left /\ page'.step = page.step
            /\ page'.dorm = page.dorm /\ page'.room = page.room
            /\ page'.agreed = page.agreed /\ page'.contract = page.contract
        BY <1>1, <2>2 DEF WizardPage
      <3>3. \A u \in tasks' : u \in tasks \/ (FormTask(u) /\ u.fn # "contract")
        BY <3>1 DEF FormTask
      <3> QED BY <1>2, <3>1, <3>2, <3>3, SameStep
    <2> QED BY <1>4, <2>1, <2>2 DEF GoNext, AtStep
  <1>5. ASSUME GoBack PROVE WizardInv'
    <2> DEFINE p == [page EXCEPT !.agreed = None]
               n == page.step - 1
    <2>1. IF page.step = 2 THEN EnterFirst(p) ELSE ToStep(n, p, tasks)
      BY <1>5 DEF GoBack
    <2>2. n \in {1, 2, 3, 4}
      BY <1>1, <1>5 DEF GoBack, WizardPage
    <2>3. /\ p \in WizardPage /\ p.submitting = page.submitting /\ p.sent = page.sent
          /\ p.left = page.left /\ p.dorm = page.dorm /\ p.room = page.room
          /\ p.saving = page.saving /\ p.agreed = None
      BY <1>1 DEF WizardPage
    <2> HIDE DEF n, p
    <2>4. CASE page.step = 2
      BY <1>2, <2>1, <2>3, <2>4, EnterFirstKeeps
    <2>5. CASE page.step # 2
      BY <1>1, <1>2, <2>1, <2>2, <2>3, <2>5, ToStepKeeps
    <2> QED BY <2>4, <2>5
  <1>6. ASSUME NEW n \in {1, 2}, Change(n) PROVE WizardInv'
    <2>1. page.step = 3 /\ page.agreed = None
      BY <1>6 DEF Change, AtStep, WizardInv
    <2>2. CASE n = 1
      <3>1. EnterFirst(page)
        BY <1>6, <2>2 DEF Change
      <3> QED BY <1>1, <1>2, <2>1, <3>1, EnterFirstKeeps
    <2>3. CASE n = 2
      <3>1. ToStep(2, page, tasks)
        BY <1>6, <2>3 DEF Change
      <3> QED BY <1>3, <2>1, <3>1
    <2> QED BY <2>2, <2>3
  <1> QED BY <1>4, <1>5, <1>6

LEMMA SubmitKeeps ==
  ASSUME WizardInv, HandleSubmit
  PROVE  WizardInv'
  <1>1. /\ page \in WizardPage /\ page.step = 4 /\ ~page.sent /\ ~page.left /\ ~stale
        /\ page.agreed = Chosen /\ ~page.submitting /\ UNCHANGED <<server, stale>>
        /\ page' = [page EXCEPT !.submitting = TRUE] /\ page.agreed \in Contract
    BY DEF WizardInv, HandleSubmit, AtStep, Filling, WizardPage
  <1>2. /\ page' \in WizardPage /\ page'.submitting /\ page'.sent = page.sent
        /\ page'.left = page.left /\ page'.step = page.step /\ page'.dorm = page.dorm
        /\ page'.room = page.room /\ page'.saving = page.saving
        /\ page'.agreed = page.agreed /\ page'.contract = page.contract
    BY <1>1 DEF WizardPage
  <1>3. PICK new : /\ IsTask(new) /\ new.fn = "upload" /\ new.wire = "sent"
                   /\ new.arg \in Submission /\ tasks' = tasks \cup {new}
    <2> DEFINE arg == [dorm |-> page.dorm, room |-> page.room,
                       docs |-> AllRequiredDocs, agreed |-> page.agreed]
               n == New("upload", arg)
    <2>1. IsTask(n) /\ n.fn = "upload" /\ n.arg = arg /\ n.wire = "sent"
      BY NewTask
    <2>2. tasks' = tasks \cup {n}
      BY DEF HandleSubmit, Start
    <2> HIDE DEF n
    <2>3. AllRequiredDocs \in SUBSET RequiredDocs
      BY <1>1 DEF AllRequiredDocs, WizardPage, RequiredDocs
    <2>4. arg \in Submission
      BY <1>1, <2>3 DEF Submission, Chosen, WizardPage
    <2> HIDE DEF arg
    <2> QED BY <2>1, <2>2, <2>4
  <1>4. \A u \in tasks : ~Submits(u) /\ WizardTask(u)
    BY <1>1 DEF WizardInv, WizardTask
  <1>5. server.app = None
    BY <1>1 DEF WizardInv
  <1>6. \A u \in tasks' : WizardTask(u)'
    BY <1>1, <1>2, <1>3, <1>4, <1>5 DEF WizardTask, Submits, Chosen
  <1>7. Chosen' = Chosen
    BY <1>2 DEF Chosen
  <1> QED BY <1>1, <1>2, <1>3, <1>4, <1>6, <1>7 DEF WizardInv, Submits

LEMMA ServeWizardKeeps ==
  ASSUME WizardInv, NEW t \in tasks, ServeWizard(t)
  PROVE  WizardInv'
  <1>1. /\ t.wire = "sent" /\ Submits(t) /\ WizardTask(t) /\ page \in WizardPage
        /\ UNCHANGED page /\ page.submitting /\ ~page.sent
        /\ server \in [app : Application \cup {None}, known : SUBSET RequiredDocs]
        /\ \A v \in tasks \ {t} : WizardTask(v) /\ ~Submits(v)
    <2>1. t.wire = "sent" /\ Submits(t) /\ UNCHANGED page
      BY DEF ServeWizard, Awaiting, Submits, Serve
    <2> QED BY <2>1 DEF WizardInv, WizardTask
  \* What the call has come to.
  <1> DEFINE Outcome(u) ==
        /\ IsTask(u) /\ u.fn = t.fn /\ u.arg = t.arg /\ u.wire \in {"ok", "failed"}
        /\ tasks' = (tasks \ {t}) \cup {u}
  <1>2. ASSUME NEW accepts, NEW after, Serve(t, accepts, after, None)
        PROVE  /\ server' # server => accepts /\ server' = after
               /\ \E u : /\ Outcome(u) /\ (u.wire = "ok" => accepts /\ server' = after)
                         /\ ~stale' => ~stale /\ (server' # server => u.wire = "ok")
    <2>1. /\ server' # server => accepts /\ server' = after
          /\ \E u : /\ IsTask(u) /\ u.fn = t.fn /\ u.arg = t.arg /\ u.no = t.no
                    /\ tasks' = (tasks \ {t}) \cup {u}
                    /\ u.wire \in {"ok", "failed"}
                    /\ u.wire = "ok" => accepts /\ server' = after /\ u.reply = None
                    /\ ~stale' =>
                         IF t.fn = "load" /\ u.wire = "ok"
                           THEN \A v \in tasks \ {t} : ~OnItsWay(v)
                           ELSE /\ ~stale
                                /\ server' # server => u.wire = "ok" /\ ~ReadUnderWay(t)
      BY <1>1, <1>2, Served DEF WizardTask
    <2> QED BY <1>1, <2>1 DEF Submits
  <1>3. ASSUME NEW u, Outcome(u), WizardTask(u)',
               server' \in [app : Application \cup {None}, known : SUBSET RequiredDocs]
        PROVE  WizardInv'
    <2>1. Submits(u)
      BY <1>1, <1>3 DEF Submits
    <2>2. \A v \in tasks \ {t} : WizardTask(v)'
      BY <1>1 DEF WizardTask, Submits, Chosen
    <2>3. t.fn # "details" /\ Chosen' = Chosen
      BY <1>1 DEF Submits, Chosen
    <2>4. page.saving => \E v \in tasks' : v.fn = "details"
      BY <1>3, <2>3 DEF WizardInv
    <2> QED BY <1>1, <1>3, <2>1, <2>2, <2>3, <2>4 DEF WizardInv, Submits
  <1>4. CASE Awaiting(t, {"upload"}) /\ Serve(t, t.arg.docs \subseteq page.files, server, None)
    <2>1. PICK u : Outcome(u) /\ (~stale' => ~stale) /\ server' = server
      BY <1>2, <1>4
    <2>2. WizardTask(u)'
      BY <1>1, <1>4, <2>1 DEF Awaiting, WizardTask, Submits
    <2> QED BY <1>1, <1>3, <2>1, <2>2
  <1>5. CASE /\ Awaiting(t, {"create"})
             /\ Serve(t, server.app = None /\ t.arg.room = t.arg.dorm,
                      [app |-> [dorm |-> t.arg.dorm, docs |-> {}, agreed |-> t.arg.agreed],
                       known |-> t.arg.docs], None)
    <2> DEFINE app == [dorm |-> t.arg.dorm, docs |-> {}, agreed |-> t.arg.agreed]
               after == [app |-> app, known |-> t.arg.docs]
    <2>1. PICK u : /\ server' # server => t.arg.room = t.arg.dorm /\ server' = after
                   /\ Outcome(u)
                   /\ u.wire = "ok" => t.arg.room = t.arg.dorm /\ server' = after
                   /\ ~stale' => ~stale /\ (server' # server => u.wire = "ok")
      <3> DEFINE accepts == server.app = None /\ t.arg.room = t.arg.dorm
      <3>1. Serve(t, accepts, after, None)
        BY <1>5
      <3> HIDE DEF after, Outcome, accepts
      <3>2. /\ server' # server => accepts /\ server' = after
            /\ \E u : /\ Outcome(u) /\ (u.wire = "ok" => accepts /\ server' = after)
                      /\ ~stale' => ~stale /\ (server' # server => u.wire = "ok")
        BY <1>2, <3>1
      <3>3. accepts => t.arg.room = t.arg.dorm
        BY DEF accepts
      <3> QED BY <3>2, <3>3
    <2>2. t.fn = "create" /\ t.arg \in Submission
      BY <1>1, <1>5 DEF Awaiting, WizardTask
    <2>3. t.arg.room = t.arg.dorm => app \in Application
      BY <2>2 DEF Submission, Application
    <2> HIDE DEF app
    <2>4. server' \in [app : Application \cup {None}, known : SUBSET RequiredDocs]
      BY <1>1, <2>1, <2>2, <2>3 DEF Submission
    <2>5. u.wire = "ok" => server'.app \in Application /\ server'.known = t.arg.docs
      BY <2>1, <2>3
    <2>6. u.wire # "ok" => stale' \/ server'.app = None
      BY <1>1, <2>1, <2>2 DEF WizardTask
    <2> HIDE DEF after
    <2>7. WizardTask(u)'
      BY <1>1, <2>1, <2>2, <2>5, <2>6 DEF WizardTask, Submits
    <2> QED BY <1>3, <2>1, <2>4, <2>7
  <1>6. CASE /\ Awaiting(t, {"attach"})
             /\ \/ Serve(t, server.app # None, [server EXCEPT !.app.docs = t.arg.docs], None)
                \/ \E s \in t.arg.docs :
                     /\ server' = [server EXCEPT !.app.docs = t.arg.docs \ {s}]
                     /\ Answered(t, "failed", None) /\ UNCHANGED <<page, stale>>
    <2>1. /\ t.fn = "attach" /\ t.arg \in Submission /\ server.app \in Application
          /\ server.known = t.arg.docs
      BY <1>1, <1>6 DEF Awaiting, WizardTask
    <2> DEFINE with(docs) == [server EXCEPT !.app.docs = docs]
    <2>2. PICK u : /\ Outcome(u) /\ (u.wire = "ok" => server' = with(t.arg.docs))
                   /\ server' = server \/ \E docs \in SUBSET t.arg.docs : server' = with(docs)
      <3> HIDE DEF Outcome
      <3>1. CASE Serve(t, server.app # None, with(t.arg.docs), None)
        <4> DEFINE after == with(t.arg.docs)
        <4> HIDE DEF after, with
        <4>1. PICK u : /\ server' # server => server' = after
                       /\ Outcome(u) /\ (u.wire = "ok" => server' = after)
          BY <1>2, <3>1 DEF after
        <4> QED BY <4>1 DEF after
      <3>2. CASE \E s \in t.arg.docs :
                   server' = with(t.arg.docs \ {s}) /\ Answered(t, "failed", None)
        <4> HIDE DEF with
        <4>1. PICK docs \in SUBSET t.arg.docs :
                server' = with(docs) /\ Answered(t, "failed", None)
          BY <3>2
        <4> DEFINE u == [t EXCEPT !.wire = "failed", !.reply = None]
        <4>2. IsTask(u) /\ u.fn = t.fn /\ u.arg = t.arg /\ u.wire = "failed"
          BY <1>1 DEF WizardTask, IsTask
        <4>3. tasks' = (tasks \ {t}) \cup {u}
          BY <4>1 DEF Answered, GoOn
        <4> HIDE DEF u
        <4>4. Outcome(u)
          BY <4>2, <4>3 DEF Outcome
        <4> QED BY <4>1, <4>2, <4>4
      <3> QED BY <1>6, <3>1, <3>2
    <2>3. /\ server' \in [app : Application \cup {None}, known : SUBSET RequiredDocs]
          /\ server'.app \in Application /\ server'.known = t.arg.docs
          /\ u.wire = "ok" => server'.app.docs = t.arg.docs
      BY <1>1, <2>1, <2>2 DEF Submission, Application
    <2>4. WizardTask(u)'
      BY <1>1, <2>1, <2>2, <2>3 DEF WizardTask, Submits
    <2> QED BY <1>3, <2>2, <2>3, <2>4
  <1>7. CASE Awaiting(t, {"rollback"}) /\ Serve(t, TRUE, [server EXCEPT !.app = None], None)
    <2> DEFINE after == [server EXCEPT !.app = None]
    <2>1. /\ after \in [app : Application \cup {None}, known : SUBSET RequiredDocs]
          /\ after.app = None
      BY <1>1
    <2> HIDE DEF after
    <2>2. PICK u : /\ server' \in {server, after} /\ Outcome(u)
                   /\ u.wire = "ok" => server' = after
      BY <1>2, <1>7 DEF after
    <2>3. WizardTask(u)'
      BY <1>1, <1>7, <2>1, <2>2 DEF Awaiting, WizardTask, Submits
    <2> QED BY <1>1, <1>3, <2>1, <2>2, <2>3
  <1> QED BY <1>4, <1>5, <1>6, <1>7 DEF ServeWizard

LEMMA SubmissionKeeps ==
  ASSUME WizardInv, NEW t \in tasks,
         SubmissionGoesOn(t) \/ SubmissionFails(t) \/ RollbackReturns(t)
  PROVE  WizardInv'
  <1>1. /\ Submits(t) /\ WizardTask(t) /\ page \in WizardPage /\ page.submitting /\ ~page.sent
        /\ UNCHANGED <<server, stale>>
        /\ \A v \in tasks \ {t} : WizardTask(v) /\ ~Submits(v)
    <2>1. Submits(t) /\ UNCHANGED <<server, stale>>
      BY DEF SubmissionGoesOn, SubmissionFails, RollbackReturns, Submits
    <2> QED BY <2>1 DEF WizardInv, WizardTask
  <1>2. ASSUME NEW fn \in {"create", "attach", "rollback"}, NEW arg,
               GoOn(t, New(fn, arg)), UNCHANGED page,
               fn \in {"create", "attach"} => arg \in Submission,
               fn = "create" => stale \/ server.app = None,
               fn = "attach" => server.app \in Application /\ server.known = arg.docs
        PROVE  WizardInv'
    <2>1. PICK new : /\ IsTask(new) /\ new.fn = fn /\ new.arg = arg /\ new.wire = "sent"
                     /\ tasks' = (tasks \ {t}) \cup {new}
      <3> DEFINE u == New(fn, arg)
      <3>1. IsTask(u) /\ u.fn = fn /\ u.arg = arg /\ u.wire = "sent"
        BY NewTask
      <3>2. tasks' = (tasks \ {t}) \cup {u}
        BY <1>2 DEF GoOn
      <3> HIDE DEF u
      <3> QED BY <3>1, <3>2
    <2>6. UNCHANGED <<page, server, stale>>
      BY <1>1, <1>2
    <2>7. WizardTask(new) /\ Submits(new)
      <3>1. CASE fn = "create"
        BY <1>1, <1>2, <2>1, <3>1 DEF WizardTask, Submits
      <3>2. CASE fn = "attach"
        BY <1>1, <1>2, <2>1, <3>2 DEF WizardTask, Submits
      <3>3. CASE fn = "rollback"
        BY <1>1, <1>2, <2>1, <3>3 DEF WizardTask, Submits
      <3> QED BY <1>2, <3>1, <3>2, <3>3
    <2>3. WizardTask(new)'
      BY <2>6, <2>7 DEF WizardTask, Submits, Chosen
    <2>4. \A v \in tasks \ {t} : WizardTask(v)'
      BY <1>1, <1>2 DEF WizardTask, Submits, Chosen
    <2>5. Chosen' = Chosen /\ t.fn # "details"
      BY <1>1, <1>2 DEF Chosen, Submits
    <2>8. /\ \A v \in tasks' : WizardTask(v)'
          /\ \A r, v \in tasks' : Submits(r) /\ Submits(v) => r = v
          /\ \E v \in tasks' : Submits(v)
      BY <1>1, <2>1, <2>3, <2>4, <2>7
    <2>9. page.saving => \E v \in tasks' : v.fn = "details"
      BY <2>1, <2>5 DEF WizardInv
    <2> QED BY <2>5, <2>6, <2>8, <2>9 DEF WizardInv, Submits
  <1>3. ASSUME End(t), NEW left \in BOOLEAN, NEW sent \in BOOLEAN,
               page' = [page EXCEPT !.submitting = FALSE, !.left = left, !.sent = sent],
               ~sent /\ ~left /\ ~stale => server.app = None,
               sent => server.app # None /\ server.app.docs = server.known
        PROVE  WizardInv'
    <2>1. /\ page' \in WizardPage /\ ~page'.submitting /\ page'.left = left
          /\ page'.sent = sent /\ page'.step = page.step /\ page'.saving = page.saving
          /\ page'.dorm = page.dorm /\ page'.room = page.room
          /\ page'.agreed = page.agreed /\ page'.contract = page.contract
      <3> DEFINE p == [page EXCEPT !.submitting = FALSE, !.left = left, !.sent = sent]
      <3>1. p \in WizardPage
        BY <1>1, <1>3 DEF WizardPage
      <3>2. /\ ~p.submitting /\ p.left = left /\ p.sent = sent /\ p.step = page.step
            /\ p.saving = page.saving /\ p.dorm = page.dorm /\ p.room = page.room
            /\ p.agreed = page.agreed /\ p.contract = page.contract
        BY <1>1 DEF WizardPage
      <3>3. page' = p
        BY <1>3
      <3> HIDE DEF p
      <3> QED BY <3>1, <3>2, <3>3
    <2>2. tasks' = tasks \ {t}
      BY <1>3 DEF End
    <2>3. \A v \in tasks' : WizardTask(v)' /\ ~Submits(v)
      BY <1>1, <2>1, <2>2 DEF WizardTask, Submits, Chosen
    <2>4. Chosen' = Chosen /\ t.fn # "details"
      BY <1>1, <2>1 DEF Chosen, Submits
    <2> QED BY <1>1, <1>3, <2>1, <2>2, <2>3, <2>4 DEF WizardInv
  <1>4. page.sent = FALSE /\ page.left \in BOOLEAN
    BY <1>1 DEF WizardPage
  <1>5. CASE SubmissionGoesOn(t)
    <2>1. CASE t.fn = "upload" /\ GoOn(t, New("create", t.arg)) /\ UNCHANGED page
      BY <1>1, <1>2, <2>1 DEF WizardTask
    <2>2. CASE t.fn = "create" /\ GoOn(t, New("attach", t.arg)) /\ UNCHANGED page
      <3>1. t.wire = "ok"
        BY <1>5 DEF SubmissionGoesOn
      <3> QED BY <1>1, <1>2, <2>2, <3>1 DEF WizardTask
    <2>3. CASE /\ t.fn = "attach" /\ End(t)
               /\ page' = [page EXCEPT !.sent = TRUE, !.submitting = FALSE]
      <3>1. page' = [page EXCEPT !.submitting = FALSE, !.left = page.left, !.sent = TRUE]
        BY <1>1, <2>3 DEF WizardPage
      <3>2. t.wire = "ok"
        BY <1>5 DEF SubmissionGoesOn
      <3>3. server.app \in Application /\ server.app.docs = server.known
        BY <1>1, <2>3, <3>2 DEF WizardTask
      <3>4. server.app # None
        BY <3>3, WizardAssumption DEF Application, WizardAssumption
      <3> QED BY <1>3, <1>4, <2>3, <3>1, <3>3, <3>4
    <2> QED BY <1>5, <2>1, <2>2, <2>3 DEF SubmissionGoesOn
  <1>6. CASE SubmissionFails(t)
    <2>1. CASE t.fn = "attach"
      <3>1. GoOn(t, New("rollback", None)) /\ UNCHANGED page
        BY <1>6, <2>1 DEF SubmissionFails
      <3> QED BY <1>2, <3>1
    <2>2. CASE t.fn # "attach"
      <3>1. End(t) /\ page' = [page EXCEPT !.submitting = FALSE]
            /\ t.fn \in {"upload", "create"} /\ t.wire = "failed"
        BY <1>6, <2>2 DEF SubmissionFails
      <3>2. page' = [page EXCEPT !.submitting = FALSE, !.left = page.left, !.sent = FALSE]
        BY <1>1, <1>4, <3>1 DEF WizardPage
      <3>3. stale \/ server.app = None
        BY <1>1, <3>1 DEF WizardTask
      <3> QED BY <1>3, <1>4, <3>1, <3>2, <3>3
    <2> QED BY <2>1, <2>2
  <1>7. CASE RollbackReturns(t)
    <2> DEFINE left == t.wire = "failed"
    <2>1. End(t) /\ page' = [page EXCEPT !.submitting = FALSE, !.left = left] /\ t.fn = "rollback"
          /\ t.wire # "sent"
      BY <1>7 DEF RollbackReturns
    <2>2. ~left => server.app = None
      BY <1>1, <2>1 DEF WizardTask, IsTask
    <2>3. left \in BOOLEAN
      OBVIOUS
    <2> HIDE DEF left
    <2>4. page' = [page EXCEPT !.submitting = FALSE, !.left = left, !.sent = FALSE]
      BY <1>1, <1>4, <2>1 DEF WizardPage
    <2> QED BY <1>3, <2>1, <2>2, <2>3, <2>4
  <1> QED BY <1>5, <1>6, <1>7

LEMMA WizardKept == WizardInv /\ WizardNext => WizardInv'
  <1> SUFFICES ASSUME WizardInv, WizardNext PROVE WizardInv'
    OBVIOUS
  <1>1. CASE (\E d \in Dorms : ChooseDormitory(d)) \/ SelectRoom
    BY <1>1, ChoiceKeeps
  <1>2. CASE ToggleBenefit \/ SetDocFiles \/ SetContractAgreed
    BY <1>2, FormEdits
  <1>3. CASE GoNext \/ GoBack \/ \E n \in {1, 2} : Change(n)
    BY <1>3, StepsKeep
  <1>4. CASE HandleSubmit
    BY <1>4, SubmitKeeps
  <1>5. ASSUME NEW t \in tasks,
               \/ \E ok \in BOOLEAN : \/ DormitoriesReturn(t, ok) \/ WizardListReturns(t, ok)
                                      \/ DetailsReturn(t, ok) \/ ContractReturns(t, ok)
               \/ ServeWizard(t) \/ ProfileReturns(t)
               \/ SubmissionGoesOn(t) \/ SubmissionFails(t) \/ RollbackReturns(t)
        PROVE  WizardInv'
    <2>1. CASE \E ok \in BOOLEAN :
                 \/ DormitoriesReturn(t, ok) \/ ProfileReturns(t) \/ WizardListReturns(t, ok)
                 \/ ContractReturns(t, ok)
      BY <2>1, FormReplies
    <2>2. CASE \E ok \in BOOLEAN : DetailsReturn(t, ok)
      BY <2>2, DetailsKeep
    <2>3. CASE ServeWizard(t)
      BY <2>3, ServeWizardKeeps
    <2>4. CASE SubmissionGoesOn(t) \/ SubmissionFails(t) \/ RollbackReturns(t)
      BY <2>4, SubmissionKeeps
    <2> QED BY <1>5, <2>1, <2>2, <2>3, <2>4
  <1> QED BY <1>1, <1>2, <1>3, <1>4, <1>5 DEF WizardNext

LEMMA ProfileAwaited ==
  ASSUME WizardInv, Profiled, page'.asked = page.asked \/ page'.asked # None,
         \A t \in tasks : t.fn = "profile" => t \in tasks'
  PROVE  Profiled'
  BY DEF Profiled

LEMMA ProfiledKept == WizardInv /\ Profiled /\ WizardNext => Profiled'
  <1> SUFFICES ASSUME WizardInv, Profiled, WizardNext PROVE Profiled'
    OBVIOUS
  <1>1. page \in WizardPage /\ \A details \in {{}, {"details"}} : details # None
    BY WizardAssumption DEF WizardInv, WizardAssumption
  <1>2. CASE (\E d \in Dorms : ChooseDormitory(d)) \/ SelectRoom
    <2>1. \/ \E d \in Dorms : page' = [page EXCEPT !.dorm = d, !.room = None]
          \/ \E r : page' = [page EXCEPT !.room = r]
      BY <1>2, Zenon DEF ChooseDormitory, SelectRoom
    <2>2. page'.asked = page.asked
      BY <1>1, <2>1 DEF WizardPage
    <2>3. tasks \subseteq tasks'
      BY <1>2 DEF ChooseDormitory, SelectRoom, Start
    <2> QED BY <2>2, <2>3, ProfileAwaited
  <1>3. CASE ToggleBenefit \/ SetDocFiles \/ SetContractAgreed
    <2>1. \/ \E c : page' = [page EXCEPT !.chosen = c]
          \/ \E f : page' = [page EXCEPT !.files = f]
          \/ \E a : page' = [page EXCEPT !.agreed = a]
      BY <1>3, Zenon DEF ToggleBenefit, SetDocFiles, SetContractAgreed
    <2>2. page'.asked = page.asked
      BY <1>1, <2>1 DEF WizardPage
    <2>3. tasks \subseteq tasks'
      BY <1>3 DEF ToggleBenefit, SetDocFiles, SetContractAgreed, Start
    <2> QED BY <2>2, <2>3, ProfileAwaited
  \* A step of the wizard keeps what is asked for.
  <1>4. ASSUME NEW n, NEW p \in WizardPage, NEW ts, ToStep(n, p, ts),
               p.asked = page.asked \/ p.asked # None,
               \A t \in tasks : t.fn = "profile" => t \in ts
        PROVE  Profiled'
    <2>1. \E c : page' = [p EXCEPT !.step = n, !.contract = c]
      BY <1>4, Zenon DEF ToStep
    <2>2. page'.asked = p.asked
      BY <2>1 DEF WizardPage
    <2>3. \A t \in ts : t.fn = "profile" => t \in tasks'
      BY <1>4 DEF ToStep, GivenUp
    <2> QED BY <1>4, <2>2, <2>3, ProfileAwaited
  <1>5. ASSUME NEW p \in WizardPage, EnterFirst(p), p.asked = page.asked PROVE Profiled'
    <2>1. page'.asked = p.asked
      BY <1>5 DEF EnterFirst, WizardPage
    <2>2. \A t \in tasks : t.fn = "profile" => t \in tasks'
      BY <1>5 DEF EnterFirst, GivenUp
    <2> QED BY <1>5, <2>1, <2>2, ProfileAwaited
  <1>6. CASE GoNext
    <2>1. CASE \E n \in {2, 3, 4} : ToStep(n, page, tasks)
      BY <1>1, <1>4, <2>1
    <2>2. CASE page' = [page EXCEPT !.saving = TRUE] /\ Start(New("details", None))
      <3>1. page'.asked = page.asked
        BY <1>1, <2>2 DEF WizardPage
      <3> QED BY <2>2, <3>1, ProfileAwaited DEF Start
    <2> QED BY <1>6, <2>1, <2>2 DEF GoNext
  <1>7. CASE GoBack \/ \E n \in {1, 2} : Change(n)
    <2> DEFINE reset == [page EXCEPT !.agreed = None]
    <2>1. reset \in WizardPage /\ reset.asked = page.asked
      BY <1>1 DEF WizardPage
    <2>2. \E p \in {page, reset} : EnterFirst(p) \/ \E n : ToStep(n, p, tasks)
      BY <1>7 DEF GoBack, Change
    <2> HIDE DEF reset
    <2> QED BY <1>1, <1>4, <1>5, <2>1, <2>2
  <1>8. CASE HandleSubmit
    <2>1. page' = [page EXCEPT !.submitting = TRUE] /\ tasks \subseteq tasks'
      BY <1>8 DEF HandleSubmit, Start
    <2>2. page'.asked = page.asked
      BY <1>1, <2>1 DEF WizardPage
    <2> QED BY <2>1, <2>2, ProfileAwaited
  <1>9. ASSUME NEW t \in tasks, NEW ok \in BOOLEAN,
               \/ DormitoriesReturn(t, ok) \/ WizardListReturns(t, ok)
               \/ ContractReturns(t, ok)
        PROVE  Profiled'
    <2>1. t.fn # "profile" /\ tasks' = tasks \ {t}
      BY <1>9 DEF DormitoriesReturn, WizardListReturns, ContractReturns, Awaiting, End
    <2>2. \/ \E r : page' = [page EXCEPT !.ready = r]
          \/ \E b : page' = [page EXCEPT !.benefitDocs = b]
          \/ \E r, d : page' = [page EXCEPT !.rooms = r, !.dormDocs = d]
          \/ \E c : page' = [page EXCEPT !.contract = c]
          \/ page' = page
      <3>1. CASE DormitoriesReturn(t, ok)
        BY <3>1, Zenon DEF DormitoriesReturn
      <3>2. CASE WizardListReturns(t, ok)
        BY <3>2, Zenon DEF WizardListReturns
      <3>3. CASE ContractReturns(t, ok)
        BY <3>3, Zenon DEF ContractReturns
      <3> QED BY <1>9, <3>1, <3>2, <3>3
    <2>3. page'.asked = page.asked
      BY <1>1, <2>2 DEF WizardPage
    <2> QED BY <2>1, <2>3, ProfileAwaited
  <1>10. ASSUME NEW t \in tasks, ProfileReturns(t) PROVE Profiled'
    <2>1. PICK lacks \in {{}, {"details"}} :
            page' = [page EXCEPT !.asked = IF @ = None THEN lacks ELSE @]
      BY <1>10 DEF ProfileReturns
    <2>2. page'.asked # None
      BY <1>1, <2>1 DEF WizardPage
    <2> QED BY <2>2 DEF Profiled
  <1>11. ASSUME NEW t \in tasks, NEW ok \in BOOLEAN, DetailsReturn(t, ok) PROVE Profiled'
    <2>1. t.fn # "profile"
      BY <1>11 DEF DetailsReturn, Awaiting
    <2>2. CASE ~ok
      <3>1. tasks' = tasks \ {t} /\ page' = [page EXCEPT !.saving = FALSE]
        BY <1>11, <2>2 DEF DetailsReturn, End
      <3>2. page'.asked = page.asked
        BY <1>1, <3>1 DEF WizardPage
      <3> QED BY <2>1, <3>1, <3>2, ProfileAwaited
    <2>3. CASE ok
      <3> DEFINE p == [page EXCEPT !.saving = FALSE, !.asked = {}]
      <3>1. p \in WizardPage /\ p.asked # None
        BY <1>1 DEF WizardPage
      <3>2. \E n : ToStep(n, p, tasks \ {t})
        BY <1>11, <2>3 DEF DetailsReturn
      <3> HIDE DEF p
      <3> QED BY <1>4, <2>1, <3>1, <3>2
    <2> QED BY <2>2, <2>3
  <1>12. ASSUME NEW t \in tasks, ServeWizard(t) PROVE Profiled'
    <2>1. page' = page /\ t.fn # "profile" /\ \A u \in tasks \ {t} : u \in tasks'
      BY <1>12 DEF ServeWizard, Serve, Awaiting, Answered, GoOn
    <2> QED BY <2>1, ProfileAwaited
  <1>13. ASSUME NEW t \in tasks,
                SubmissionGoesOn(t) \/ SubmissionFails(t) \/ RollbackReturns(t)
         PROVE  Profiled'
    <2>1. t.fn # "profile" /\ \A u \in tasks \ {t} : u \in tasks'
      BY <1>13 DEF SubmissionGoesOn, SubmissionFails, RollbackReturns, GoOn, End
    <2>2. \/ page' = page
          \/ \E s : page' = [page EXCEPT !.sent = s, !.submitting = FALSE]
          \/ page' = [page EXCEPT !.submitting = FALSE]
          \/ \E l : page' = [page EXCEPT !.submitting = FALSE, !.left = l]
      <3>1. CASE SubmissionGoesOn(t)
        BY <3>1, Zenon DEF SubmissionGoesOn
      <3>2. CASE SubmissionFails(t)
        BY <3>2, Zenon DEF SubmissionFails
      <3>3. CASE RollbackReturns(t)
        BY <3>3, Zenon DEF RollbackReturns
      <3> QED BY <1>13, <3>1, <3>2, <3>3
    <2>3. page'.asked = page.asked
      BY <1>1, <2>2 DEF WizardPage
    <2> QED BY <2>1, <2>3, ProfileAwaited
  <1> QED BY <1>2, <1>3, <1>6, <1>7, <1>8, <1>9, <1>10, <1>11, <1>12, <1>13 DEF WizardNext

LEMMA WizardRest ==
  WizardInv /\ Profiled =>
    /\ NoHalfApplication /\ AgreedIsSent
    /\ tasks = {} => (WizardBusy => WizardUnread) /\ WizardDone
  <1> SUFFICES ASSUME WizardInv, Profiled
               PROVE  /\ NoHalfApplication /\ AgreedIsSent
                      /\ tasks = {} => (WizardBusy => WizardUnread) /\ WizardDone
    OBVIOUS
  <1>1. tasks = {} => ~page.submitting /\ ~page.saving /\ page.asked # None
    BY DEF WizardInv, Profiled
  <1>2. server.app # None => server.app \in Application
    BY DEF WizardInv
  <1> QED BY <1>1, <1>2 DEF WizardInv, NoHalfApplication, AgreedIsSent, Application,
                             WizardUnread, WizardDone

LEMMA WizardIdle == WizardInv /\ Profiled /\ UNCHANGED vars => WizardInv' /\ Profiled'
  BY DEF vars, WizardInv, WizardTask, Submits, Chosen, Profiled

LEMMA WizardAlways == Spec => [](Named /\ (page.at = "wizard" => WizardInv /\ Profiled))
  <1> DEFINE IInv == Named /\ (page.at = "wizard" => WizardInv /\ Profiled)
  <1>1. Init => IInv
    BY PortalBegins, OfficeBegins, WizardBegins DEF Init
  <1>2. IInv /\ [Next]_vars => IInv'
    <2> SUFFICES ASSUME IInv, [Next]_vars PROVE IInv'
      OBVIOUS
    <2>1. Named' /\ page'.at = page.at
      BY NextStays DEF Named, Stays
    <2> QED BY <2>1, StepOfPage, WizardKept, ProfiledKept, WizardIdle
  <1> QED BY <1>1, <1>2, PTL DEF Spec

\* A submission that failed leaves no application behind, unless the rollback
\* failed too or the answer of a call was lost (handleSubmit, CancelOwn).
THEOREM FailureIsUndone == Spec => []NoHalfApplication
  <1>1. Named /\ (page.at = "wizard" => WizardInv /\ Profiled) => NoHalfApplication
    BY WizardRest DEF NoHalfApplication
  <1> QED BY <1>1, WizardAlways, PTL

\* The contract that was on the screen when the student agreed is the one of
\* the dormitory and the room applied for, whatever was changed, gone back to
\* or answered late in between (goBack, the cancelled flag of the contract).
THEOREM AgreementIsSent == Spec => []AgreedIsSent
  <1>1. Named /\ (page.at = "wizard" => WizardInv /\ Profiled) => AgreedIsSent
    BY WizardRest DEF AgreedIsSent
  <1> QED BY <1>1, WizardAlways, PTL

------------------------------------------------------------------------------
\* Registration: who was warned.

RegisterPage ==
  [at : {"register"}, step : {"form", "done"}, pending : Typed \cup {None}, error : BOOLEAN,
   submitting : BOOLEAN, continuing : BOOLEAN, warned : SUBSET Typed]
RegisterRows == [account : Typed \cup {None}, bogus : SUBSET Typed]
RegisterTask(t) ==
  /\ DOMAIN t = {"fn", "no", "wire", "arg", "reply"}
  /\ t.fn \in {"register", "registerAnyway"} /\ t.arg \in Typed
  /\ t.wire \in {"sent", "ok", "failed", "unverifiable"}
  /\ t.fn = "registerAnyway" => t.arg \in page.warned /\ t.wire # "unverifiable"
  /\ t.wire = "ok" => server.account # None
RegisterInv ==
  /\ page \in RegisterPage /\ server \in RegisterRows
  /\ \A t \in tasks : RegisterTask(t)
  /\ page.submitting => \E t \in tasks : t.fn = "register"
  /\ page.continuing => \E t \in tasks : t.fn = "registerAnyway"
  /\ page.pending # None => page.pending \in page.warned
  /\ RegisterDone

LEMMA RegisterBegins == RegisterInit => RegisterInv
  BY AccountAssumption DEF RegisterInit, RegisterInv, RegisterPage, RegisterRows,
                           RegisterDone

LEMMA RegisterAsked ==
  ASSUME RegisterInv,
         (\E v \in Typed : Register(v)) \/ HandleContinueAnyway \/ ChangeAddress
  PROVE  RegisterInv'
  <1>1. page \in RegisterPage /\ UNCHANGED <<server, stale>>
    BY DEF RegisterInv, Register, HandleContinueAnyway, ChangeAddress
  <1>2. /\ page' \in RegisterPage /\ page'.step = page.step /\ page'.warned = page.warned
        /\ page'.pending \in {None, page.pending}
    BY <1>1 DEF RegisterPage, Register, HandleContinueAnyway, ChangeAddress
  <1>3. CASE \E v \in Typed : Register(v)
    <2>1. PICK v \in Typed : Register(v)
      BY <1>3
    <2>2. PICK u : Fresh(u, "register", v) /\ tasks' = tasks \cup {u}
      BY <2>1, TapStarts DEF Register
    <2>3. page'.continuing = page.continuing
      BY <1>1, <2>1 DEF Register, RegisterPage
    <2> QED BY <1>1, <1>2, <2>2, <2>3 DEF RegisterInv, RegisterTask, RegisterDone, Fresh,
                                          IsTask
  <1>4. CASE HandleContinueAnyway
    <2>1. PICK u : Fresh(u, "registerAnyway", page.pending) /\ tasks' = tasks \cup {u}
      BY <1>4, TapStarts DEF HandleContinueAnyway
    <2>2. page'.submitting = page.submitting /\ page.pending # None
      BY <1>1, <1>4 DEF HandleContinueAnyway, RegisterPage
    <2> QED BY <1>1, <1>2, <2>1, <2>2 
            DEF RegisterInv, RegisterTask, RegisterDone, RegisterPage, Fresh, IsTask
  <1>5. CASE ChangeAddress
    <2>1. /\ page'.submitting = page.submitting /\ page'.continuing = page.continuing
          /\ tasks' = tasks
      BY <1>1, <1>5 DEF ChangeAddress, RegisterPage
    <2> QED BY <1>1, <1>2, <2>1 DEF RegisterInv, RegisterTask, RegisterDone
  <1> QED BY <1>3, <1>4, <1>5

LEMMA ServeRegisterKeeps ==
  ASSUME RegisterInv, NEW t \in tasks, ServeRegister(t)
  PROVE  RegisterInv'
  <1>1. RegisterTask(t) /\ t.wire = "sent" /\ server \in RegisterRows /\ page \in RegisterPage
    BY DEF RegisterInv, ServeRegister, Awaiting
  <1>2. PICK u : /\ DOMAIN u = {"fn", "no", "wire", "arg", "reply"}
                 /\ u.fn = t.fn /\ u.arg = t.arg /\ tasks' = (tasks \ {t}) \cup {u}
                 /\ u.wire \in {"ok", "failed", "unverifiable"}
                 /\ u.wire = "ok" => server'.account # None
                 /\ u.wire = "unverifiable" => t.fn = "register"
    <2> DEFINE accepts == server.account = None
                          /\ (t.fn = "registerAnyway" \/ t.arg \notin server.bogus)
               after == [server EXCEPT !.account = t.arg]
    <2>1. CASE Serve(t, accepts, after, None)
      <3>1. PICK u : Ended(t, u, accepts, after, None)
        BY <1>1, <2>1, CallEnds DEF RegisterTask, IsTask
      <3>2. after.account # None
        BY <1>1, AccountAssumption DEF RegisterTask, RegisterRows
      <3> HIDE DEF after, accepts
      <3> QED BY <3>1, <3>2 DEF Ended, IsTask
    <2>2. CASE t.fn = "register" /\ Answered(t, "unverifiable", None)
      <3> DEFINE u == [t EXCEPT !.wire = "unverifiable", !.reply = None]
      <3>1. /\ DOMAIN u = {"fn", "no", "wire", "arg", "reply"} /\ u.fn = t.fn /\ u.arg = t.arg
            /\ u.wire = "unverifiable"
        BY <1>1 DEF RegisterTask
      <3>2. tasks' = (tasks \ {t}) \cup {u}
        BY <2>2 DEF Answered, GoOn
      <3> HIDE DEF u
      <3> QED BY <2>2, <3>1, <3>2
    <2> QED BY <2>1, <2>2 DEF ServeRegister
  <1>3. /\ UNCHANGED page /\ server' \in RegisterRows
        /\ \/ server' = server
           \/ /\ server'.account \in Typed /\ server'.bogus = server.bogus
              /\ server'.account \in server.bogus => server'.account \in page.warned
    <2>1. \/ UNCHANGED <<page, server>>
          \/ /\ UNCHANGED page /\ server' = [server EXCEPT !.account = t.arg]
             /\ t.fn = "registerAnyway" \/ t.arg \notin server.bogus
      BY DEF ServeRegister, Serve
    <2> QED BY <1>1, <2>1 DEF RegisterRows, RegisterTask
  <1>4. server.account # None => server'.account # None
    BY <1>3, AccountAssumption
  <1>5. \A v \in tasks' : RegisterTask(v)'
    BY <1>1, <1>2, <1>3, <1>4 DEF RegisterInv, RegisterTask
  <1>6. RegisterDone'
    BY <1>3, <1>4 DEF RegisterInv, RegisterDone
  <1>7. /\ page.submitting => \E v \in tasks' : v.fn = "register"
        /\ page.continuing => \E v \in tasks' : v.fn = "registerAnyway"
    BY <1>2 DEF RegisterInv
  <1> QED BY <1>1, <1>3, <1>5, <1>6, <1>7 DEF RegisterInv

LEMMA RegisterReplies ==
  ASSUME RegisterInv, NEW t \in tasks, RegisterReturns(t) \/ RegisterAnywayReturns(t)
  PROVE  RegisterInv'
  <1>1. /\ RegisterTask(t) /\ page \in RegisterPage /\ UNCHANGED <<server, stale>>
        /\ tasks' = tasks \ {t}
    BY DEF RegisterInv, RegisterReturns, RegisterAnywayReturns, End
  <1>2. /\ page' \in RegisterPage /\ page.warned \subseteq page'.warned
        /\ page'.step = "done" => page.step = "done" \/ t.wire = "ok"
        /\ page'.pending # None => page'.pending \in {page.pending, t.arg}
        /\ page'.pending = t.arg => page'.pending = page.pending \/ t.arg \in page'.warned
        /\ page'.submitting => page.submitting /\ t.fn # "register"
        /\ page'.continuing => page.continuing /\ t.fn # "registerAnyway"
    <2>1. CASE RegisterReturns(t)
      <3> DEFINE pending == IF t.wire = "unverifiable" THEN t.arg ELSE page.pending
                 warned == IF t.wire = "unverifiable" THEN page.warned \cup {t.arg} ELSE page.warned
                 step == IF t.wire = "ok" THEN "done" ELSE page.step
      <3>1. page' = [page EXCEPT !.submitting = FALSE, !.step = step, !.pending = pending,
                       !.warned = warned, !.error = t.wire = "failed"]
        BY <1>1, <2>1 DEF RegisterReturns, RegisterPage
      <3>2. /\ pending \in Typed \cup {None} /\ warned \in SUBSET Typed /\ step \in {"form", "done"}
            /\ page.warned \subseteq warned /\ t.fn = "register"
            /\ pending # page.pending => pending = t.arg /\ t.arg \in warned
            /\ step = "done" => page.step = "done" \/ t.wire = "ok"
        BY <1>1, <2>1 DEF RegisterReturns, RegisterPage, RegisterTask
      <3> HIDE DEF pending, warned, step
      <3> QED BY <1>1, <3>1, <3>2 DEF RegisterPage
    <2>2. CASE RegisterAnywayReturns(t)
      BY <1>1, <2>2, AccountAssumption DEF RegisterAnywayReturns, RegisterPage, RegisterTask
    <2> QED BY <2>1, <2>2
  <1>3. \A u \in tasks' : RegisterTask(u)'
    BY <1>1, <1>2 DEF RegisterInv, RegisterTask
  <1>4. RegisterDone'
    BY <1>1, <1>2 DEF RegisterInv, RegisterDone, RegisterTask
  <1> QED BY <1>1, <1>2, <1>3, <1>4 DEF RegisterInv

LEMMA RegisterKept == RegisterInv /\ RegisterNext => RegisterInv'
  BY RegisterAsked, ServeRegisterKeeps, RegisterReplies DEF RegisterNext

LEMMA RegisterIdle == RegisterInv /\ UNCHANGED vars => RegisterInv'
  BY DEF vars, RegisterInv, RegisterTask, RegisterDone

LEMMA RegisterRest == RegisterInv => RegisterDone /\ (tasks = {} => ~RegisterBusy)
  BY DEF RegisterInv, RegisterBusy

------------------------------------------------------------------------------
\* EditProfilePage: four forms, each with one call under way at most.

Texts == {"blank", "stored"} \cup Typed
EditPage ==
  [at : {"edit"}, text : Texts, busy : SUBSET Forms, done : SUBSET Forms,
   sent : [Forms -> Texts], touched : BOOLEAN]
FormOf(t) == IF t.fn = "upload" THEN "avatar" ELSE t.fn
EditTask(t) ==
  /\ IsTask(t) /\ t.fn \in {"load", "upload"} \cup Forms
  /\ t.fn = "load" /\ t.wire = "ok" => t.reply \in Texts
  /\ t.fn # "load" => FormOf(t) \in page.busy /\ t.arg = page.sent[FormOf(t)]
  /\ t.fn \in Forms /\ t.wire = "ok" => server[t.fn] = t.arg
\* What was saved is what the fields hold, until they are filled in anew.
EditShown == "details" \in page.done /\ ~page.touched => page.text = server["details"]
EditInv ==
  /\ page \in EditPage /\ server \in [Forms -> Texts]
  /\ \A t \in tasks : EditTask(t)
  /\ \A t, u \in tasks : FormOf(t) = FormOf(u) => t = u
  /\ \A f \in page.busy : \E t \in tasks : FormOf(t) = f
  /\ page.done \cap page.busy = {}
  /\ "details" \in page.busy /\ ~page.touched => page.text = page.sent["details"]
  /\ \A f \in page.done : server[f] = page.sent[f]
  /\ EditShown

LEMMA EditBegins == EditInit => EditInv
  <1> SUFFICES ASSUME EditInit PROVE EditInv
    OBVIOUS
  <1>1. page \in EditPage /\ page.busy = {} /\ page.done = {} /\ server \in [Forms -> Texts]
    BY DEF EditInit, EditPage, Texts
  <1>2. PICK u : IsTask(u) /\ u.fn = "load" /\ u.wire = "sent" /\ tasks = {u}
    <2> DEFINE u == Task("load", 1, None)
    <2>1. IsTask(u) /\ u.fn = "load" /\ u.wire = "sent"
      BY FirstTask
    <2>2. tasks = {u}
      BY DEF EditInit
    <2> HIDE DEF u
    <2> QED BY <2>1, <2>2
  <1>3. \A t \in tasks : EditTask(t)
    BY <1>2 DEF EditTask, Forms
  <1> QED BY <1>1, <1>2, <1>3 DEF EditInv, EditShown

LEMMA EditTyped ==
  ASSUME EditInv, RefusePassword \/ \E v \in Typed : SetDetail(v)
  PROVE  EditInv'
  <1>1. page \in EditPage /\ UNCHANGED <<tasks, server, stale>>
    BY DEF EditInv, RefusePassword, SetDetail
  <1>2. /\ page' \in EditPage /\ page'.busy = page.busy /\ page'.sent = page.sent
        /\ page'.done \subseteq page.done
        /\ \/ page'.text = page.text /\ page'.touched = page.touched
           \/ "details" \notin page'.done /\ ("details" \in page.busy => page'.touched)
    <2>1. CASE RefusePassword
      BY <1>1, <2>1 DEF RefusePassword, EditPage
    <2>2. CASE \E v \in Typed : SetDetail(v)
      <3> DEFINE touched == "details" \in page.busy
      <3>1. PICK v \in Typed :
              page' = [page EXCEPT !.text = v, !.done = @ \ {"details"}, !.touched = touched]
        BY <2>2 DEF SetDetail
      <3>2. touched \in BOOLEAN /\ ("details" \in page.busy => touched)
        OBVIOUS
      <3> HIDE DEF touched
      <3> QED BY <1>1, <3>1, <3>2 DEF EditPage, Texts
    <2> QED BY <2>1, <2>2
  <1>3. \A t \in tasks' : EditTask(t)'
    BY <1>1, <1>2 DEF EditInv, EditTask
  <1>4. EditShown'
    BY <1>1, <1>2 DEF EditInv, EditShown
  <1> QED BY <1>1, <1>2, <1>3, <1>4 DEF EditInv

LEMMA SubmitsKeep ==
  ASSUME EditInv, NEW f \in Forms, NEW v \in Texts, Submit(f, v)
  PROVE  EditInv'
  <1>1. page \in EditPage /\ UNCHANGED <<server, stale>> /\ f \notin page.busy
        /\ (f = "details" => v = page.text)
    BY DEF EditInv, Submit
  <1>2. /\ page' \in EditPage /\ page'.busy = page.busy \cup {f} /\ page'.done = page.done \ {f}
        /\ page'.sent[f] = v /\ page'.text = page.text
        /\ \A g \in Forms \ {f} : page'.sent[g] = page.sent[g]
        /\ page'.touched = (page.touched /\ f # "details")
    BY <1>1 DEF Submit, EditPage
  <1>3. PICK u : /\ IsTask(u) /\ u.fn = (IF f = "avatar" THEN "upload" ELSE f)
                 /\ u.arg = v /\ u.wire = "sent" /\ tasks' = tasks \cup {u}
    BY TapStarts DEF Submit, Fresh
  <1>4. FormOf(u) = f /\ EditTask(u)'
    BY <1>2, <1>3 DEF FormOf, EditTask, Forms
  <1>5. \A t \in tasks : EditTask(t) /\ FormOf(t) # f
    BY <1>1 DEF EditInv, EditTask, FormOf, Forms
  <1>6. \A t \in tasks : EditTask(t)'
    BY <1>1, <1>2, <1>5 DEF EditTask, FormOf, Forms
  <1>7. \A t, w \in tasks' : FormOf(t) = FormOf(w) => t = w
    BY <1>3, <1>4, <1>5 DEF EditInv
  <1>8. \A g \in page'.busy : \E t \in tasks' : FormOf(t) = g
    BY <1>2, <1>3, <1>4 DEF EditInv
  <1>9. EditShown' /\ (\A g \in page'.done : server'[g] = page'.sent[g])
    BY <1>1, <1>2, <1>3 DEF EditInv, EditShown, EditPage, Forms
  <1>10. "details" \in page'.busy /\ ~page'.touched => page'.text = page'.sent["details"]
    BY <1>1, <1>2 DEF EditInv, Forms
  <1>11. page'.done \cap page'.busy = {}
    BY <1>2 DEF EditInv
  <1> QED BY <1>1, <1>2, <1>3, <1>4, <1>6, <1>7, <1>8, <1>9, <1>10, <1>11 DEF EditInv

LEMMA ServeEditKeeps ==
  ASSUME EditInv, NEW t \in tasks, ServeEdit(t)
  PROVE  EditInv'
  <1>1. EditTask(t) /\ t.wire = "sent" /\ page \in EditPage /\ server \in [Forms -> Texts]
    BY DEF EditInv, ServeEdit, Awaiting
  <1>2. ASSUME NEW after, NEW reply, Serve(t, TRUE, after, reply), after \in [Forms -> Texts],
               t.fn = "load" => after = server /\ reply = server["details"],
               t.fn \in Forms => after[t.fn] = t.arg,
               \A f \in Forms \ {t.fn} : after[f] = server[f]
        PROVE  EditInv'
    <2>1. PICK u : Ended(t, u, TRUE, after, reply)
      BY <1>1, <1>2, CallEnds DEF EditTask
    <2>2. /\ IsTask(u) /\ u.fn = t.fn /\ u.arg = t.arg /\ u.wire \in {"ok", "failed"}
          /\ tasks' = (tasks \ {t}) \cup {u}
          /\ u.wire = "ok" => server' = after /\ u.reply = reply
          /\ ~stale' => IF t.fn = "load" /\ u.wire = "ok"
                          THEN \A v \in tasks \ {t} : ~OnItsWay(v)
                          ELSE ~stale /\ (server' # server => u.wire = "ok" /\ ~ReadUnderWay(t))
      BY <2>1 DEF Ended
    <2>3. UNCHANGED page /\ (server' # server => server' = after)
      BY <1>1, <1>2, CallEnds DEF EditTask
    <2>4. server' \in [Forms -> Texts] /\ (\A f \in Forms \ {t.fn} : server'[f] = server[f])
      BY <1>1, <1>2, <2>3
    <2>5. \A v \in tasks \ {t} : EditTask(v) /\ FormOf(v) # FormOf(t) /\ v.fn # t.fn
      BY DEF EditInv, FormOf
    <2>6. ASSUME NEW v \in tasks \ {t} PROVE EditTask(v)'
      <3>1. v.fn \in Forms /\ v.wire = "ok" => server'[v.fn] = v.arg
        BY <2>4, <2>5 DEF EditTask
      <3> QED BY <2>3, <2>5, <3>1 DEF EditTask
    <2>7. EditTask(u)'
      <3>1. u.fn = "load" /\ u.wire = "ok" => u.reply \in Texts
        BY <1>1, <1>2, <2>2 DEF Forms
      <3> QED BY <1>1, <1>2, <2>2, <2>3, <3>1 DEF EditTask, FormOf
    <2>8. FormOf(u) = FormOf(t)
      BY <2>2 DEF FormOf
    <2>9. \A v, w \in tasks' : FormOf(v) = FormOf(w) => v = w
      BY <2>2, <2>5, <2>8 DEF EditInv
    <2>10. \A f \in page'.busy : \E v \in tasks' : FormOf(v) = f
      BY <2>2, <2>3, <2>8 DEF EditInv
    <2>11. \A f \in page'.done : server'[f] = page'.sent[f]
      <3>1. t.fn \in Forms => t.fn \notin page.done
        BY <1>1 DEF EditInv, EditTask, FormOf, Forms
      <3> QED BY <1>1, <2>3, <2>4, <3>1 DEF EditInv, EditPage
    <2>12. EditShown'
      <3>1. "details" \in page.done => server'["details"] = server["details"]
        BY <2>3, <2>11 DEF EditInv
      <3> QED BY <2>3, <3>1 DEF EditInv, EditShown
    <2> QED BY <1>1, <2>2, <2>3, <2>4, <2>6, <2>7, <2>9, <2>10, <2>11, <2>12 DEF EditInv
  <1>3. CASE Awaiting(t, {"load", "upload"}) /\ Serve(t, TRUE, server, server["details"])
    BY <1>1, <1>2, <1>3 DEF Awaiting, Forms
  <1>4. CASE Awaiting(t, Forms) /\ Serve(t, TRUE, [server EXCEPT ![t.fn] = t.arg], None)
    <2> DEFINE after == [server EXCEPT ![t.fn] = t.arg]
    <2>1. t.fn \in Forms /\ Serve(t, TRUE, after, None) /\ t.arg \in Texts /\ t.fn # "load"
      BY <1>1, <1>4 DEF Awaiting, EditTask, FormOf, EditPage, Forms
    <2>2. /\ after \in [Forms -> Texts] /\ after[t.fn] = t.arg
          /\ \A f \in Forms \ {t.fn} : after[f] = server[f]
      BY <1>1, <2>1
    <2> HIDE DEF after
    <2> QED BY <1>2, <2>1, <2>2
  <1> QED BY <1>3, <1>4 DEF ServeEdit

LEMMA EditReplies ==
  ASSUME EditInv, NEW t \in tasks, EditLoadReturns(t) \/ UploadReturns(t) \/ SubmitReturns(t)
  PROVE  EditInv'
  <1>1. /\ EditTask(t) /\ page \in EditPage /\ UNCHANGED <<server, stale>>
        /\ t.wire \in {"ok", "failed"}
    BY DEF EditInv, EditLoadReturns, UploadReturns, SubmitReturns, EditTask, IsTask
  <1>2. \A v \in tasks \ {t} : EditTask(v) /\ FormOf(v) # FormOf(t)
    BY DEF EditInv
  <1>3. CASE EditLoadReturns(t)
    <2>1. t.fn = "load" /\ tasks' = tasks \ {t} /\ FormOf(t) = "load"
      BY <1>3 DEF EditLoadReturns, End, FormOf
    <2>2. /\ page' \in EditPage /\ page'.busy = page.busy /\ page'.sent = page.sent
          /\ page'.done = page.done
          /\ \/ UNCHANGED page
             \/ /\ t.wire = "ok" /\ page'.text = t.reply
                /\ "details" \in page.busy \cup page.done => page'.touched
      <3>1. CASE t.wire = "ok"
        <4> DEFINE touched == page.touched \/ "details" \in page.busy \cup page.done
        <4>1. page' = [page EXCEPT !.text = t.reply, !.touched = touched]
          BY <1>3, <3>1 DEF EditLoadReturns
        <4>2. touched \in BOOLEAN /\ ("details" \in page.busy \cup page.done => touched)
          BY <1>1 DEF EditPage
        <4> HIDE DEF touched
        <4> QED BY <1>1, <2>1, <3>1, <4>1, <4>2 DEF EditPage, EditTask
      <3>2. CASE t.wire # "ok"
        BY <1>1, <1>3, <3>2 DEF EditLoadReturns
      <3> QED BY <3>1, <3>2
    <2>3. \A v \in tasks' : EditTask(v)' /\ v.fn # "load"
      BY <1>1, <1>2, <2>1, <2>2 DEF EditTask, FormOf
    <2>4. EditShown'
      BY <1>1, <2>1, <2>2, <2>3 DEF EditInv, EditShown, EditTask
    <2>5. \A f \in page'.busy : \E v \in tasks' : FormOf(v) = f
      BY <1>1, <2>1, <2>2 DEF EditInv, EditPage, Forms
    <2> QED BY <1>1, <2>1, <2>2, <2>3, <2>4, <2>5 DEF EditInv
  <1>4. CASE UploadReturns(t) /\ t.wire = "ok"
    <2>1. PICK u : Fresh(u, "avatar", t.arg) /\ tasks' = (tasks \ {t}) \cup {u}
      BY <1>4, GoesOn DEF UploadReturns
    <2>2. UNCHANGED page /\ t.fn = "upload" /\ FormOf(t) = "avatar" /\ FormOf(u) = "avatar"
      BY <1>4, <2>1 DEF UploadReturns, FormOf, Fresh
    <2>3. \A v \in tasks' : EditTask(v)'
      BY <1>1, <1>2, <2>1, <2>2 DEF EditTask, Forms, Fresh
    <2>4. EditShown'
      BY <1>1, <2>1, <2>2 DEF EditInv, EditShown, Fresh
    <2>5. \A v, w \in tasks' : FormOf(v) = FormOf(w) => v = w
      BY <1>2, <2>1, <2>2 DEF EditInv
    <2>6. \A f \in page'.busy : \E v \in tasks' : FormOf(v) = f
      BY <2>1, <2>2 DEF EditInv
    <2> QED BY <1>1, <2>2, <2>3, <2>4, <2>5, <2>6 DEF EditInv
  <1>5. CASE (UploadReturns(t) /\ t.wire # "ok") \/ SubmitReturns(t)
    <2>1. /\ tasks' = tasks \ {t} /\ t.fn \in {"upload"} \cup Forms
          /\ t.wire = "ok" => t.fn \in Forms
      BY <1>5 DEF UploadReturns, SubmitReturns, End
    <2>2. FormOf(t) \in page.busy /\ t.arg = page.sent[FormOf(t)] /\ FormOf(t) \in Forms
          /\ (t.fn \in Forms => FormOf(t) = t.fn)
      BY <1>1, <2>1 DEF EditTask, FormOf, Forms
    <2>3. /\ page' \in EditPage /\ page'.busy = page.busy \ {FormOf(t)}
          /\ page'.sent = page.sent /\ page'.text = page.text /\ page'.touched = page.touched
          /\ \/ page'.done = page.done
             \/ page'.done = page.done \cup {FormOf(t)} /\ t.wire = "ok" /\ t.fn \in Forms
      <3> DEFINE done == IF t.wire = "ok" THEN page.done \cup {t.fn} ELSE page.done
      <3>1. CASE UploadReturns(t) /\ t.wire # "ok"
        <4>1. page' = [page EXCEPT !.busy = @ \ {"avatar"}] /\ FormOf(t) = "avatar"
          BY <3>1 DEF UploadReturns, FormOf
        <4> QED BY <1>1, <4>1 DEF EditPage
      <3>2. CASE SubmitReturns(t)
        <4>1. page' = [page EXCEPT !.busy = @ \ {t.fn}, !.done = done]
              /\ t.fn \in Forms /\ FormOf(t) = t.fn
          BY <1>1, <2>2, <3>2 DEF SubmitReturns, EditPage
        <4>2. done \in SUBSET Forms
              /\ (done = page.done \/ (done = page.done \cup {t.fn} /\ t.wire = "ok"))
          BY <1>1, <4>1 DEF EditPage
        <4> HIDE DEF done
        <4> QED BY <1>1, <4>1, <4>2 DEF EditPage
      <3> QED BY <1>5, <3>1, <3>2
    <2>4. \A v \in tasks' : EditTask(v)'
      BY <1>1, <1>2, <2>1, <2>3 DEF EditTask
    <2>5. \A f \in page'.done : server'[f] = page'.sent[f]
      BY <1>1, <2>2, <2>3 DEF EditInv, EditTask
    <2>6. EditShown'
      <3>1. "details" \in page'.done => "details" \in page.done \/ FormOf(t) = "details"
        BY <2>3
      <3>2. CASE "details" \in page.done
        BY <1>1, <2>1, <2>3, <3>2 DEF EditInv, EditShown
      <3>3. CASE "details" \notin page.done
        BY <1>1, <2>2, <2>3, <2>5, <3>1, <3>3 DEF EditInv, EditShown
      <3> QED BY <3>2, <3>3
    <2>7. \A f \in page'.busy : \E v \in tasks' : FormOf(v) = f
      BY <2>1, <2>3 DEF EditInv
    <2> QED BY <1>1, <2>1, <2>3, <2>4, <2>5, <2>6, <2>7 DEF EditInv
  <1> QED BY <1>3, <1>4, <1>5

LEMMA EditKept == EditInv /\ EditNext => EditInv'
  <1>1. Typed \cup {"blank", "stored"} = Texts
    BY DEF Texts
  <1> QED BY <1>1, EditTyped, SubmitsKeep, ServeEditKeeps, EditReplies DEF EditNext

LEMMA EditIdle == EditInv /\ UNCHANGED vars => EditInv'
  BY DEF vars, EditInv, EditTask, EditShown

LEMMA EditRest == EditInv => EditDone /\ (tasks = {} => ~EditBusy)
  BY DEF EditInv, EditShown, EditDone, EditBusy

------------------------------------------------------------------------------
\* MyResidencePage: the requests, which are read once and then follow the
\* student's own.

Standings == {"none", "pending", "rejected", "approved"}
DeskPage ==
  [at : {"residence"}, place : {None, "shown"}, latest : [Kinds -> Standings \cup {None}],
   loaded : BOOLEAN, loadError : BOOLEAN, ask : Kinds \cup {None}, sending : SUBSET Kinds,
   error : SUBSET Kinds, prefilled : Kinds \cup {None}]
DeskRows == [latest : [Kinds -> Standings], resident : BOOLEAN]
DeskTask(t) ==
  /\ IsTask(t) /\ t.fn \in {"place", "dormitory", "roommates", "load"} \cup Kinds
  /\ t.fn = "load" => ~page.loaded
  /\ t.fn = "load" /\ t.wire = "ok" =>
       t.reply \in [Kinds -> Standings] /\ (~stale => t.reply = server.latest)
  /\ t.fn \in Kinds /\ t.wire = "ok" /\ ~stale => server.latest[t.fn] = "pending"
DeskAwaited ==
  /\ \A k \in page.sending : \E t \in tasks : t.fn = k
  /\ page.place = None /\ ~page.loadError => \E t \in tasks : t.fn \in {"place", "dormitory"}
DeskFollows ==
  ~stale /\ page.loaded /\ ~page.loadError =>
    \A k \in Kinds : \/ page.latest[k] = server.latest[k]
                     \/ \E t \in tasks : t.fn = k /\ t.wire = "ok"
DeskInv ==
  /\ page \in DeskPage /\ server \in DeskRows
  /\ \A t \in tasks : DeskTask(t)
  /\ \A t, u \in tasks : t.fn = "load" /\ u.fn = "load" => t = u
  /\ DeskAwaited /\ DeskFollows

LEMMA DeskBegins == DeskInit => DeskInv
  <1> SUFFICES ASSUME DeskInit PROVE DeskInv
    OBVIOUS
  <1>1. /\ page \in DeskPage /\ page.sending = {} /\ ~page.loaded /\ server \in DeskRows
    BY DEF DeskInit, DeskPage, DeskRows, Standings
  <1>2. PICK p, l : /\ IsTask(p) /\ p.fn = "place" /\ p.wire = "sent"
                    /\ IsTask(l) /\ l.fn = "load" /\ l.wire = "sent" /\ tasks = {p, l}
    <2> DEFINE p == Task("place", 1, None)
               l == Task("load", 1, None)
    <2>1. /\ IsTask(p) /\ p.fn = "place" /\ p.wire = "sent"
          /\ IsTask(l) /\ l.fn = "load" /\ l.wire = "sent"
      BY FirstTask
    <2>2. tasks = {p, l}
      BY DEF DeskInit
    <2> HIDE DEF p, l
    <2> QED BY <2>1, <2>2
  <1>3. \A t \in tasks : DeskTask(t)
    BY <1>1, <1>2 DEF DeskTask, Kinds
  <1> QED BY <1>1, <1>2, <1>3 DEF DeskInv, DeskAwaited, DeskFollows

\* What reads nothing and writes nothing.
LEMMA DeskTaps ==
  ASSUME DeskInv, UNCHANGED <<server, stale>>, page' \in DeskPage, page'.place = page.place,
         page'.latest = page.latest, page'.loaded = page.loaded,
         page'.loadError = page.loadError,
         tasks \subseteq tasks', \A u \in tasks' \ tasks : u.fn # "load" /\ DeskTask(u),
         \A k \in page'.sending : k \in page.sending \/ \E t \in tasks' : t.fn = k
  PROVE  DeskInv'
  <1>1. \A u \in tasks' : DeskTask(u)'
    BY DEF DeskInv, DeskTask
  <1>2. DeskAwaited' /\ DeskFollows'
    BY DEF DeskInv, DeskAwaited, DeskFollows
  <1> QED BY <1>1, <1>2 DEF DeskInv

LEMMA DeskAsked ==
  ASSUME DeskInv,
         \/ CancelConfirm \/ ConfirmRequest
         \/ \E k \in Kinds : PrefillDraft(k) \/ OpenConfirm(k)
  PROVE  DeskInv'
  <1>1. page \in DeskPage /\ UNCHANGED <<server, stale>>
    BY DEF DeskInv, CancelConfirm, ConfirmRequest, PrefillDraft, OpenConfirm
  <1>2. /\ page' \in DeskPage /\ page'.place = page.place /\ page'.latest = page.latest
        /\ page'.loaded = page.loaded /\ page'.loadError = page.loadError
    <2>1. CASE CancelConfirm
      BY <1>1, <2>1 DEF CancelConfirm, DeskPage
    <2>2. CASE ConfirmRequest
      <3>1. page.ask \in Kinds
        BY <1>1, <2>2 DEF ConfirmRequest, DeskPage
      <3> QED BY <1>1, <2>2, <3>1 DEF ConfirmRequest, DeskPage
    <2>3. CASE \E k \in Kinds : PrefillDraft(k)
      BY <1>1, <2>3 DEF PrefillDraft, DeskPage
    <2>4. CASE \E k \in Kinds : OpenConfirm(k)
      BY <1>1, <2>4 DEF OpenConfirm, DeskPage
    <2> QED BY <2>1, <2>2, <2>3, <2>4
  <1>3. CASE CancelConfirm \/ \E k \in Kinds : PrefillDraft(k) \/ OpenConfirm(k)
    <2>1. page'.sending = page.sending /\ tasks' = tasks
      BY <1>1, <1>3 DEF CancelConfirm, PrefillDraft, OpenConfirm, DeskPage
    <2> QED BY <1>1, <1>2, <2>1, DeskTaps
  <1>4. CASE ConfirmRequest
    <2>1. PICK u : Fresh(u, page.ask, None) /\ tasks' = tasks \cup {u}
      BY <1>4, TapStarts DEF ConfirmRequest
    <2>2. page.ask \in Kinds /\ page'.sending = page.sending \cup {page.ask}
      BY <1>1, <1>4 DEF ConfirmRequest, DeskPage
    <2>3. DeskTask(u) /\ u.fn # "load" /\ u.fn = page.ask
      BY <2>1, <2>2 DEF DeskTask, Fresh, Kinds
    <2> QED BY <1>1, <1>2, <2>1, <2>2, <2>3, DeskTaps
  <1> QED BY <1>3, <1>4

LEMMA ServeDeskKeeps ==
  ASSUME DeskInv, NEW t \in tasks, ServeDesk(t)
  PROVE  DeskInv'
  <1>1. DeskTask(t) /\ t.wire = "sent" /\ page \in DeskPage /\ server \in DeskRows
    BY DEF DeskInv, ServeDesk, Awaiting
  <1>2. ASSUME NEW accepts, NEW after, NEW reply, Serve(t, accepts, after, reply),
               after \in DeskRows,
               t.fn = "load" => reply = server.latest /\ after = server,
               t.fn \in Kinds => after.latest[t.fn] = "pending",
               \A k \in Kinds \ {t.fn} : after.latest[k] = server.latest[k]
        PROVE  DeskInv'
    <2>1. PICK u : Ended(t, u, accepts, after, reply)
      BY <1>1, <1>2, CallEnds DEF DeskTask
    <2>2. /\ IsTask(u) /\ u.fn = t.fn /\ u.arg = t.arg /\ u.wire \in {"ok", "failed"}
          /\ tasks' = (tasks \ {t}) \cup {u}
          /\ u.wire = "ok" => server' = after /\ u.reply = reply
          /\ ~stale' => IF t.fn = "load" /\ u.wire = "ok"
                          THEN \A v \in tasks \ {t} : ~OnItsWay(v)
                          ELSE ~stale /\ (server' # server => u.wire = "ok" /\ ~ReadUnderWay(t))
      BY <2>1 DEF Ended
    <2>3. UNCHANGED page /\ (server' # server => server' = after)
      BY <1>1, <1>2, CallEnds DEF DeskTask
    <2>4. /\ server' \in DeskRows
          /\ \A k \in Kinds : server'.latest[k] = server.latest[k]
                              \/ (k = t.fn /\ server'.latest[k] = "pending")
      BY <1>1, <1>2, <2>3
    <2>5. \A v \in tasks \ {t} : DeskTask(v) /\ (t.fn = "load" => v.fn # "load")
      BY DEF DeskInv
    <2>6. ASSUME NEW v \in tasks \ {t} PROVE DeskTask(v)'
      <3>1. v.fn = "load" /\ v.wire = "ok" /\ ~stale' => server' = server /\ ~stale
        BY <2>2, <2>5 DEF ReadUnderWay, OnItsWay
      <3>2. v.fn \in Kinds /\ v.wire = "ok" /\ ~stale' => server'.latest[v.fn] = "pending"
        BY <2>2, <2>4, <2>5 DEF DeskTask, OnItsWay
      <3> QED BY <2>3, <2>5, <3>1, <3>2 DEF DeskTask
    <2>7. DeskTask(u)'
      <3>1. u.fn = "load" /\ u.wire = "ok" => u.reply = server'.latest
        BY <1>2, <2>2
      <3>2. u.fn \in Kinds /\ u.wire = "ok" => server'.latest[u.fn] = "pending"
        BY <1>2, <2>2
      <3> QED BY <1>1, <2>2, <2>3, <2>4, <3>1, <3>2 DEF DeskTask, DeskRows
    <2>8. \A v \in tasks' : DeskTask(v)'
      BY <2>2, <2>6, <2>7
    <2>9. \A v, w \in tasks' : v.fn = "load" /\ w.fn = "load" => v = w
      BY <2>2, <2>5 DEF DeskInv
    <2>10. DeskAwaited'
      BY <2>2, <2>3 DEF DeskInv, DeskAwaited
    <2>11. DeskFollows'
      <3>1. CASE t.fn = "load"
        BY <1>1, <2>3, <3>1 DEF DeskFollows, DeskTask
      <3>2. CASE t.fn # "load"
        <4>1. ~stale' => ~stale /\ (server' # server => u.wire = "ok")
          BY <2>2, <3>2
        <4>2. ASSUME NEW v \in tasks, NEW k, v.fn = k, v.wire = "ok"
              PROVE  \E w \in tasks' : w.fn = k /\ w.wire = "ok"
          BY <1>1, <2>2, <4>2
        <4>3. ASSUME NEW k \in Kinds, server' # server, u.wire = "ok", k = t.fn
              PROVE  \E w \in tasks' : w.fn = k /\ w.wire = "ok"
          BY <2>2, <4>3
        <4> QED BY <2>3, <2>4, <4>1, <4>2, <4>3 DEF DeskInv, DeskFollows
      <3> QED BY <3>1, <3>2
    <2> QED BY <1>1, <2>3, <2>4, <2>8, <2>9, <2>10, <2>11 DEF DeskInv
  <1>3. CASE /\ Awaiting(t, {"place", "dormitory", "roommates", "load"})
             /\ Serve(t, t.fn = "place" => server.resident, server, server.latest)
    BY <1>1, <1>2, <1>3 DEF Awaiting, Kinds
  <1>4. CASE /\ Awaiting(t, Kinds)
             /\ Serve(t, server.resident /\ server.latest[t.fn] # "pending",
                      [server EXCEPT !.latest[t.fn] = "pending"], None)
    <2> DEFINE after == [server EXCEPT !.latest[t.fn] = "pending"]
               accepts == server.resident /\ server.latest[t.fn] # "pending"
    <2>1. t.fn \in Kinds /\ Serve(t, accepts, after, None)
      BY <1>4 DEF Awaiting
    <2>2. /\ after \in DeskRows /\ after.latest[t.fn] = "pending"
          /\ \A k \in Kinds \ {t.fn} : after.latest[k] = server.latest[k]
      BY <1>1, <2>1 DEF DeskRows, Standings
    <2> HIDE DEF after, accepts
    <2> QED BY <1>2, <2>1, <2>2 DEF Kinds
  <1> QED BY <1>3, <1>4 DEF ServeDesk

LEMMA DeskReplies ==
  ASSUME DeskInv, NEW t \in tasks, PlaceReturns(t) \/ DeskLoadReturns(t) \/ RequestReturns(t)
  PROVE  DeskInv'
  <1>1. /\ DeskTask(t) /\ page \in DeskPage /\ UNCHANGED <<server, stale>>
        /\ t.wire \in {"ok", "failed"}
    BY DEF DeskInv, PlaceReturns, DeskLoadReturns, RequestReturns, DeskTask, IsTask
  <1>2. CASE PlaceReturns(t)
    <2>1. t.fn \in {"place", "dormitory", "roommates"} /\ t.fn \notin Kinds
      BY <1>2 DEF PlaceReturns, Kinds
    <2>2. /\ page' \in DeskPage /\ page'.latest = page.latest /\ page'.loaded = page.loaded
          /\ page.loadError => page'.loadError
          /\ page'.sending = page.sending
      BY <1>1, <1>2 DEF PlaceReturns, DeskPage
    <2>3. PICK asked : /\ tasks' = (tasks \ {t}) \cup asked
                       /\ \A u \in asked : /\ IsTask(u) /\ u.wire = "sent"
                                           /\ u.fn \in {"dormitory", "roommates"}
                       /\ \/ page'.loadError \/ page'.place # None
                          \/ \E u \in asked : u.fn = "dormitory"
                          \/ t.fn = "roommates" /\ page'.place = page.place
      <3>1. CASE t.wire = "failed" \/ t.fn = "roommates"
        <4>1. tasks' = (tasks \ {t}) \cup {}
          BY <1>1, <1>2, <2>1, <3>1 DEF PlaceReturns, End
        <4>2. page' = [page EXCEPT !.loadError = TRUE] \/ (t.fn = "roommates" /\ UNCHANGED page)
          BY <1>1, <1>2, <2>1, <3>1 DEF PlaceReturns
        <4>3. page'.loadError \/ (t.fn = "roommates" /\ page'.place = page.place)
          BY <1>1, <4>2 DEF DeskPage
        <4>4. PICK none : none = {}
          OBVIOUS
        <4>5. tasks' = (tasks \ {t}) \cup none
          BY <4>1, <4>4
        <4> QED BY <4>3, <4>4, <4>5
      <3>2. CASE t.wire = "ok" /\ t.fn = "place"
        <4>1. PICK u : Fresh(u, "dormitory", None) /\ tasks' = (tasks \ {t}) \cup {u}
          BY <1>2, <3>2, GoesOn DEF PlaceReturns
        <4> QED BY <4>1 DEF Fresh
      <3>3. CASE t.wire = "ok" /\ t.fn = "dormitory"
        <4>1. PICK u : Fresh(u, "roommates", None) /\ tasks' = (tasks \ {t}) \cup {u}
          BY <1>2, <3>3, GoesOn DEF PlaceReturns
        <4>2. page' = [page EXCEPT !.place = "shown"]
          BY <1>2, <3>3 DEF PlaceReturns
        <4>3. page'.place # None
          BY <1>1, <4>2, DeskAssumption DEF DeskPage, DeskAssumption
        <4>4. PICK asked : asked = {u}
          OBVIOUS
        <4>5. tasks' = (tasks \ {t}) \cup asked /\ \A v \in asked : v = u
          BY <4>1, <4>4
        <4> QED BY <4>1, <4>3, <4>5 DEF Fresh
      <3> QED BY <1>1, <2>1, <3>1, <3>2, <3>3
    <2>4. \A u \in tasks' : DeskTask(u)'
      BY <1>1, <2>2, <2>3 DEF DeskInv, DeskTask, Kinds
    <2>5. DeskAwaited'
      BY <1>1, <2>1, <2>2, <2>3 DEF DeskInv, DeskAwaited, DeskPage
    <2>6. DeskFollows'
      BY <1>1, <2>1, <2>2, <2>3 DEF DeskInv, DeskFollows
    <2>7. \A v, w \in tasks' : v.fn = "load" /\ w.fn = "load" => v = w
      BY <2>3 DEF DeskInv
    <2> QED BY <1>1, <2>2, <2>4, <2>5, <2>6, <2>7 DEF DeskInv
  <1>3. CASE DeskLoadReturns(t)
    <2>1. t.fn = "load" /\ tasks' = tasks \ {t} /\ t.fn \notin Kinds
      BY <1>3 DEF DeskLoadReturns, End, Kinds
    <2>2. /\ page' \in DeskPage /\ page'.place = page.place
          /\ page.loadError => page'.loadError
          /\ page'.sending = page.sending
          /\ page'.loadError \/ (t.wire = "ok" /\ page'.latest = t.reply)
      BY <1>1, <1>3, <2>1 DEF DeskLoadReturns, DeskPage, DeskTask
    <2>3. \A u \in tasks' : u.fn # "load"
      BY <2>1 DEF DeskInv
    <2>4. \A u \in tasks' : DeskTask(u)'
      BY <1>1, <2>1, <2>3 DEF DeskInv, DeskTask
    <2>5. DeskAwaited'
      BY <2>1, <2>2 DEF DeskInv, DeskAwaited, DeskPage
    <2>6. DeskFollows'
      BY <1>1, <2>1, <2>2 DEF DeskFollows, DeskTask
    <2> QED BY <1>1, <2>2, <2>3, <2>4, <2>5, <2>6 DEF DeskInv
  <1>4. CASE RequestReturns(t)
    <2>1. t.fn \in Kinds /\ tasks' = tasks \ {t} /\ t.fn \notin {"load", "place", "dormitory"}
      BY <1>4 DEF RequestReturns, End, Kinds
    <2>2. /\ page' \in DeskPage /\ page'.place = page.place /\ page'.loaded = page.loaded
          /\ page'.loadError = page.loadError
          /\ page'.sending = page.sending \ {t.fn}
          /\ \A k \in Kinds \ {t.fn} : page'.latest[k] = page.latest[k]
          /\ IF t.wire = "ok" THEN page'.latest[t.fn] = "pending"
             ELSE page'.latest = page.latest
      <3>1. CASE t.wire = "failed"
        BY <1>1, <1>4, <2>1, <3>1 DEF RequestReturns, DeskPage
      <3>2. CASE t.wire = "ok"
        <4>1. page' = [page EXCEPT !.latest[t.fn] = "pending", !.ask = None,
                                   !.sending = @ \ {t.fn}, !.prefilled = None]
          BY <1>4, <3>2 DEF RequestReturns
        <4> QED BY <1>1, <2>1, <3>2, <4>1 DEF DeskPage, Standings
      <3> QED BY <1>1, <3>1, <3>2
    <2>3. \A u \in tasks' : DeskTask(u)'
      BY <1>1, <2>1, <2>2 DEF DeskInv, DeskTask
    <2>4. DeskAwaited'
      BY <2>1, <2>2 DEF DeskInv, DeskAwaited
    <2>5. DeskFollows'
      BY <1>1, <2>1, <2>2 DEF DeskInv, DeskFollows, DeskTask
    <2> QED BY <1>1, <2>1, <2>2, <2>3, <2>4, <2>5 DEF DeskInv
  <1> QED BY <1>2, <1>3, <1>4

LEMMA DeskDecidedKeeps ==
  ASSUME DeskInv, NEW k \in Kinds, DeskDecided(k)
  PROVE  DeskInv'
  <1>1. /\ server' \in DeskRows /\ stale' = TRUE /\ UNCHANGED <<page, tasks>>
    <2> DEFINE resident(s) == server.resident /\ ~(k = "exit" /\ s = "approved")
               after(s) == [server EXCEPT !.latest[k] = s, !.resident = resident(s)]
    <2>1. PICK s \in {"approved", "rejected"} : Elsewhere(after(s))
      BY DEF DeskDecided
    <2>2. server \in DeskRows /\ resident(s) \in BOOLEAN
      BY DEF DeskInv
    <2> HIDE DEF resident
    <2>3. after(s) \in DeskRows
      BY <2>1, <2>2 DEF DeskRows, Standings
    <2> HIDE DEF after
    <2> QED BY <2>1, <2>3 DEF Elsewhere
  <1> QED BY <1>1 DEF DeskInv, DeskTask, DeskAwaited, DeskFollows

LEMMA DeskKept == DeskInv /\ DeskNext => DeskInv'
  BY DeskAsked, ServeDeskKeeps, DeskReplies, DeskDecidedKeeps DEF DeskNext

LEMMA DeskIdle == DeskInv /\ UNCHANGED vars => DeskInv'
  BY DEF vars, DeskInv, DeskTask, DeskAwaited, DeskFollows

LEMMA DeskRest == DeskInv /\ tasks = {} => ~DeskBusy /\ (~stale => DeskAgree)
  <1> SUFFICES ASSUME DeskInv, tasks = {} PROVE ~DeskBusy /\ (~stale => DeskAgree)
    OBVIOUS
  <1>1. ~DeskBusy
    BY DEF DeskInv, DeskAwaited, DeskBusy, DeskPage
  <1>2. ~stale /\ page.loaded /\ ~page.loadError => page.latest = server.latest
    BY DEF DeskInv, DeskFollows, DeskPage, DeskRows
  <1> QED BY <1>1, <1>2 DEF DeskAgree

------------------------------------------------------------------------------
\* ContractsPage: the list after an answer.

Statuses ==
  [ContractIds -> {"sent", "accepted", "declined", "awaiting_manager_decision"}]
Answers == [contract : ContractIds, action : {"accept", "decline"}]
ContractsPage ==
  [at : {"contracts"}, list : Statuses \cup {None}, docs : SUBSET ContractIds,
   error : BOOLEAN, settled : BOOLEAN, expanded : SUBSET ContractIds,
   acknowledged : SUBSET ContractIds, pending : Answers \cup {None}, submitting : BOOLEAN,
   actionError : BOOLEAN, downloading : ContractIds \cup {None}]
ContractsRows == [status : Statuses, settled : BOOLEAN]
ContractsTask(t) ==
  /\ IsTask(t) /\ t.fn \in {"load", "documents", "download", "settled", "respond"}
  /\ t.fn = "load" /\ t.wire = "ok" =>
       t.reply \in Statuses /\ (~stale => t.reply = server.status)
  /\ t.fn = "settled" /\ t.wire = "ok" => t.reply \in BOOLEAN
  /\ t.fn = "respond" => t.arg \in Answers
ContractsReread(ts) == \E t \in ts : t.fn = "load" \/ (t.fn = "respond" /\ t.wire = "ok")
ContractsAwaited ==
  /\ page.submitting => \E t \in tasks : t.fn = "respond"
  /\ page.downloading # None => \E t \in tasks : t.fn = "download"
  /\ page.list = None /\ ~page.error => \E t \in tasks : t.fn = "load"
ContractsFollow ==
  ~stale /\ page.list # None /\ ~page.error =>
    page.list = server.status \/ ContractsReread(tasks)
ContractsInv ==
  /\ page \in ContractsPage /\ server \in ContractsRows
  /\ \A t \in tasks : ContractsTask(t)
  /\ ContractsAwaited /\ ContractsFollow

LEMMA ContractsBegin == ContractsInit => ContractsInv
  <1> SUFFICES ASSUME ContractsInit PROVE ContractsInv
    OBVIOUS
  <1>1. /\ page \in ContractsPage /\ ~page.submitting /\ page.downloading = None
        /\ page.list = None /\ server \in ContractsRows
    BY DEF ContractsInit, ContractsPage, ContractsRows, Statuses
  <1>2. PICK l, s : /\ IsTask(l) /\ l.fn = "load" /\ l.wire = "sent"
                    /\ IsTask(s) /\ s.fn = "settled" /\ s.wire = "sent" /\ tasks = {l, s}
    <2> DEFINE l == Task("load", 1, None)
               s == Task("settled", 1, None)
    <2>1. /\ IsTask(l) /\ l.fn = "load" /\ l.wire = "sent"
          /\ IsTask(s) /\ s.fn = "settled" /\ s.wire = "sent"
      BY FirstTask
    <2>2. tasks = {l, s}
      BY DEF ContractsInit
    <2> HIDE DEF l, s
    <2> QED BY <2>1, <2>2
  <1>3. \A t \in tasks : ContractsTask(t)
    BY <1>2 DEF ContractsTask
  <1> QED BY <1>1, <1>2, <1>3 DEF ContractsInv, ContractsAwaited, ContractsFollow

\* What leaves the list as it is, and neither ends a reading nor begins one.
LEMMA ContractsTaps ==
  ASSUME ContractsInv, UNCHANGED <<server, stale>>, page' \in ContractsPage,
         page'.list = page.list, page'.error = page.error,
         \A u \in tasks' \ tasks : ContractsTask(u),
         \A u \in tasks : u \in tasks' \/ (u.fn # "load" /\ (u.fn = "respond" => u.wire # "ok")),
         page'.submitting => \E t \in tasks' : t.fn = "respond",
         page'.downloading # None => \E t \in tasks' : t.fn = "download"
  PROVE  ContractsInv'
  <1>1. \A u \in tasks' : ContractsTask(u)'
    BY DEF ContractsInv, ContractsTask
  <1>2. ContractsAwaited'
    BY DEF ContractsInv, ContractsAwaited
  <1>3. ContractsFollow'
    BY DEF ContractsInv, ContractsFollow, ContractsReread
  <1> QED BY <1>1, <1>2, <1>3 DEF ContractsInv

LEMMA ContractsAsked ==
  ASSUME ContractsInv,
         \/ \E c \in ContractIds :
              \/ ToggleExpanded(c) \/ HandleDownload(c) \/ Acknowledge(c)
              \/ \E action \in {"accept", "decline"} : AskAnswer(c, action)
         \/ CancelAnswer \/ HandleConfirm
  PROVE  ContractsInv'
  <1>1. page \in ContractsPage /\ UNCHANGED <<server, stale>>
    BY DEF ContractsInv, ToggleExpanded, HandleDownload, Acknowledge, AskAnswer,
           CancelAnswer, HandleConfirm
  <1>2. CASE \/ CancelAnswer
             \/ \E c \in ContractIds : ToggleExpanded(c) \/ Acknowledge(c)
             \/ \E c \in ContractIds, action \in {"accept", "decline"} : AskAnswer(c, action)
    <2>1. /\ page' \in ContractsPage /\ page'.list = page.list /\ page'.error = page.error
          /\ page'.submitting = page.submitting /\ page'.downloading = page.downloading
      <3>1. CASE CancelAnswer
        BY <1>1, <3>1 DEF CancelAnswer, ContractsPage
      <3>2. CASE \E c \in ContractIds : ToggleExpanded(c)
        <4>1. PICK expanded \in SUBSET ContractIds : page' = [page EXCEPT !.expanded = expanded]
          BY <1>1, <3>2 DEF ToggleExpanded, ContractsPage
        <4> QED BY <1>1, <4>1 DEF ContractsPage
      <3>3. CASE \E c \in ContractIds : Acknowledge(c)
        BY <1>1, <3>3 DEF Acknowledge, ContractsPage
      <3>4. CASE \E c \in ContractIds, action \in {"accept", "decline"} : AskAnswer(c, action)
        <4>1. PICK answer \in Answers : page' = [page EXCEPT !.pending = answer]
          BY <3>4 DEF AskAnswer, Answers
        <4> QED BY <1>1, <4>1 DEF ContractsPage
      <3> QED BY <1>2, <3>1, <3>2, <3>3, <3>4
    <2>2. tasks' = tasks
      BY <1>2 DEF CancelAnswer, ToggleExpanded, Acknowledge, AskAnswer
    <2> QED BY <1>1, <2>1, <2>2, ContractsTaps DEF ContractsInv, ContractsAwaited
  <1>3. CASE \E c \in ContractIds : HandleDownload(c)
    <2>1. PICK c \in ContractIds : HandleDownload(c)
      BY <1>3
    <2>2. PICK u : Fresh(u, "download", c) /\ tasks' = tasks \cup {u}
      BY <2>1, TapStarts DEF HandleDownload
    <2>3. /\ page' \in ContractsPage /\ page'.list = page.list /\ page'.error = page.error
          /\ page'.submitting = page.submitting
      BY <1>1, <2>1 DEF HandleDownload, ContractsPage
    <2>4. ContractsTask(u) /\ u.fn = "download"
      BY <2>2 DEF ContractsTask, Fresh
    <2> QED BY <1>1, <2>2, <2>3, <2>4, ContractsTaps DEF ContractsInv, ContractsAwaited
  <1>4. CASE HandleConfirm
    <2>1. PICK u : Fresh(u, "respond", page.pending) /\ tasks' = tasks \cup {u}
      BY <1>4, TapStarts DEF HandleConfirm
    <2>2. /\ page' \in ContractsPage /\ page'.list = page.list /\ page'.error = page.error
          /\ page'.downloading = page.downloading /\ page.pending \in Answers
      BY <1>1, <1>4 DEF HandleConfirm, ContractsPage
    <2>3. ContractsTask(u) /\ u.fn = "respond"
      BY <2>1, <2>2 DEF ContractsTask, Fresh
    <2> QED BY <1>1, <2>1, <2>2, <2>3, ContractsTaps DEF ContractsInv, ContractsAwaited
  <1> QED BY <1>2, <1>3, <1>4

LEMMA ServeContractsKeeps ==
  ASSUME ContractsInv, NEW t \in tasks, ServeContracts(t)
  PROVE  ContractsInv'
  <1>1. /\ ContractsTask(t) /\ t.wire = "sent" /\ page \in ContractsPage
        /\ server \in ContractsRows
    BY DEF ContractsInv, ServeContracts, Awaiting
  <1>2. ASSUME NEW accepts, NEW after, NEW reply, Serve(t, accepts, after, reply),
               after \in ContractsRows,
               t.fn # "respond" => after = server,
               t.fn = "load" => reply = server.status,
               t.fn = "settled" => reply \in BOOLEAN
        PROVE  ContractsInv'
    <2>1. PICK u : Ended(t, u, accepts, after, reply)
      BY <1>1, <1>2, CallEnds DEF ContractsTask
    <2>2. /\ IsTask(u) /\ u.fn = t.fn /\ u.arg = t.arg /\ u.wire \in {"ok", "failed"}
          /\ tasks' = (tasks \ {t}) \cup {u}
          /\ u.wire = "ok" => server' = after /\ u.reply = reply
          /\ ~stale' => IF t.fn = "load" /\ u.wire = "ok"
                          THEN \A v \in tasks \ {t} : ~OnItsWay(v)
                          ELSE ~stale /\ (server' # server => u.wire = "ok" /\ ~ReadUnderWay(t))
      BY <2>1 DEF Ended
    <2>3. UNCHANGED page /\ (server' # server => server' = after)
      BY <1>1, <1>2, CallEnds DEF ContractsTask
    <2>4. server' \in ContractsRows
      BY <1>1, <1>2, <2>3
    <2>5. ASSUME NEW v \in tasks \ {t} PROVE ContractsTask(v)'
      <3>1. ContractsTask(v)
        BY DEF ContractsInv
      <3>2. v.fn = "load" /\ v.wire = "ok" /\ ~stale' => server' = server /\ ~stale
        BY <2>2 DEF ReadUnderWay, OnItsWay
      <3> QED BY <3>1, <3>2 DEF ContractsTask
    <2>6. ContractsTask(u)'
      <3>1. u.fn = "load" /\ u.wire = "ok" => u.reply = server'.status
        BY <1>2, <2>2
      <3> QED BY <1>1, <1>2, <2>2, <2>4, <3>1 DEF ContractsTask, ContractsRows
    <2>7. \A v \in tasks' : ContractsTask(v)'
      BY <2>2, <2>5, <2>6
    <2>8. ContractsAwaited'
      BY <2>2, <2>3 DEF ContractsInv, ContractsAwaited
    <2>9. ContractsFollow'
      <3>1. CASE t.fn = "load" \/ (t.fn = "respond" /\ u.wire = "ok")
        BY <2>2, <3>1 DEF ContractsFollow, ContractsReread
      <3>2. CASE ~(t.fn = "load" \/ (t.fn = "respond" /\ u.wire = "ok"))
        <4>1. ~stale' => ~stale /\ server' = server
          BY <1>2, <2>2, <2>3, <3>2
        <4>2. ContractsReread(tasks) => ContractsReread(tasks')
          BY <1>1, <2>2, <3>2 DEF ContractsReread
        <4> QED BY <2>3, <4>1, <4>2 DEF ContractsInv, ContractsFollow
      <3> QED BY <3>1, <3>2
    <2> QED BY <1>1, <2>3, <2>4, <2>7, <2>8, <2>9 DEF ContractsInv
  <1>3. CASE \/ /\ Awaiting(t, {"load", "documents", "download"})
                /\ Serve(t, TRUE, server, server.status)
             \/ Awaiting(t, {"settled"}) /\ Serve(t, TRUE, server, server.settled)
    <2>1. server.settled \in BOOLEAN
      BY <1>1 DEF ContractsRows
    <2> QED BY <1>1, <1>2, <1>3, <2>1 DEF Awaiting
  <1>4. CASE /\ Awaiting(t, {"respond"})
             /\ Serve(t, server.status[t.arg.contract] = "sent",
                      [server EXCEPT !.status[t.arg.contract] =
                                       IF t.arg.action = "accept" THEN "accepted" ELSE "declined",
                                     !.settled = @ \/ t.arg.action = "accept"], None)
    <2> DEFINE status == IF t.arg.action = "accept" THEN "accepted" ELSE "declined"
               settled == server.settled \/ t.arg.action = "accept"
               after == [server EXCEPT !.status[t.arg.contract] = status, !.settled = settled]
    <2>1. t.fn = "respond" /\ Serve(t, server.status[t.arg.contract] = "sent", after, None)
      BY <1>4 DEF Awaiting
    <2>2. settled \in BOOLEAN /\ status \in {"accepted", "declined"} /\ t.arg.contract \in ContractIds
      BY <1>1, <2>1 DEF ContractsTask, Answers
    <2> HIDE DEF settled, status
    <2>3. after \in ContractsRows
      BY <1>1, <2>2 DEF ContractsRows, Statuses
    <2> HIDE DEF after
    <2> QED BY <1>2, <2>1, <2>3
  <1> QED BY <1>3, <1>4 DEF ServeContracts

LEMMA ContractsReplies ==
  ASSUME ContractsInv, NEW t \in tasks,
         \/ ListReturns(t) \/ DocumentsReturn(t) \/ SettledReturns(t)
         \/ DownloadReturns(t) \/ RespondReturns(t)
  PROVE  ContractsInv'
  <1>1. /\ ContractsTask(t) /\ page \in ContractsPage /\ UNCHANGED <<server, stale>>
        /\ t.wire \in {"ok", "failed"}
    BY DEF ContractsInv, ListReturns, DocumentsReturn, SettledReturns, DownloadReturns,
           RespondReturns, ContractsTask, IsTask
  <1>2. CASE ListReturns(t) /\ t.wire = "failed"
    <2>1. /\ t.fn = "load" /\ tasks' = tasks \ {t}
          /\ page' \in ContractsPage /\ page'.error /\ page'.submitting = page.submitting
          /\ page'.downloading = page.downloading
      BY <1>1, <1>2 DEF ListReturns, End, ContractsPage
    <2>2. \A v \in tasks' : ContractsTask(v)'
      BY <1>1, <2>1 DEF ContractsInv, ContractsTask
    <2>3. ContractsAwaited' /\ ContractsFollow'
      BY <2>1 DEF ContractsInv, ContractsAwaited, ContractsFollow
    <2> QED BY <1>1, <2>1, <2>2, <2>3 DEF ContractsInv
  <1>3. CASE ListReturns(t) /\ t.wire = "ok"
    <2>1. PICK u : Fresh(u, "documents", None) /\ tasks' = (tasks \ {t}) \cup {u}
      BY <1>3, GoesOn DEF ListReturns
    <2>2. /\ t.fn = "load" /\ page' \in ContractsPage /\ page'.list = t.reply
          /\ page'.error = page.error /\ page'.submitting = page.submitting
          /\ page'.downloading = page.downloading /\ t.reply # None
      BY <1>1, <1>3, ContractsAssumption
         DEF ListReturns, ContractsPage, ContractsTask, ContractsAssumption, Statuses
    <2>3. \A v \in tasks' : ContractsTask(v)'
      BY <1>1, <2>1 DEF ContractsInv, ContractsTask, Fresh
    <2>4. ContractsAwaited'
      BY <2>1, <2>2 DEF ContractsInv, ContractsAwaited
    <2>5. ContractsFollow'
      BY <1>1, <1>3, <2>2 DEF ContractsFollow, ContractsTask
    <2> QED BY <1>1, <2>2, <2>3, <2>4, <2>5 DEF ContractsInv
  <1>4. CASE DocumentsReturn(t) \/ SettledReturns(t) \/ DownloadReturns(t)
    <2>1. /\ t.fn \in {"documents", "settled", "download"} /\ tasks' = tasks \ {t}
      BY <1>4 DEF DocumentsReturn, SettledReturns, DownloadReturns, End
    <2>2. /\ page' \in ContractsPage /\ page'.list = page.list /\ page'.error = page.error
          /\ page'.submitting = page.submitting
          /\ IF t.fn = "download" THEN page'.downloading = None
             ELSE page'.downloading = page.downloading
      <3>1. CASE DocumentsReturn(t)
        <4>1. PICK docs \in SUBSET ContractIds : page' = [page EXCEPT !.docs = docs]
          BY <3>1 DEF DocumentsReturn
        <4> QED BY <1>1, <3>1, <4>1 DEF ContractsPage, DocumentsReturn
      <3>2. CASE SettledReturns(t)
        <4> DEFINE settled == t.wire = "ok" /\ t.reply
        <4>1. page' = [page EXCEPT !.settled = settled] /\ t.fn = "settled"
          BY <3>2 DEF SettledReturns
        <4>2. settled \in BOOLEAN
          OBVIOUS
        <4> HIDE DEF settled
        <4> QED BY <1>1, <4>1, <4>2 DEF ContractsPage
      <3>3. CASE DownloadReturns(t)
        BY <1>1, <3>3 DEF DownloadReturns, ContractsPage
      <3> QED BY <1>4, <3>1, <3>2, <3>3
    <2>3. /\ page'.submitting => \E v \in tasks' : v.fn = "respond"
          /\ page'.downloading # None => \E v \in tasks' : v.fn = "download"
      BY <2>1, <2>2 DEF ContractsInv, ContractsAwaited
    <2> QED BY <1>1, <2>1, <2>2, <2>3, ContractsTaps
  <1>5. CASE RespondReturns(t) /\ t.wire = "failed"
    <2>1. /\ t.fn = "respond" /\ tasks' = tasks \ {t}
          /\ page' \in ContractsPage /\ page'.list = page.list /\ page'.error = page.error
          /\ ~page'.submitting /\ page'.downloading = page.downloading
      BY <1>1, <1>5 DEF RespondReturns, End, ContractsPage
    <2>2. page'.downloading # None => \E v \in tasks' : v.fn = "download"
      BY <2>1 DEF ContractsInv, ContractsAwaited
    <2> QED BY <1>1, <1>5, <2>1, <2>2, ContractsTaps
  <1>6. CASE RespondReturns(t) /\ t.wire = "ok"
    <2>1. PICK u : Fresh(u, "load", None) /\ tasks' = (tasks \ {t}) \cup {u}
      BY <1>6, GoesOn DEF RespondReturns
    <2>2. /\ t.fn = "respond" /\ page' \in ContractsPage /\ ~page'.submitting
          /\ page'.downloading = page.downloading
      BY <1>1, <1>6 DEF RespondReturns, ContractsPage
    <2>3. \A v \in tasks' : ContractsTask(v)'
      BY <1>1, <2>1 DEF ContractsInv, ContractsTask, Fresh
    <2>4. ContractsAwaited'
      BY <2>1, <2>2 DEF ContractsInv, ContractsAwaited, Fresh
    <2>5. ContractsFollow'
      BY <2>1 DEF ContractsFollow, ContractsReread, Fresh
    <2> QED BY <1>1, <2>2, <2>3, <2>4, <2>5 DEF ContractsInv
  <1> QED BY <1>1, <1>2, <1>3, <1>4, <1>5, <1>6

LEMMA DeadlinePassesKeeps ==
  ASSUME ContractsInv, NEW c \in ContractIds, DeadlinePasses(c)
  PROVE  ContractsInv'
  <1>1. server' \in ContractsRows /\ stale' = TRUE /\ UNCHANGED <<page, tasks>>
    BY DEF ContractsInv, DeadlinePasses, ContractsRows, Statuses, Elsewhere
  <1> QED BY <1>1 DEF ContractsInv, ContractsTask, ContractsAwaited, ContractsFollow

LEMMA ContractsKept == ContractsInv /\ ContractsNext => ContractsInv'
  BY ContractsAsked, ServeContractsKeeps, ContractsReplies, DeadlinePassesKeeps
     DEF ContractsNext

LEMMA ContractsIdle == ContractsInv /\ UNCHANGED vars => ContractsInv'
  BY DEF vars, ContractsInv, ContractsTask, ContractsAwaited, ContractsFollow,
         ContractsReread

LEMMA ContractsRest ==
  ContractsInv /\ tasks = {} => ~ContractsBusy /\ (~stale => ContractsAgree)
  BY DEF ContractsInv, ContractsAwaited, ContractsFollow, ContractsReread, ContractsBusy,
         ContractsAgree

------------------------------------------------------------------------------
\* ApplicationDetailPage: every change is followed by a reading, and the
\* deletion by nothing.

DetailRows ==
  [status : {"pending", "needs_correction", "rejected", "deleted"},
   missing : SUBSET SlotIds, notes : {"blank", "typed"}, room : RoomIds \cup {None}]
DetailPage ==
  [at : {"application"}, app : DetailRows \cup {None}, error : BOOLEAN,
   notes : {"blank", "typed"}, editing : BOOLEAN, picked : RoomIds \cup {None},
   room : RoomIds \cup {None}, busy : SUBSET (Ways \cup {"add"}),
   uploading : SlotIds \cup {None}, deleting : BOOLEAN, left : BOOLEAN]
Corrections == [notes : {"blank", "typed"}, room : RoomIds \cup {None}]
DetailTask(t) ==
  /\ IsTask(t) /\ t.fn \in {"load", "getRoom", "file", "attach", "add", "delete"} \cup Ways
  /\ t.fn = "load" /\ t.wire = "ok" => t.reply \in DetailRows /\ (~stale => t.reply = server)
  /\ t.fn = "getRoom" => t.arg \in RoomIds
  /\ t.fn \in Ways => t.arg \in Corrections
  /\ t.fn = "delete" => ~page.left /\ page.deleting
  /\ t.fn = "delete" /\ t.wire = "ok" => server.status = "deleted"
Rereads(t) ==
  t.fn = "load" \/ (t.fn \in {"attach", "add", "delete"} \cup Ways /\ t.wire = "ok")
DetailAwaited ==
  /\ \A w \in page.busy : \E t \in tasks : t.fn = w
  /\ page.uploading # None => \E t \in tasks : t.fn \in {"file", "attach"}
  /\ page.deleting => \E t \in tasks : t.fn = "delete"
  /\ page.app = None /\ ~page.error => \E t \in tasks : t.fn = "load"
DetailFollows ==
  ~stale /\ ~page.left /\ page.app # None /\ ~page.error =>
    page.app = server \/ \E t \in tasks : Rereads(t)
DetailInv ==
  /\ page \in DetailPage /\ server \in DetailRows
  /\ \A t \in tasks : DetailTask(t)
  /\ \A t, u \in tasks : t.fn = "delete" /\ u.fn = "delete" => t = u
  /\ page.left => server.status = "deleted"
  /\ DetailAwaited /\ DetailFollows

LEMMA DetailBegins == DetailInit => DetailInv
  <1> SUFFICES ASSUME DetailInit PROVE DetailInv
    OBVIOUS
  <1>1. /\ page \in DetailPage /\ page.busy = {} /\ page.uploading = None /\ ~page.deleting
        /\ ~page.left /\ page.app = None /\ server \in DetailRows
    BY DEF DetailInit, DetailPage, DetailRows
  <1>2. PICK l : IsTask(l) /\ l.fn = "load" /\ l.wire = "sent" /\ tasks = {l}
    <2> DEFINE l == Task("load", 1, None)
    <2>1. IsTask(l) /\ l.fn = "load" /\ l.wire = "sent"
      BY FirstTask
    <2>2. tasks = {l}
      BY DEF DetailInit
    <2> HIDE DEF l
    <2> QED BY <2>1, <2>2
  <1>3. \A t \in tasks : DetailTask(t) /\ t.fn # "delete"
    BY <1>2 DEF DetailTask, Ways
  <1> QED BY <1>1, <1>2, <1>3 DEF DetailInv, DetailAwaited, DetailFollows

\* What leaves the application on the screen as it is, and no change unread.
LEMMA DetailSteps ==
  ASSUME DetailInv, UNCHANGED <<server, stale>>, page' \in DetailPage,
         page'.left = page.left, page'.app = page.app, page'.error = page.error,
         \A u \in tasks' \ tasks : DetailTask(u)',
         \A t \in tasks' : t.fn = "delete" => page'.deleting,
         \A t \in tasks : t \in tasks' \/ ~Rereads(t) \/ \E u \in tasks' : Rereads(u),
         \A t \in tasks', u \in tasks' \ tasks : t.fn = "delete" /\ u.fn = "delete" => t = u,
         DetailAwaited'
  PROVE  DetailInv'
  <1>1. \A u \in tasks' : DetailTask(u)'
    BY DEF DetailInv, DetailTask
  <1>2. DetailFollows'
    BY DEF DetailInv, DetailFollows
  <1> QED BY <1>1, <1>2 DEF DetailInv

LEMMA DetailAsked ==
  ASSUME DetailInv,
         \/ \E on \in BOOLEAN : EditNotes(on)
         \/ TypeNotes \/ HandleDeleteApplication
         \/ \E r \in RoomIds : PickRoom(r)
         \/ \E way \in Ways : HandleResubmit(way)
         \/ \E s \in SlotIds \cup {None} : HandleUpload(s)
  PROVE  DetailInv'
  <1>1. page \in DetailPage /\ UNCHANGED <<server, stale>>
    BY DEF DetailInv, EditNotes, TypeNotes, HandleDeleteApplication, PickRoom,
           HandleResubmit, HandleUpload
  <1>2. CASE TypeNotes \/ (\E on \in BOOLEAN : EditNotes(on)) \/ \E r \in RoomIds : PickRoom(r)
    <2>1. /\ page' \in DetailPage /\ page'.left = page.left /\ page'.app = page.app
          /\ page'.error = page.error /\ page'.busy = page.busy
          /\ page'.uploading = page.uploading /\ page'.deleting = page.deleting
      <3>1. CASE TypeNotes
        BY <1>1, <3>1 DEF TypeNotes, DetailPage
      <3>2. CASE \E on \in BOOLEAN : EditNotes(on)
        BY <1>1, <3>2 DEF EditNotes, DetailPage
      <3>3. CASE \E r \in RoomIds : PickRoom(r)
        BY <1>1, <3>3 DEF PickRoom, DetailPage
      <3> QED BY <1>2, <3>1, <3>2, <3>3
    <2>2. tasks' = tasks
      BY <1>2 DEF TypeNotes, EditNotes, PickRoom
    <2>3. DetailAwaited'
      BY <2>1, <2>2 DEF DetailInv, DetailAwaited
    <2>4. \A t \in tasks' : t.fn = "delete" => page'.deleting
      BY <2>1, <2>2 DEF DetailInv, DetailTask
    <2> QED BY <1>1, <2>1, <2>2, <2>3, <2>4, DetailSteps
  <1>3. CASE \E way \in Ways : HandleResubmit(way)
    <2>1. PICK way \in Ways : HandleResubmit(way)
      BY <1>3
    <2> DEFINE arg == [notes |-> page.notes, room |-> IF way = "room" THEN page.picked ELSE None]
    <2>2. PICK u : Fresh(u, way, arg) /\ tasks' = tasks \cup {u}
      BY <2>1, TapStarts DEF HandleResubmit
    <2>3. arg \in Corrections
      BY <1>1 DEF DetailPage, Corrections
    <2> HIDE DEF arg
    <2>4. /\ page' \in DetailPage /\ page'.left = page.left /\ page'.app = page.app
          /\ page'.error = page.error /\ page'.busy = page.busy \cup {way}
          /\ page'.uploading = page.uploading /\ page'.deleting = page.deleting
      BY <1>1, <2>1 DEF HandleResubmit, DetailPage
    <2>5. DetailTask(u)' /\ u.fn = way /\ u.fn \notin {"delete", "load"}
      BY <2>2, <2>3 DEF DetailTask, Fresh, Ways
    <2>6. DetailAwaited'
      BY <2>2, <2>4, <2>5 DEF DetailInv, DetailAwaited
    <2>7. \A t \in tasks' : t.fn = "delete" => page'.deleting
      BY <2>2, <2>4, <2>5 DEF DetailInv, DetailTask
    <2> QED BY <1>1, <2>2, <2>4, <2>5, <2>6, <2>7, DetailSteps
  <1>4. CASE HandleDeleteApplication
    <2>1. PICK u : Fresh(u, "delete", None) /\ tasks' = tasks \cup {u}
      BY <1>4, TapStarts DEF HandleDeleteApplication
    <2>2. /\ page' \in DetailPage /\ page'.left = page.left /\ page'.app = page.app
          /\ page'.error = page.error /\ page'.busy = page.busy
          /\ page'.uploading = page.uploading /\ page'.deleting
          /\ ~page.left /\ ~page.deleting
      BY <1>1, <1>4 DEF HandleDeleteApplication, DetailPage, Shows
    <2>3. DetailTask(u)' /\ u.fn = "delete" /\ \A t \in tasks : t.fn # "delete"
      BY <2>1, <2>2 DEF DetailInv, DetailTask, Fresh, Ways
    <2>4. DetailAwaited'
      BY <2>1, <2>2, <2>3 DEF DetailInv, DetailAwaited
    <2> QED BY <1>1, <2>1, <2>2, <2>3, <2>4, DetailSteps
  <1>5. CASE \E s \in SlotIds \cup {None} : HandleUpload(s)
    <2>1. PICK s \in SlotIds \cup {None}, fn \in {"add", "file"} :
            /\ Start(New(fn, s))
            /\ IF fn = "add" THEN page' = [page EXCEPT !.busy = @ \cup {"add"}]
               ELSE s \in page.app.missing /\ page' = [page EXCEPT !.uploading = s]
      BY <1>5 DEF HandleUpload
    <2>2. PICK u : Fresh(u, fn, s) /\ tasks' = tasks \cup {u}
      BY <2>1, TapStarts
    <2>3. /\ page' \in DetailPage /\ page'.left = page.left /\ page'.app = page.app
          /\ page'.error = page.error /\ page'.deleting = page.deleting
          /\ IF fn = "add" THEN page'.busy = page.busy \cup {"add"}
                                /\ page'.uploading = page.uploading
             ELSE page'.busy = page.busy
      BY <1>1, <2>1 DEF DetailPage
    <2>4. DetailTask(u)' /\ u.fn = fn /\ u.fn \notin {"delete", "load"}
      BY <2>2 DEF DetailTask, Fresh, Ways
    <2>5. DetailAwaited'
      BY <2>2, <2>3, <2>4 DEF DetailInv, DetailAwaited
    <2>6. \A t \in tasks' : t.fn = "delete" => page'.deleting
      BY <2>2, <2>3, <2>4 DEF DetailInv, DetailTask
    <2> QED BY <1>1, <2>2, <2>3, <2>4, <2>5, <2>6, DetailSteps
  <1> QED BY <1>2, <1>3, <1>4, <1>5

LEMMA ServeDetailKeeps ==
  ASSUME DetailInv, NEW t \in tasks, ServeDetail(t)
  PROVE  DetailInv'
  <1>1. DetailTask(t) /\ t.wire = "sent" /\ page \in DetailPage /\ server \in DetailRows
    BY DEF DetailInv, ServeDetail, Awaiting
  <1>2. ASSUME NEW accepts, NEW after, NEW reply, Serve(t, accepts, after, reply),
               after \in DetailRows,
               accepts /\ server.status = "deleted" => after.status = "deleted",
               t.fn \in {"load", "getRoom", "file"} => after = server,
               t.fn = "load" => reply = server,
               t.fn = "delete" => after.status = "deleted"
        PROVE  DetailInv'
    <2>1. PICK u : Ended(t, u, accepts, after, reply)
      BY <1>1, <1>2, CallEnds DEF DetailTask
    <2>2. /\ IsTask(u) /\ u.fn = t.fn /\ u.arg = t.arg /\ u.wire \in {"ok", "failed"}
          /\ tasks' = (tasks \ {t}) \cup {u}
          /\ u.wire = "ok" => server' = after /\ u.reply = reply
          /\ ~stale' => IF t.fn = "load" /\ u.wire = "ok"
                          THEN \A v \in tasks \ {t} : ~OnItsWay(v)
                          ELSE ~stale /\ (server' # server => u.wire = "ok" /\ ~ReadUnderWay(t))
      BY <2>1 DEF Ended
    <2>3. UNCHANGED page /\ (server' # server => accepts /\ server' = after)
      BY <1>1, <1>2, CallEnds DEF DetailTask
    <2>4. server' \in DetailRows /\ (server.status = "deleted" => server'.status = "deleted")
      BY <1>1, <1>2, <2>3
    <2>5. ASSUME NEW v \in tasks \ {t} PROVE DetailTask(v)'
      <3>1. DetailTask(v)
        BY DEF DetailInv
      <3>2. v.fn = "load" /\ v.wire = "ok" /\ ~stale' => server' = server /\ ~stale
        BY <2>2 DEF ReadUnderWay, OnItsWay
      <3> QED BY <2>3, <2>4, <3>1, <3>2 DEF DetailTask
    <2>6. DetailTask(u)'
      <3>1. /\ u.fn = "load" /\ u.wire = "ok" => u.reply = server' /\ server' \in DetailRows
            /\ u.fn = "delete" /\ u.wire = "ok" => server'.status = "deleted"
        BY <1>2, <2>2, <2>4
      <3> QED BY <1>1, <2>2, <2>3, <3>1 DEF DetailTask
    <2>7. \A v \in tasks' : DetailTask(v)'
      BY <2>2, <2>5, <2>6
    <2>8. DetailAwaited'
      BY <2>2, <2>3 DEF DetailInv, DetailAwaited
    <2>9. DetailFollows'
      <3>1. CASE Rereads(u)
        BY <2>2, <3>1 DEF DetailFollows
      <3>2. CASE ~Rereads(u)
        <4>1. ~stale' => ~stale /\ server' = server
          BY <1>1, <1>2, <2>2, <2>3, <3>2 DEF Rereads, DetailTask
        <4>2. \A v \in tasks : Rereads(v) => v \in tasks'
          BY <1>1, <2>2, <3>2 DEF Rereads
        <4> QED BY <2>3, <4>1, <4>2 DEF DetailInv, DetailFollows
      <3> QED BY <3>1, <3>2
    <2>10. \A v, w \in tasks' : v.fn = "delete" /\ w.fn = "delete" => v = w
      BY <2>2 DEF DetailInv
    <2> QED BY <1>1, <2>3, <2>4, <2>7, <2>8, <2>9, <2>10 DEF DetailInv
  <1>3. CASE /\ Awaiting(t, {"load", "getRoom", "file"})
             /\ Serve(t, t.fn = "load" => server.status # "deleted", server, server)
    BY <1>1, <1>2, <1>3 DEF Awaiting
  <1>4. CASE /\ Awaiting(t, {"attach", "add"})
             /\ Serve(t, server.status \in {"pending", "needs_correction"},
                      [server EXCEPT !.missing = @ \ {t.arg}], None)
    <2> DEFINE after == [server EXCEPT !.missing = @ \ {t.arg}]
               accepts == server.status \in {"pending", "needs_correction"}
    <2>1. t.fn \in {"attach", "add"} /\ Serve(t, accepts, after, None)
      BY <1>4 DEF Awaiting
    <2>2. after \in DetailRows /\ after.status = server.status
      BY <1>1 DEF DetailRows
    <2> HIDE DEF after, accepts
    <2> QED BY <1>2, <2>1, <2>2
  <1>5. CASE /\ Awaiting(t, Ways)
             /\ Serve(t, server.status = "needs_correction",
                      [server EXCEPT !.status = "pending", !.notes = t.arg.notes,
                         !.room = IF t.arg.room = None THEN @ ELSE t.arg.room], None)
    <2> DEFINE room == IF t.arg.room = None THEN server.room ELSE t.arg.room
               after == [server EXCEPT !.status = "pending", !.notes = t.arg.notes, !.room = room]
    <2>1. t.fn \in Ways /\ Serve(t, server.status = "needs_correction", after, None)
      BY <1>1, <1>5 DEF Awaiting, DetailRows
    <2>2. room \in RoomIds \cup {None} /\ t.arg.notes \in {"blank", "typed"}
      BY <1>1, <2>1 DEF DetailTask, Corrections, DetailRows
    <2> HIDE DEF room
    <2>3. after \in DetailRows
      BY <1>1, <2>2 DEF DetailRows
    <2> HIDE DEF after
    <2> QED BY <1>2, <2>1, <2>3 DEF Ways
  <1>6. CASE /\ Awaiting(t, {"delete"})
             /\ Serve(t, server.status \in {"pending", "rejected"},
                      [server EXCEPT !.status = "deleted"], None)
    <2> DEFINE after == [server EXCEPT !.status = "deleted"]
               accepts == server.status \in {"pending", "rejected"}
    <2>1. t.fn = "delete" /\ Serve(t, accepts, after, None)
      BY <1>6 DEF Awaiting
    <2>2. after \in DetailRows /\ after.status = "deleted"
      BY <1>1 DEF DetailRows
    <2> HIDE DEF after, accepts
    <2> QED BY <1>2, <2>1, <2>2
  <1> QED BY <1>3, <1>4, <1>5, <1>6 DEF ServeDetail

LEMMA DetailLoadKeeps ==
  ASSUME DetailInv, NEW t \in tasks, DetailLoadReturns(t)
  PROVE  DetailInv'
  <1>1. /\ DetailTask(t) /\ page \in DetailPage /\ UNCHANGED <<server, stale>>
        /\ t.wire \in {"ok", "failed"} /\ t.fn = "load"
    BY DEF DetailInv, DetailLoadReturns, DetailTask, IsTask
  <1>2. PICK asked : /\ tasks' = (tasks \ {t}) \cup asked
                     /\ \A u \in asked : /\ IsTask(u) /\ u.fn = "getRoom" /\ u.arg \in RoomIds
                                         /\ u.wire = "sent"
    <2>1. CASE t.wire = "failed" \/ t.reply.room = None
      <3>1. PICK none : none = {}
        OBVIOUS
      <3>2. tasks' = (tasks \ {t}) \cup none
        BY <1>1, <2>1, <3>1 DEF DetailLoadReturns, End
      <3> QED BY <3>1, <3>2
    <2>2. CASE t.wire = "ok" /\ t.reply.room # None
      <3>1. PICK u : Fresh(u, "getRoom", t.reply.room) /\ tasks' = (tasks \ {t}) \cup {u}
        BY <2>2, GoesOn DEF DetailLoadReturns
      <3>2. t.reply.room \in RoomIds
        BY <1>1, <2>2 DEF DetailTask, DetailRows
      <3>3. PICK asked : asked = {u}
        OBVIOUS
      <3>4. tasks' = (tasks \ {t}) \cup asked /\ \A v \in asked : v = u
        BY <3>1, <3>3
      <3> QED BY <3>1, <3>2, <3>4 DEF Fresh
    <2> QED BY <1>1, <2>1, <2>2
  <1>3. /\ page' \in DetailPage /\ page'.left = page.left /\ page'.busy = page.busy
        /\ page'.uploading = page.uploading /\ page'.deleting = page.deleting
        /\ IF t.wire = "ok" THEN page'.app = t.reply ELSE page'.error
    <2>1. CASE t.wire = "failed"
      BY <1>1, <2>1 DEF DetailLoadReturns, DetailPage
    <2>2. CASE t.wire = "ok"
      <3> DEFINE room == IF t.reply.room = None THEN None ELSE page.room
      <3>1. page' = [page EXCEPT !.app = t.reply, !.notes = t.reply.notes, !.room = room]
        BY <1>1, <2>2 DEF DetailLoadReturns, DetailPage
      <3>2. room \in RoomIds \cup {None} /\ t.reply \in DetailRows
            /\ t.reply.notes \in {"blank", "typed"}
        BY <1>1, <2>2 DEF DetailPage, DetailTask, DetailRows
      <3> HIDE DEF room
      <3> QED BY <1>1, <2>2, <3>1, <3>2 DEF DetailPage
    <2> QED BY <1>1, <2>1, <2>2
  <1>4. page'.app # None \/ page'.error
    BY <1>1, <1>3, DetailAssumption DEF DetailTask, DetailRows, DetailAssumption
  <1>5. \A u \in tasks' : DetailTask(u)'
    BY <1>1, <1>2, <1>3 DEF DetailInv, DetailTask, Ways
  <1>6. DetailAwaited'
    BY <1>1, <1>2, <1>3, <1>4 DEF DetailInv, DetailAwaited, DetailPage, Ways
  <1>7. DetailFollows'
    BY <1>1, <1>3 DEF DetailFollows, DetailTask
  <1>8. \A v, w \in tasks' : v.fn = "delete" /\ w.fn = "delete" => v = w
    BY <1>2 DEF DetailInv
  <1> QED BY <1>1, <1>3, <1>5, <1>6, <1>7, <1>8 DEF DetailInv

LEMMA DetailReplies ==
  ASSUME DetailInv, NEW t \in tasks,
         RoomNumberReturns(t) \/ ResubmitReturns(t) \/ UploadMissingReturns(t)
  PROVE  DetailInv'
  <1>1. /\ DetailTask(t) /\ page \in DetailPage /\ UNCHANGED <<server, stale>>
        /\ t.wire \in {"ok", "failed"}
    BY DEF DetailInv, RoomNumberReturns, ResubmitReturns, UploadMissingReturns, DetailTask,
           IsTask
  <1>2. t.fn \notin {"delete", "load"}
    BY DEF RoomNumberReturns, ResubmitReturns, UploadMissingReturns, Ways
  \* The function ends, or goes on to another call, or to a reading.
  <1>3. PICK asked : /\ tasks' = (tasks \ {t}) \cup asked
                     /\ \A u \in asked : /\ IsTask(u) /\ u.wire = "sent"
                                         /\ u.fn \in {"load", "attach"}
                     /\ Rereads(t) => \E u \in asked : u.fn = "load"
                     /\ t.fn = "file" /\ t.wire = "ok" => \E u \in asked : u.fn = "attach"
    <2>1. CASE /\ tasks' = tasks \ {t}
               /\ ~Rereads(t) /\ ~(t.fn = "file" /\ t.wire = "ok")
      <3>1. PICK none : none = {}
        OBVIOUS
      <3> QED BY <2>1, <3>1
    <2>2. ASSUME NEW fn \in {"load", "attach"}, NEW arg, GoOn(t, New(fn, arg)),
                 Rereads(t) => fn = "load", t.fn = "file" => fn = "attach"
          PROVE  \E asked : /\ tasks' = (tasks \ {t}) \cup asked
                            /\ \A u \in asked : /\ IsTask(u) /\ u.wire = "sent"
                                                /\ u.fn \in {"load", "attach"}
                            /\ Rereads(t) => \E u \in asked : u.fn = "load"
                            /\ t.fn = "file" /\ t.wire = "ok" => \E u \in asked : u.fn = "attach"
      <3>1. PICK u : Fresh(u, fn, arg) /\ tasks' = (tasks \ {t}) \cup {u}
        BY <2>2, GoesOn
      <3>2. PICK asked : asked = {u}
        OBVIOUS
      <3>3. tasks' = (tasks \ {t}) \cup asked /\ u \in asked /\ \A v \in asked : v = u
        BY <3>1, <3>2
      <3> QED BY <2>2, <3>1, <3>3 DEF Fresh
    <2>3. CASE RoomNumberReturns(t)
      <3>1. tasks' = tasks \ {t} /\ ~Rereads(t) /\ t.fn # "file"
        BY <2>3 DEF RoomNumberReturns, End, Rereads, Ways
      <3> QED BY <2>1, <3>1
    <2>4. CASE ResubmitReturns(t)
      <3>1. CASE t.wire = "failed"
        <4>1. tasks' = tasks \ {t} /\ ~Rereads(t)
          BY <2>4, <3>1 DEF ResubmitReturns, End, Rereads, Ways
        <4> QED BY <2>1, <3>1, <4>1
      <3>2. CASE t.wire = "ok"
        <4>1. GoOn(t, New("load", None)) /\ t.fn # "file"
          BY <2>4, <3>2 DEF ResubmitReturns, Ways
        <4> QED BY <2>2, <4>1
      <3> QED BY <1>1, <3>1, <3>2
    <2>5. CASE UploadMissingReturns(t)
      <3>1. CASE t.wire = "failed"
        <4>1. tasks' = tasks \ {t} /\ ~Rereads(t)
          BY <2>5, <3>1 DEF UploadMissingReturns, End, Rereads, Ways
        <4> QED BY <2>1, <3>1, <4>1
      <3>2. CASE t.wire = "ok" /\ t.fn = "file"
        <4>1. GoOn(t, New("attach", t.arg)) /\ ~Rereads(t)
          BY <2>5, <3>2 DEF UploadMissingReturns, Rereads, Ways
        <4> QED BY <2>2, <4>1
      <3>3. CASE t.wire = "ok" /\ t.fn # "file"
        <4>1. GoOn(t, New("load", None))
          BY <2>5, <3>3 DEF UploadMissingReturns
        <4> QED BY <2>2, <3>3, <4>1
      <3> QED BY <1>1, <3>1, <3>2, <3>3
    <2> QED BY <2>3, <2>4, <2>5
  <1>4. /\ page' \in DetailPage /\ page'.left = page.left /\ page'.app = page.app
        /\ page'.error = page.error /\ page'.deleting = page.deleting
        /\ page'.busy \subseteq page.busy
        /\ t.fn \in Ways \cup {"add"} => t.fn \notin page'.busy
        /\ page'.uploading \in {None, page.uploading}
        /\ t.fn = "attach" \/ (t.fn = "file" /\ t.wire # "ok") => page'.uploading = None
    <2>1. CASE RoomNumberReturns(t)
      <3> DEFINE room == IF t.wire = "ok" THEN t.arg ELSE None
      <3>1. page' = [page EXCEPT !.room = room] /\ t.fn = "getRoom"
        BY <2>1 DEF RoomNumberReturns
      <3>2. room \in RoomIds \cup {None}
        BY <1>1, <3>1 DEF DetailTask
      <3> HIDE DEF room
      <3> QED BY <1>1, <3>1, <3>2 DEF DetailPage, Ways
    <2>2. CASE ResubmitReturns(t)
      <3> DEFINE editing == page.editing /\ t.fn # "notes"
                 picked == IF t.fn = "room" THEN None ELSE page.picked
      <3>1. CASE t.wire = "failed"
        BY <1>1, <2>2, <3>1 DEF ResubmitReturns, DetailPage, Ways
      <3>2. CASE t.wire = "ok"
        <4>1. page' = [page EXCEPT !.busy = @ \ {t.fn}, !.editing = editing, !.picked = picked]
              /\ t.fn \in Ways
          BY <1>1, <2>2, <3>2 DEF ResubmitReturns, DetailPage
        <4>2. editing \in BOOLEAN /\ picked \in RoomIds \cup {None}
          BY <1>1 DEF DetailPage
        <4> HIDE DEF editing, picked
        <4> QED BY <1>1, <4>1, <4>2 DEF DetailPage, Ways
      <3> QED BY <1>1, <3>1, <3>2
    <2>3. CASE UploadMissingReturns(t)
      <3> DEFINE uploading == IF t.fn = "add" THEN page.uploading ELSE None
                 busy == IF t.fn = "add" THEN page.busy \ {"add"} ELSE page.busy
      <3>1. CASE t.wire = "ok" /\ t.fn = "file"
        BY <1>1, <2>3, <3>1 DEF UploadMissingReturns, Ways
      <3>2. CASE ~(t.wire = "ok" /\ t.fn = "file")
        <4>1. page' = [page EXCEPT !.uploading = uploading, !.busy = busy]
              /\ t.fn \in {"file", "attach", "add"}
          BY <1>1, <2>3, <3>2 DEF UploadMissingReturns, DetailPage
        <4>2. /\ uploading \in {None, page.uploading} /\ uploading \in SlotIds \cup {None}
              /\ busy \subseteq page.busy /\ busy \in SUBSET (Ways \cup {"add"})
              /\ t.fn # "add" => uploading = None
              /\ t.fn = "add" => "add" \notin busy
          BY <1>1 DEF DetailPage
        <4> HIDE DEF uploading, busy
        <4> QED BY <1>1, <4>1, <4>2 DEF DetailPage, Ways
      <3> QED BY <3>1, <3>2
    <2> QED BY <2>1, <2>2, <2>3
  <1>5. \A u \in tasks' \ tasks : DetailTask(u)' /\ u.fn # "delete"
    BY <1>3 DEF DetailTask, Ways
  <1>6. \A u \in tasks' : u.fn = "delete" => page'.deleting
    BY <1>3, <1>4 DEF DetailInv, DetailTask
  <1>7. \A v \in tasks : v \in tasks' \/ ~Rereads(v) \/ \E u \in tasks' : Rereads(u)
    BY <1>3 DEF Rereads
  <1>8. DetailAwaited'
    <2>1. \A w \in page'.busy : \E u \in tasks' : u.fn = w
      BY <1>1, <1>3, <1>4 DEF DetailInv, DetailAwaited, DetailPage
    <2>2. page'.uploading # None => \E u \in tasks' : u.fn \in {"file", "attach"}
      BY <1>1, <1>3, <1>4 DEF DetailInv, DetailAwaited
    <2>3. page'.deleting => \E u \in tasks' : u.fn = "delete"
      BY <1>2, <1>3, <1>4 DEF DetailInv, DetailAwaited
    <2>4. page'.app = None /\ ~page'.error => \E u \in tasks' : u.fn = "load"
      BY <1>2, <1>3, <1>4 DEF DetailInv, DetailAwaited
    <2> QED BY <2>1, <2>2, <2>3, <2>4 DEF DetailAwaited
  <1> QED BY <1>1, <1>4, <1>5, <1>6, <1>7, <1>8, DetailSteps

LEMMA DeletionKeeps ==
  ASSUME DetailInv, NEW t \in tasks, DeletionReturns(t)
  PROVE  DetailInv'
  <1>1. /\ DetailTask(t) /\ page \in DetailPage /\ UNCHANGED <<server, stale>>
        /\ t.fn = "delete" /\ t.wire \in {"ok", "failed"} /\ tasks' = tasks \ {t}
    BY DEF DetailInv, DeletionReturns, DetailTask, IsTask, End
  <1>2. /\ page' \in DetailPage /\ page'.app = page.app /\ page'.error = page.error
        /\ ~page'.deleting /\ page'.left = (t.wire = "ok") /\ page'.busy = page.busy
        /\ page'.uploading = page.uploading
    <2> DEFINE left == t.wire = "ok"
    <2>1. page' = [page EXCEPT !.deleting = FALSE, !.left = left] /\ left \in BOOLEAN
      BY DEF DeletionReturns
    <2> HIDE DEF left
    <2>2. /\ page' \in DetailPage /\ page'.app = page.app /\ page'.error = page.error
          /\ ~page'.deleting /\ page'.left = left /\ page'.busy = page.busy
          /\ page'.uploading = page.uploading
      BY <1>1, <2>1 DEF DetailPage
    <2> QED BY <2>2 DEF left
  <1>3. \A u \in tasks' : DetailTask(u)' /\ u.fn # "delete"
    BY <1>1 DEF DetailInv, DetailTask
  <1>4. DetailAwaited'
    BY <1>1, <1>2 DEF DetailInv, DetailAwaited, DetailPage, Ways
  <1>5. DetailFollows'
    BY <1>1, <1>2 DEF DetailInv, DetailFollows, DetailTask, Rereads
  <1>6. page'.left => server'.status = "deleted"
    BY <1>1, <1>2 DEF DetailTask
  <1> QED BY <1>1, <1>2, <1>3, <1>4, <1>5, <1>6 DEF DetailInv

LEMMA DetailDecidedKeeps == DetailInv /\ DetailDecided => DetailInv'
  <1> SUFFICES ASSUME DetailInv, DetailDecided PROVE DetailInv'
    OBVIOUS
  <1>1. /\ server' \in DetailRows /\ stale' = TRUE /\ UNCHANGED <<page, tasks>>
        /\ server.status # "deleted"
    BY DEF DetailInv, DetailDecided, DetailRows, Elsewhere
  <1> QED BY <1>1 DEF DetailInv, DetailTask, DetailAwaited, DetailFollows

LEMMA DetailKept == DetailInv /\ DetailNext => DetailInv'
  BY DetailAsked, ServeDetailKeeps, DetailLoadKeeps, DetailReplies, DeletionKeeps,
     DetailDecidedKeeps DEF DetailNext

LEMMA DetailIdle == DetailInv /\ UNCHANGED vars => DetailInv'
  BY DEF vars, DetailInv, DetailTask, DetailAwaited, DetailFollows, Rereads

LEMMA DetailRest == DetailInv /\ tasks = {} => ~DetailBusy /\ (~stale => DetailAgree)
  BY DEF DetailInv, DetailAwaited, DetailFollows, DetailBusy, DetailAgree
=============================================================================
