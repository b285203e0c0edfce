----------------------------- MODULE DeskProofs -----------------------------
(***************************************************************************)
(* The pages of the office that are not in OfficeProofs, and then what is  *)
(* true of every page: none waits for what is not under way, what is       *)
(* reported as done is done, and a page at rest shows the rows as they     *)
(* are.                                                                    *)
(***************************************************************************)
EXTENDS OfficeProofs

------------------------------------------------------------------------------
\* The form of a room: its data, then its restrictions.

FormTexts == {"old", "v1", "v2"}
FormPage ==
  [at : {"roomForm"}, edit : BOOLEAN, text : FormTexts \cup {None}, error : BOOLEAN,
   submitting : BOOLEAN, left : FormTexts \cup {None, "error"}]
FormRows == [data : FormTexts, rules : FormTexts \cup {"none"}]
Saving(t) == t.fn \in {"room", "rules"}
RoomFormTask(t) ==
  /\ IsTask(t) /\ t.fn \in {"load", "room", "rules"}
  /\ Saving(t) => t.arg \in FormRows /\ t.arg.data = t.arg.rules
                  /\ page.submitting /\ page.left \in {None, "error"}
  /\ t.fn = "rules" \/ (t.fn = "room" /\ t.wire = "ok") =>
       server \in FormRows /\ server.data = t.arg.data
  /\ t.fn = "rules" /\ t.wire = "ok" => server.rules = t.arg.rules
FormInv ==
  /\ page \in FormPage /\ server \in FormRows \cup {None}
  /\ \A t \in tasks : RoomFormTask(t)
  /\ \A t, u \in tasks : Saving(t) /\ Saving(u) => t = u
  /\ page.submitting => \E t \in tasks : Saving(t)
  /\ FormDone

LEMMA FormBegins == FormInit => FormInv
  <1> SUFFICES ASSUME FormInit PROVE FormInv
    OBVIOUS
  <1>1. page \in FormPage /\ ~page.submitting /\ page.left = None
    BY DEF FormInit, FormPage, FormTexts
  <1>2. server \in FormRows \cup {None}
    BY DEF FormInit, FormRows, FormTexts
  <1>3. \A t \in tasks : IsTask(t) /\ t.fn = "load"
    BY FirstTask DEF FormInit
  <1> QED BY <1>1, <1>2, <1>3 DEF FormInv, RoomFormTask, Saving, FormDone

LEMMA FormAsked ==
  ASSUME FormInv, (\E v \in {"v1", "v2"} : TypeRoom(v)) \/ SubmitRoom
  PROVE  FormInv'
  <1>1. page \in FormPage /\ UNCHANGED <<server, stale>> /\ page.left = None
    BY DEF FormInv, TypeRoom, SubmitRoom
  <1>2. CASE \E v \in {"v1", "v2"} : TypeRoom(v)
    <2>1. /\ page' \in FormPage /\ page'.submitting = page.submitting
          /\ page'.left = page.left /\ tasks' = tasks
      BY <1>1, <1>2 DEF TypeRoom, FormPage, FormTexts
    <2>2. \A t \in tasks' : RoomFormTask(t)'
      BY <1>1, <2>1 DEF FormInv, RoomFormTask, Saving
    <2> QED BY <1>1, <2>1, <2>2 DEF FormInv, FormDone, Saving
  <1>3. CASE SubmitRoom
    <2> DEFINE room == [data |-> page.text, rules |-> page.text]
    <2>1. PICK u : Fresh(u, "room", room) /\ tasks' = tasks \cup {u}
      BY <1>3, TapStarts DEF SubmitRoom
    <2>2. room \in FormRows /\ room.data = room.rules
      BY <1>1, <1>3 DEF SubmitRoom, FormRows, FormPage
    <2> HIDE DEF room
    <2>3. page' \in FormPage /\ page'.submitting /\ page'.left = None /\ ~page.submitting
      BY <1>1, <1>3 DEF SubmitRoom, FormPage
    <2>4. \A t \in tasks : ~Saving(t)
      BY <2>3 DEF FormInv, RoomFormTask
    <2>5. RoomFormTask(u)' /\ Saving(u)
      BY <2>1, <2>2, <2>3 DEF RoomFormTask, Fresh, Saving
    <2>6. \A t \in tasks : RoomFormTask(t)'
      BY <1>1, <2>4 DEF FormInv, RoomFormTask, Saving
    <2>7. FormDone'
      BY <2>3 DEF FormDone
    <2> QED BY <1>1, <2>1, <2>3, <2>4, <2>5, <2>6, <2>7 DEF FormInv
  <1> QED BY <1>2, <1>3

LEMMA ServeFormKeeps ==
  ASSUME FormInv, NEW t \in tasks, ServeRoomForm(t)
  PROVE  FormInv'
  <1>1. /\ RoomFormTask(t) /\ t.wire = "sent" /\ Saving(t) /\ page \in FormPage
        /\ server \in FormRows \cup {None} /\ t.arg \in FormRows /\ t.arg.data = t.arg.rules
    BY DEF FormInv, ServeRoomForm, Awaiting, RoomFormTask, Saving
  <1>2. ASSUME NEW accepts, NEW after, Serve(t, accepts, after, None), after \in FormRows,
               t.fn = "room" => after.data = t.arg.data,
               t.fn = "rules" => after = t.arg
        PROVE  FormInv'
    <2>1. PICK u : Replied(t, u, accepts, after, None, {"room", "rules"})
      BY <1>1, <1>2, CallReplies DEF RoomFormTask, Saving
    <2>2. /\ IsTask(u) /\ u.fn = t.fn /\ u.arg = t.arg /\ u.wire \in {"ok", "failed"}
          /\ tasks' = (tasks \ {t}) \cup {u} /\ (u.wire = "ok" => server' = after)
          /\ UNCHANGED page /\ (server' # server => server' = after)
      BY <2>1 DEF Replied
    <2>3. \A v \in tasks \ {t} : IsTask(v) /\ v.fn = "load"
      BY <1>1 DEF FormInv, RoomFormTask, Saving
    <2>4. t.fn = "rules" => /\ server'.data = t.arg.data
                            /\ server' \in FormRows
      BY <1>1, <1>2, <2>2 DEF RoomFormTask
    <2>5. RoomFormTask(u)'
      BY <1>1, <1>2, <2>2, <2>4 DEF RoomFormTask, Saving
    <2>6. \A v \in tasks' : RoomFormTask(v)' /\ (Saving(v) => v = u)
      BY <2>2, <2>3, <2>5 DEF RoomFormTask, Saving
    <2>7. FormDone'
      BY <1>1, <2>2 DEF RoomFormTask, FormDone
    <2> QED BY <1>1, <1>2, <2>2, <2>6, <2>7 DEF FormInv, Saving
  <1>3. CASE /\ Awaiting(t, {"room"})
             /\ Serve(t, page.edit \/ server = None,
                      [data |-> t.arg.data,
                       rules |-> IF server = None THEN "none" ELSE server.rules], None)
    <2> DEFINE rules == IF server = None THEN "none" ELSE server.rules
               accepts == page.edit \/ server = None
               after == [data |-> t.arg.data, rules |-> rules]
    <2>1. rules \in FormTexts \cup {"none"}
      BY <1>1 DEF FormRows
    <2>2. Serve(t, accepts, after, None) /\ t.fn = "room"
      BY <1>3 DEF Awaiting
    <2> HIDE DEF rules, accepts
    <2>3. after \in FormRows /\ after.data = t.arg.data
      BY <1>1, <2>1 DEF FormRows
    <2> HIDE DEF after
    <2> QED BY <1>2, <2>2, <2>3
  <1>4. CASE /\ Awaiting(t, {"rules"})
             /\ Serve(t, TRUE, [server EXCEPT !.rules = t.arg.rules], None)
    <2> DEFINE after == [server EXCEPT !.rules = t.arg.rules]
    <2>1. Serve(t, TRUE, after, None) /\ t.fn = "rules"
      BY <1>4 DEF Awaiting
    <2>2. after = t.arg
      BY <1>1, <2>1 DEF RoomFormTask, FormRows
    <2> HIDE DEF after
    <2> QED BY <1>1, <1>2, <2>1, <2>2
  <1> QED BY <1>3, <1>4 DEF ServeRoomForm

LEMMA RoomFormReplies ==
  ASSUME FormInv, NEW t \in tasks,
         RoomSaved(t) \/ RoomFormReturns(t) \/ (\E ok \in BOOLEAN : RoomFormLoads(t, ok))
  PROVE  FormInv'
  <1>1. /\ RoomFormTask(t) /\ page \in FormPage /\ UNCHANGED <<server, stale>>
        /\ t.wire \in {"sent", "ok", "failed"}
    BY DEF FormInv, RoomSaved, RoomFormReturns, RoomFormLoads, RoomFormTask, IsTask
  <1>2. CASE RoomSaved(t)
    <2>1. PICK u : Fresh(u, "rules", t.arg) /\ tasks' = (tasks \ {t}) \cup {u}
      BY <1>2, GoesOn DEF RoomSaved
    <2>2. Saving(t) /\ UNCHANGED page /\ t.fn = "room" /\ t.wire = "ok"
      BY <1>2 DEF RoomSaved, Saving
    <2>3. RoomFormTask(u)' /\ Saving(u)
      BY <1>1, <2>1, <2>2 DEF RoomFormTask, Fresh, Saving
    <2>4. \A v \in tasks \ {t} : RoomFormTask(v)' /\ ~Saving(v)
      BY <1>1, <2>2 DEF FormInv, RoomFormTask, Saving
    <2> QED BY <1>1, <2>1, <2>2, <2>3, <2>4 DEF FormInv, FormDone
  <1>3. CASE RoomFormReturns(t)
    <2> DEFINE left == IF t.wire = "ok" THEN t.arg.data ELSE page.left
    <2>1. /\ Saving(t) /\ tasks' = tasks \ {t}
          /\ page' = [page EXCEPT !.submitting = FALSE, !.error = t.wire = "failed", !.left = left]
          /\ t.wire = "ok" => t.fn = "rules"
      BY <1>3 DEF RoomFormReturns, Saving, End
    <2>2. /\ left \in FormTexts \cup {None, "error"}
          /\ left \notin {None, "error"} => t.wire = "ok" /\ left = t.arg.data
      BY <1>1, <2>1 DEF RoomFormTask, FormRows, FormPage
    <2>3. t.wire = "ok" => server = [data |-> t.arg.data, rules |-> t.arg.data]
      <3> SUFFICES ASSUME t.wire = "ok"
                   PROVE  server = [data |-> t.arg.data, rules |-> t.arg.data]
        OBVIOUS
      <3>1. server \in FormRows /\ server.data = t.arg.data /\ server.rules = t.arg.data
        BY <1>1, <2>1 DEF RoomFormTask
      <3> QED BY <3>1 DEF FormRows
    <2> HIDE DEF left
    <2>4. page' \in FormPage /\ ~page'.submitting /\ page'.left = left
      BY <1>1, <2>1, <2>2 DEF FormPage
    <2>5. \A v \in tasks' : RoomFormTask(v)' /\ ~Saving(v)
      BY <1>1, <2>1 DEF FormInv, RoomFormTask, Saving
    <2>6. FormDone'
      BY <1>1, <2>2, <2>3, <2>4 DEF FormDone
    <2> QED BY <1>1, <2>4, <2>5, <2>6 DEF FormInv, Saving
  <1>4. CASE \E ok \in BOOLEAN : RoomFormLoads(t, ok)
    <2>1. /\ t.fn = "load" /\ tasks' = tasks \ {t}
          /\ \/ page' = [page EXCEPT !.text = "old"]
             \/ page' = [page EXCEPT !.left = "error"]
      BY <1>4 DEF RoomFormLoads, Awaiting, End
    <2>2. /\ page' \in FormPage /\ page'.submitting = page.submitting
          /\ page'.left \in {page.left, "error"}
      BY <1>1, <2>1 DEF FormPage, FormTexts
    <2>3. \A v \in tasks' : RoomFormTask(v)'
      BY <1>1, <2>1, <2>2 DEF FormInv, RoomFormTask, Saving
    <2>4. FormDone'
      BY <1>1, <2>2 DEF FormInv, FormDone
    <2> QED BY <1>1, <2>1, <2>2, <2>3, <2>4 DEF FormInv, Saving
  <1> QED BY <1>2, <1>3, <1>4

LEMMA FormKept == FormInv /\ FormNext => FormInv'
  BY FormAsked, ServeFormKeeps, RoomFormReplies DEF FormNext
LEMMA FormIdle == FormInv /\ UNCHANGED vars => FormInv'
  BY DEF vars, FormInv, RoomFormTask, FormDone, Saving
LEMMA FormRest == FormInv => FormDone /\ (tasks = {} => ~page.submitting)
  BY DEF FormInv

\* A new account.

NewUserPage ==
  [at : {"newUser"}, form : Persons \cup {None}, submitting : BOOLEAN, error : BOOLEAN,
   left : Persons \cup {None}]
NewUserTask(t) ==
  /\ IsTask(t) /\ t.fn = "create" /\ t.arg \in Persons
  /\ t.wire = "ok" => t.arg \in server
NewUserInv ==
  /\ page \in NewUserPage /\ server \in SUBSET Persons
  /\ \A t \in tasks : NewUserTask(t)
  /\ page.submitting => tasks # {}
  /\ NewUserDone

LEMMA NewUserBegins == NewUserInit => NewUserInv
  BY DEF NewUserInit, NewUserInv, NewUserPage, NewUserDone

LEMMA NewUserKept == NewUserInv /\ NewUserNext => NewUserInv'
  <1> SUFFICES ASSUME NewUserInv, NewUserNext PROVE NewUserInv'
    OBVIOUS
  <1>1. page \in NewUserPage /\ server \in SUBSET Persons
    BY DEF NewUserInv
  <1>2. CASE \E u \in Persons : TypeAccount(u)
    <2>1. /\ page' \in NewUserPage /\ page'.submitting = page.submitting
          /\ page'.left = page.left /\ UNCHANGED <<tasks, server>>
      BY <1>1, <1>2 DEF TypeAccount, NewUserPage
    <2> QED BY <1>1, <2>1 DEF NewUserInv, NewUserTask, NewUserDone
  <1>3. CASE HandleUserSubmit
    <2>1. PICK u : Fresh(u, "create", page.form) /\ tasks' = tasks \cup {u}
      BY <1>3, TapStarts DEF HandleUserSubmit
    <2>2. /\ page' \in NewUserPage /\ page'.left = page.left /\ page.form \in Persons
          /\ UNCHANGED server
      BY <1>1, <1>3 DEF HandleUserSubmit, NewUserPage
    <2>3. NewUserTask(u)'
      BY <2>1, <2>2 DEF NewUserTask, Fresh
    <2> QED BY <1>1, <2>1, <2>2, <2>3 DEF NewUserInv, NewUserTask, NewUserDone
  <1>4. ASSUME NEW t \in tasks, ServeNewUser(t) PROVE NewUserInv'
    <2>1. NewUserTask(t) /\ t.wire = "sent"
      BY <1>4 DEF NewUserInv, ServeNewUser, Awaiting
    <2>2. Serve(t, t.arg \notin server, server \cup {t.arg}, None)
      BY <1>4 DEF ServeNewUser
    <2> DEFINE accepts == t.arg \notin server
    <2>3. PICK u : Replied(t, u, accepts, server \cup {t.arg}, None, {"create"})
      <3> HIDE DEF accepts
      <3>1. Serve(t, accepts, server \cup {t.arg}, None)
        BY <2>2 DEF accepts
      <3> QED BY <2>1, <3>1, CallReplies DEF NewUserTask
    <2> HIDE DEF accepts
    <2>4. /\ IsTask(u) /\ u.fn = t.fn /\ u.arg = t.arg /\ tasks' = (tasks \ {t}) \cup {u}
          /\ UNCHANGED page /\ server \subseteq server' /\ server' \in SUBSET Persons
          /\ u.wire = "ok" => u.arg \in server'
      BY <1>1, <2>1, <2>3 DEF Replied, NewUserTask
    <2>5. \A v \in tasks' : NewUserTask(v)'
      BY <2>1, <2>4 DEF NewUserInv, NewUserTask
    <2> QED BY <1>1, <2>4, <2>5 DEF NewUserInv, NewUserDone
  <1>5. ASSUME NEW t \in tasks, UserSubmitReturns(t) PROVE NewUserInv'
    <2> DEFINE left == IF t.wire = "ok" THEN t.arg ELSE page.left
    <2>1. /\ page' = [page EXCEPT !.submitting = FALSE, !.error = t.wire = "failed", !.left = left]
          /\ tasks' = tasks \ {t} /\ UNCHANGED server /\ NewUserTask(t)
      BY <1>5 DEF UserSubmitReturns, End, NewUserInv
    <2>2. left \in Persons \cup {None} /\ (left # None => left \in server)
      BY <1>1, <2>1 DEF NewUserInv, NewUserTask, NewUserPage, NewUserDone
    <2> HIDE DEF left
    <2>3. page' \in NewUserPage /\ ~page'.submitting /\ page'.left = left
      BY <1>1, <2>1, <2>2 DEF NewUserPage
    <2> QED BY <1>1, <2>1, <2>2, <2>3 DEF NewUserInv, NewUserTask, NewUserDone
  <1> QED BY <1>2, <1>3, <1>4, <1>5 DEF NewUserNext

LEMMA NewUserIdle == NewUserInv /\ UNCHANGED vars => NewUserInv'
  BY DEF vars, NewUserInv, NewUserTask, NewUserDone
LEMMA NewUserRest == NewUserInv => NewUserDone /\ (tasks = {} => ~page.submitting)
  BY DEF NewUserInv

------------------------------------------------------------------------------
\* The broadcasts: one is under way at a time.

BroadcastPage ==
  [at : {"broadcast"}, audience : {"all", "some"}, chosen : BOOLEAN, text : BOOLEAN,
   error : BOOLEAN, sending : BOOLEAN, sent : BOOLEAN, history : Nat]
BroadcastRows == [all : Nat, some : Nat]
OutThere == server.all + server.some
BroadcastTask(t) ==
  /\ IsTask(t) /\ t.fn = "send" /\ t.arg \in {"all", "some"} /\ page.sending
  /\ t.wire = "ok" => page.history < OutThere
BroadcastInv ==
  /\ page \in BroadcastPage /\ server \in BroadcastRows
  /\ \A t \in tasks : BroadcastTask(t)
  /\ \A t, u \in tasks : t = u
  /\ page.sending => tasks # {}
  /\ page.history <= OutThere
  /\ ~stale => \/ page.history = OutThere
               \/ page.history + 1 = OutThere /\ \E t \in tasks : t.wire = "ok"

LEMMA BroadcastBegins == BroadcastInit => BroadcastInv
  BY DEF BroadcastInit, BroadcastInv, BroadcastPage, BroadcastRows, OutThere

LEMMA BroadcastAsked ==
  ASSUME BroadcastInv,
         \/ \E a \in {"all", "some"} : ChooseAudience(a)
         \/ ChooseAddressee \/ WriteBroadcast \/ HandleSend \/ NewBroadcast
  PROVE  BroadcastInv'
  <1>1. page \in BroadcastPage /\ UNCHANGED <<server, stale>>
    BY DEF BroadcastInv, ChooseAudience, ChooseAddressee, WriteBroadcast, HandleSend,
           NewBroadcast
  <1>2. ASSUME page' \in BroadcastPage, page'.sending = page.sending,
               page'.history = page.history, tasks' = tasks
        PROVE  BroadcastInv'
    BY <1>1, <1>2 DEF BroadcastInv, BroadcastTask, OutThere
  <1>3. CASE HandleSend /\ page'.sending # page.sending
    <2>1. page.sending \in BOOLEAN /\ page' = [page EXCEPT !.error = FALSE, !.sending = TRUE]
          /\ Start(New("send", page.audience)) /\ ~page.sending
      BY <1>1, <1>3 DEF HandleSend, BroadcastPage
    <2>2. PICK u : Fresh(u, "send", page.audience) /\ tasks' = tasks \cup {u}
      BY <2>1, TapStarts
    <2>3. page' \in BroadcastPage /\ page'.sending /\ page'.history = page.history
      BY <1>1, <2>1 DEF BroadcastPage
    <2>4. tasks = {}
      BY <2>1 DEF BroadcastInv, BroadcastTask
    <2>5. BroadcastTask(u)'
      BY <1>1, <2>2, <2>3 DEF BroadcastTask, Fresh, BroadcastPage
    <2> QED BY <1>1, <2>2, <2>3, <2>4, <2>5 DEF BroadcastInv, OutThere
  <1>4. CASE HandleSend /\ page'.sending = page.sending
    <2>1. page' = [page EXCEPT !.error = TRUE] /\ tasks' = tasks
      BY <1>1, <1>4 DEF HandleSend, BroadcastPage
    <2> QED BY <1>1, <1>2, <2>1 DEF BroadcastPage
  <1>5. CASE \E a \in {"all", "some"} : ChooseAudience(a)
    BY <1>1, <1>2, <1>5 DEF ChooseAudience, BroadcastPage
  <1>6. CASE ChooseAddressee
    BY <1>1, <1>2, <1>6 DEF ChooseAddressee, BroadcastPage
  <1>7. CASE WriteBroadcast
    BY <1>1, <1>2, <1>7 DEF WriteBroadcast, BroadcastPage
  <1>8. CASE NewBroadcast
    BY <1>1, <1>2, <1>8 DEF NewBroadcast, BroadcastPage
  <1> QED BY <1>3, <1>4, <1>5, <1>6, <1>7, <1>8

LEMMA ServeBroadcastKeeps ==
  ASSUME BroadcastInv, NEW t \in tasks, ServeBroadcast(t)
  PROVE  BroadcastInv'
  <1>1. /\ BroadcastTask(t) /\ t.wire = "sent" /\ page \in BroadcastPage
        /\ server \in BroadcastRows /\ tasks = {t}
    BY DEF BroadcastInv, ServeBroadcast, Awaiting
  <1> DEFINE accepts == server.all + server.some < MaxAsks
             after == [server EXCEPT ![t.arg] = @ + 1]
  <1>2. Serve(t, accepts, after, None)
    BY DEF ServeBroadcast
  <1>3. /\ after \in BroadcastRows
        /\ after.all + after.some = OutThere + 1 /\ OutThere \in Nat
    <2>1. CASE t.arg = "all"
      BY <1>1, <2>1 DEF BroadcastRows, OutThere
    <2>2. CASE t.arg = "some"
      BY <1>1, <2>2 DEF BroadcastRows, OutThere
    <2> QED BY <1>1, <2>1, <2>2 DEF BroadcastTask
  <1> HIDE DEF accepts, after
  <1>4. PICK u : Ended(t, u, accepts, after, None)
    BY <1>1, <1>2, CallEnds DEF BroadcastTask
  <1>5. /\ IsTask(u) /\ u.fn = "send" /\ u.arg = t.arg /\ tasks' = {u}
        /\ u.wire \in {"ok", "failed"}
        /\ u.wire = "ok" => server' = after
        /\ ~stale' => ~stale /\ (server' # server => u.wire = "ok")
    BY <1>1, <1>4 DEF Ended, BroadcastTask
  <1>6. UNCHANGED page /\ (server' # server => server' = after)
    BY <1>1, <1>2, CallEnds DEF BroadcastTask
  <1>7. server' \in BroadcastRows /\ OutThere' \in {OutThere, OutThere + 1}
    BY <1>1, <1>3, <1>6 DEF OutThere
  <1>8. u.wire = "ok" => OutThere' = OutThere + 1
    BY <1>3, <1>5 DEF OutThere
  <1>9. ~stale => page.history = OutThere
    BY <1>1 DEF BroadcastInv
  <1>10. page.history \in Nat /\ page.history <= OutThere
    BY <1>1 DEF BroadcastInv, BroadcastPage
  <1>11. BroadcastTask(u)'
    BY <1>1, <1>3, <1>5, <1>6, <1>8, <1>10 DEF BroadcastTask
  <1>12. u.wire # "ok" /\ ~stale' => OutThere' = OutThere
    BY <1>5 DEF OutThere
  <1>13. page'.history <= OutThere'
    BY <1>3, <1>6, <1>7, <1>10
  <1>14. ~stale' => \/ page'.history = OutThere'
                    \/ page'.history + 1 = OutThere' /\ u.wire = "ok"
    BY <1>5, <1>6, <1>8, <1>9, <1>12
  <1> QED BY <1>1, <1>5, <1>6, <1>7, <1>11, <1>13, <1>14 DEF BroadcastInv

LEMMA BroadcastReturnsKeeps ==
  ASSUME BroadcastInv, NEW t \in tasks, HandleSendReturns(t)
  PROVE  BroadcastInv'
  <1>1. /\ BroadcastTask(t) /\ page \in BroadcastPage /\ server \in BroadcastRows
        /\ UNCHANGED <<server, stale>> /\ tasks' = {} /\ t.wire \in {"ok", "failed"}
    BY DEF BroadcastInv, HandleSendReturns, End, BroadcastTask, IsTask
  <1>2. OutThere' = OutThere /\ OutThere \in Nat /\ page.history \in Nat
    BY <1>1 DEF OutThere, BroadcastRows, BroadcastPage
  <1>3. CASE t.wire = "failed"
    <2>1. page' \in BroadcastPage /\ ~page'.sending /\ page'.history = page.history
      BY <1>1, <1>3 DEF HandleSendReturns, BroadcastPage
    <2>2. ~stale => page.history = OutThere
      BY <1>3 DEF BroadcastInv
    <2> QED BY <1>1, <1>2, <2>1, <2>2 DEF BroadcastInv
  <1>4. CASE t.wire = "ok"
    <2> DEFINE history == page.history + 1
    <2>3. history \in Nat /\ page' = [page EXCEPT !.sending = FALSE, !.sent = TRUE,
                                       !.text = FALSE, !.history = history]
      BY <1>1, <1>2, <1>4 DEF HandleSendReturns, BroadcastPage
    <2> HIDE DEF history
    <2>4. page' \in BroadcastPage /\ ~page'.sending /\ page'.history = history
      BY <1>1, <2>3 DEF BroadcastPage
    <2>1. /\ page' \in BroadcastPage /\ ~page'.sending
          /\ page'.history = page.history + 1
      BY <2>4 DEF history
    <2>2. page.history < OutThere
      BY <1>1, <1>4 DEF BroadcastTask
    <2>5. ~stale => page.history + 1 = OutThere
      BY <1>2, <2>2 DEF BroadcastInv
    <2> QED BY <1>1, <1>2, <2>1, <2>2, <2>5 DEF BroadcastInv
  <1> QED BY <1>1, <1>3, <1>4

LEMMA BroadcastKept == BroadcastInv /\ BroadcastNext => BroadcastInv'
  BY BroadcastAsked, ServeBroadcastKeeps, BroadcastReturnsKeeps DEF BroadcastNext
LEMMA BroadcastIdle == BroadcastInv /\ UNCHANGED vars => BroadcastInv'
  BY DEF vars, BroadcastInv, BroadcastTask, OutThere
LEMMA BroadcastRest == BroadcastInv /\ tasks = {} => BroadcastDone /\ ~BroadcastBusy
  BY DEF BroadcastInv, BroadcastDone, BroadcastBusy, OutThere

\* Who may use the assistant: what was read or saved last is what there is.

AccessPage ==
  [at : {"access"}, access : {None} \cup SUBSET Audiences, selected : SUBSET Audiences,
   error : BOOLEAN, saved : BOOLEAN, saving : BOOLEAN]
AccessTask(t) ==
  /\ IsTask(t) /\ t.fn \in {"load", "save"}
  /\ t.fn = "save" => t.arg \in SUBSET Audiences /\ page.saving
  /\ t.wire = "ok" => t.reply \in SUBSET Audiences /\ (~stale => t.reply = server)
AccessFollows ==
  /\ page.access = None /\ ~page.error => \E t \in tasks : t.fn = "load"
  /\ page.saved => page.access # None /\ page.selected = page.access
  /\ ~stale /\ page.access # None =>
       page.access = server \/ \E t \in tasks : t.wire = "ok"
AccessInv ==
  /\ page \in AccessPage /\ server \in SUBSET Audiences
  /\ \A t \in tasks : AccessTask(t)
  /\ Once({"save"})
  /\ page.saving => \E t \in tasks : t.fn = "save"
  /\ AccessFollows

LEMMA AccessBegins == AccessInit => AccessInv
  <1> SUFFICES ASSUME AccessInit PROVE AccessInv
    OBVIOUS
  <1>1. PICK l : Fresh(l, "load", None) /\ tasks = {l}
    BY LoadStarts DEF AccessInit
  <1>2. /\ page \in AccessPage /\ ~page.saving /\ ~page.saved /\ page.access = None
        /\ server \in SUBSET Audiences
    BY DEF AccessInit, AccessPage
  <1> QED BY <1>1, <1>2 DEF AccessInv, AccessTask, AccessFollows, Once, Fresh

LEMMA AccessAsked ==
  ASSUME AccessInv,
         SwitchAccessLanguage \/ SaveAccess \/ (\E a \in Audiences : ToggleAudience(a))
  PROVE  AccessInv'
  <1>1. page \in AccessPage /\ UNCHANGED <<server, stale>>
    BY DEF AccessInv, SwitchAccessLanguage, SaveAccess, ToggleAudience
  <1>2. CASE SwitchAccessLanguage
    <2>1. PICK u : Fresh(u, "load", None) /\ tasks' = tasks \cup {u}
      BY <1>2, TapStarts DEF SwitchAccessLanguage
    <2>2. UNCHANGED page
      BY <1>2 DEF SwitchAccessLanguage
    <2>3. AccessTask(u)'
      BY <2>1 DEF AccessTask, Fresh
    <2> QED BY <1>1, <2>1, <2>2, <2>3 DEF AccessInv, AccessTask, AccessFollows, Once, Fresh
  <1>3. CASE SaveAccess
    <2>1. PICK u : Fresh(u, "save", page.selected) /\ tasks' = tasks \cup {u}
      BY <1>3, TapStarts DEF SaveAccess
    <2>2. /\ page' \in AccessPage /\ page'.access = page.access /\ page'.selected = page.selected
          /\ page'.saved = page.saved /\ page'.saving /\ ~page.saving /\ page.access # None
      BY <1>1, <1>3 DEF SaveAccess, AccessPage
    <2>3. AccessTask(u)'
      BY <1>1, <2>1, <2>2 DEF AccessTask, Fresh, AccessPage
    <2>4. \A v \in tasks : AccessTask(v)' /\ v.fn # "save"
      BY <1>1, <2>2 DEF AccessInv, AccessTask
    <2>5. Once({"save"})'
      BY <2>1, <2>4 DEF Once
    <2>6. AccessFollows'
      BY <1>1, <2>1, <2>2 DEF AccessInv, AccessFollows
    <2> QED BY <1>1, <2>1, <2>2, <2>3, <2>4, <2>5, <2>6 DEF AccessInv, Fresh
  <1>4. CASE \E a \in Audiences : ToggleAudience(a)
    <2>1. PICK selected \in SUBSET Audiences :
            page' = [page EXCEPT !.saved = FALSE, !.selected = selected]
      BY <1>1, <1>4 DEF ToggleAudience, AccessPage
    <2>2. /\ page' \in AccessPage /\ page'.access = page.access /\ ~page'.saved
          /\ page'.saving = page.saving /\ page'.error = page.error
      BY <1>1, <2>1 DEF AccessPage
    <2>3. tasks' = tasks
      BY <1>4 DEF ToggleAudience
    <2> QED BY <1>1, <2>2, <2>3 DEF AccessInv, AccessTask, AccessFollows, Once
  <1> QED BY <1>2, <1>3, <1>4

LEMMA ServeAccessKeeps ==
  ASSUME AccessInv, NEW t \in tasks, ServeAccess(t)
  PROVE  AccessInv'
  <1>1. AccessTask(t) /\ t.wire = "sent" /\ page \in AccessPage /\ server \in SUBSET Audiences
    BY DEF AccessInv, ServeAccess, Awaiting
  <1>2. PICK after, u :
          /\ after \in SUBSET Audiences
          /\ Ended(t, u, TRUE, after, after) /\ UNCHANGED page
          /\ server' # server => server' = after
          /\ t.fn = "load" => after = server
    <2>1. CASE t.fn = "load" /\ Serve(t, TRUE, server, server)
      BY <1>1, <2>1, CallEnds DEF AccessTask
    <2>2. CASE t.fn = "save" /\ Serve(t, TRUE, t.arg, t.arg)
      BY <1>1, <2>2, CallEnds DEF AccessTask
    <2> QED BY <2>1, <2>2 DEF ServeAccess, Awaiting
  <1>3. /\ IsTask(u) /\ u.fn = t.fn /\ u.arg = t.arg /\ u.wire \in {"ok", "failed"}
        /\ tasks' = (tasks \ {t}) \cup {u}
        /\ u.wire = "ok" => server' = after /\ u.reply = after
        /\ ~stale' => IF t.fn = "load" /\ u.wire = "ok"
                        THEN \A v \in tasks \ {t} : ~OnItsWay(v)
                        ELSE ~stale /\ (server' # server => u.wire = "ok" /\ ~ReadUnderWay(t))
    BY <1>2 DEF Ended
  <1>4. \A v \in tasks \ {t} : AccessTask(v) /\ (t.fn = "save" => v.fn = "load")
    BY <1>1 DEF AccessInv, AccessTask, Once
  <1>5. ASSUME NEW v \in tasks \ {t} PROVE AccessTask(v)'
    <2>1. v.wire = "ok" /\ ~stale' => ~stale /\ server' = server
      BY <1>1, <1>2, <1>3, <1>4 DEF OnItsWay, ReadUnderWay, AccessTask
    <2> QED BY <1>2, <1>4, <2>1 DEF AccessTask
  <1>6. AccessTask(u)'
    BY <1>1, <1>2, <1>3 DEF AccessTask
  <1>7. Once({"save"})'
    BY <1>3 DEF AccessInv, Once
  <1>8. AccessFollows'
    <2>1. CASE u.wire = "ok"
      BY <1>2, <1>3, <2>1 DEF AccessInv, AccessFollows
    <2>2. CASE u.wire # "ok"
      BY <1>1, <1>2, <1>3, <2>2 DEF AccessInv, AccessFollows
    <2> QED BY <2>1, <2>2
  <1> QED BY <1>1, <1>2, <1>3, <1>5, <1>6, <1>7, <1>8 DEF AccessInv

LEMMA AccessReplies ==
  ASSUME AccessInv, NEW t \in tasks, AccessReturns(t) \/ SaveAccessReturns(t)
  PROVE  AccessInv'
  <1>1. /\ AccessTask(t) /\ page \in AccessPage /\ UNCHANGED <<server, stale>>
        /\ tasks' = tasks \ {t} /\ t.wire \in {"ok", "failed"}
        /\ t.fn = "save" <=> SaveAccessReturns(t)
    BY DEF AccessInv, AccessReturns, SaveAccessReturns, End, AccessTask, IsTask
  <1>2. /\ page' \in AccessPage
        /\ page'.saving = (page.saving /\ t.fn # "save")
        /\ IF t.wire = "ok" THEN page'.access = t.reply /\ page'.selected = t.reply
           ELSE /\ page'.access = page.access /\ page'.selected = page.selected
                /\ page'.error /\ page'.saved = page.saved
    <2>1. CASE AccessReturns(t) /\ t.wire = "ok"
      BY <1>1, <2>1 DEF AccessReturns, AccessPage, AccessTask
    <2>2. CASE AccessReturns(t) /\ t.wire = "failed"
      BY <1>1, <2>2 DEF AccessReturns, AccessPage
    <2>3. CASE SaveAccessReturns(t) /\ t.wire = "ok"
      BY <1>1, <2>3 DEF SaveAccessReturns, AccessPage, AccessTask
    <2>4. CASE SaveAccessReturns(t) /\ t.wire = "failed"
      BY <1>1, <2>4 DEF SaveAccessReturns, AccessPage
    <2> QED BY <1>1, <2>1, <2>2, <2>3, <2>4
  <1>3. \A v \in tasks' : AccessTask(v)'
    BY <1>1, <1>2 DEF AccessInv, AccessTask, Once
  <1>4. AccessFollows'
    <2>1. CASE t.wire = "ok"
      BY <1>1, <1>2, <2>1, AudiencesAssumption DEF AccessFollows, AccessTask
    <2>2. CASE t.wire = "failed"
      BY <1>1, <1>2, <2>2 DEF AccessInv, AccessFollows
    <2> QED BY <1>1, <2>1, <2>2
  <1>5. page'.saving => \E v \in tasks' : v.fn = "save"
    BY <1>1, <1>2 DEF AccessInv
  <1> QED BY <1>1, <1>2, <1>3, <1>4, <1>5 DEF AccessInv, Once

LEMMA AccessKept == AccessInv /\ AccessNext => AccessInv'
  BY AccessAsked, ServeAccessKeeps, AccessReplies DEF AccessNext
LEMMA AccessIdle == AccessInv /\ UNCHANGED vars => AccessInv'
  BY DEF vars, AccessInv, AccessTask, AccessFollows, Once
LEMMA AccessRest ==
  AccessInv /\ tasks = {} => ~AccessBusy /\ AccessDone /\ (~stale => AccessAgrees)
  BY DEF AccessInv, AccessFollows, AccessBusy, AccessDone, AccessAgrees

------------------------------------------------------------------------------
\* The users: the list after a deletion, and the last password given.

Changes == [who : Persons, new : {"second", "third"}]
UsersPage ==
  [at : {"users"}, list : {None} \cup SUBSET Persons, error : BOOLEAN,
   delete : Persons \cup {None}, deleting : BOOLEAN, deleteError : BOOLEAN,
   who : Persons \cup {None}, typed : {"second", "third", None}, saving : BOOLEAN,
   passwordError : BOOLEAN, changed : Changes \cup {None}]
UsersRows == [there : SUBSET Persons, secret : [Persons -> {"first", "second", "third"}]]
UsersTask(t) ==
  /\ IsTask(t) /\ t.fn \in {"load", "delete", "password"}
  /\ t.fn = "delete" => t.arg \in Persons
  /\ t.fn = "password" => t.arg \in Changes /\ page.saving /\ page.changed = None
  /\ t.fn = "password" /\ t.wire = "ok" => server.secret[t.arg.who] = t.arg.new
  /\ t.fn = "load" /\ t.wire = "ok" =>
       t.reply \in SUBSET Persons /\ (~stale => t.reply = server.there)
UsersAwaited ==
  /\ page.deleting => \E t \in tasks : t.fn = "delete"
  /\ page.saving => \E t \in tasks : t.fn = "password"
  /\ page.list = None /\ ~page.error => \E t \in tasks : t.fn = "load"
UsersFollow ==
  ~stale /\ page.list # None /\ ~page.error =>
    page.list = server.there \/ Rereading(tasks, {"delete"})
UsersInv ==
  /\ page \in UsersPage /\ server \in UsersRows
  /\ \A t \in tasks : UsersTask(t)
  /\ Once({"password"})
  /\ UsersAwaited /\ UsersFollow
  /\ page.changed # None => server.secret[page.changed.who] = page.changed.new

LEMMA UsersBegin == UsersInit => UsersInv
  <1> SUFFICES ASSUME UsersInit PROVE UsersInv
    OBVIOUS
  <1>1. PICK l : Fresh(l, "load", None) /\ tasks = {l}
    BY LoadStarts DEF UsersInit
  <1>2. /\ page \in UsersPage /\ ~page.saving /\ ~page.deleting /\ page.list = None
        /\ page.changed = None
    BY DEF UsersInit, UsersPage
  <1>3. server \in UsersRows
    BY DEF UsersInit, UsersRows
  <1> QED BY <1>1, <1>2, <1>3 DEF UsersInv, UsersTask, UsersAwaited, UsersFollow, Once,
                                  Fresh

\* What leaves the list as it is, and ends no reading.
LEMMA UsersTaps ==
  ASSUME UsersInv, UNCHANGED <<server, stale>>, page' \in UsersPage,
         page'.list = page.list, page'.error = page.error,
         page'.changed = page.changed, tasks \subseteq tasks',
         \A u \in tasks' \ tasks : UsersTask(u)' /\ (u.fn = "password" => ~page.saving),
         \A t, u \in tasks' \ tasks : t = u,
         page.saving => page'.saving,
         page'.deleting => page.deleting \/ \E t \in tasks' : t.fn = "delete",
         page'.saving => page.saving \/ \E t \in tasks' : t.fn = "password"
  PROVE  UsersInv'
  <1>1. \A u \in tasks' : UsersTask(u)'
    BY DEF UsersInv, UsersTask
  <1>2. Once({"password"})'
    BY DEF UsersInv, UsersTask, Once
  <1>3. UsersAwaited'
    BY DEF UsersInv, UsersAwaited
  <1>4. UsersFollow'
    BY DEF UsersInv, UsersFollow, Rereading
  <1> QED BY <1>1, <1>2, <1>3, <1>4 DEF UsersInv

LEMMA UsersAsked ==
  ASSUME UsersInv,
         \/ \E u \in Persons : AskDeleteUser(u) \/ OpenPasswordDialog(u)
         \/ CancelDeleteUser \/ HandleDeleteUser \/ ClosePasswordDialog
         \/ \E v \in {"second", "third"} : TypePassword(v)
  PROVE  UsersInv'
  <1>1. page \in UsersPage /\ UNCHANGED <<server, stale>>
    BY DEF UsersInv, AskDeleteUser, OpenPasswordDialog, CancelDeleteUser, HandleDeleteUser,
           ClosePasswordDialog, TypePassword
  <1>2. CASE HandleDeleteUser
    <2>1. PICK u : Fresh(u, "delete", page.delete) /\ tasks' = tasks \cup {u}
      BY <1>2, TapStarts DEF HandleDeleteUser
    <2>2. /\ page' \in UsersPage /\ page'.list = page.list /\ page'.error = page.error
          /\ page'.changed = page.changed /\ page'.saving = page.saving
          /\ page.delete \in Persons
      BY <1>1, <1>2 DEF HandleDeleteUser, UsersPage
    <2>3. UsersTask(u)' /\ u.fn = "delete"
      BY <2>1, <2>2 DEF UsersTask, Fresh
    <2> QED BY <1>1, <2>1, <2>2, <2>3, UsersTaps
  <1>3. ASSUME page' \in UsersPage, page'.list = page.list, page'.error = page.error,
               page'.changed = page.changed, page'.saving = page.saving,
               page'.deleting = page.deleting, tasks' = tasks
        PROVE  UsersInv'
    BY <1>1, <1>3, UsersTaps
  <1>4. CASE \E u \in Persons : AskDeleteUser(u)
    BY <1>1, <1>3, <1>4 DEF AskDeleteUser, UsersPage
  <1>5. CASE \E u \in Persons : OpenPasswordDialog(u)
    BY <1>1, <1>3, <1>5 DEF OpenPasswordDialog, UsersPage
  <1>6. CASE CancelDeleteUser
    BY <1>1, <1>3, <1>6 DEF CancelDeleteUser, UsersPage
  <1>7. CASE ClosePasswordDialog
    BY <1>1, <1>3, <1>7 DEF ClosePasswordDialog, UsersPage
  <1>8. CASE \E v \in {"second", "third"} : TypePassword(v)
    BY <1>1, <1>3, <1>8 DEF TypePassword, UsersPage
  <1> QED BY <1>2, <1>4, <1>5, <1>6, <1>7, <1>8

LEMMA PasswordKeeps ==
  ASSUME UsersInv, HandleSetPassword
  PROVE  UsersInv'
  <1> DEFINE change == [who |-> page.who, new |-> page.typed]
  <1>1. page \in UsersPage /\ UNCHANGED <<server, stale>> /\ ~page.saving
    BY DEF UsersInv, HandleSetPassword
  <1>2. PICK u : Fresh(u, "password", change) /\ tasks' = tasks \cup {u}
    BY TapStarts DEF HandleSetPassword
  <1>3. change \in Changes
    BY <1>1 DEF HandleSetPassword, Changes, UsersPage
  <1> HIDE DEF change
  <1>4. /\ page' \in UsersPage /\ page'.list = page.list /\ page'.error = page.error
        /\ page'.changed = None /\ page'.deleting = page.deleting /\ page'.saving
    BY <1>1 DEF HandleSetPassword, UsersPage
  <1>5. UsersTask(u)' /\ u.fn = "password"
    BY <1>2, <1>3, <1>4 DEF UsersTask, Fresh
  <1>6. \A v \in tasks : UsersTask(v)' /\ v.fn # "password"
    BY <1>1, <1>4 DEF UsersInv, UsersTask
  <1>7. Once({"password"})'
    BY <1>2, <1>6 DEF Once
  <1>8. UsersAwaited'
    BY <1>2, <1>4, <1>5 DEF UsersInv, UsersAwaited
  <1>9. UsersFollow'
    BY <1>1, <1>2, <1>4 DEF UsersInv, UsersFollow, Rereading
  <1> QED BY <1>1, <1>2, <1>4, <1>5, <1>6, <1>7, <1>8, <1>9 DEF UsersInv

LEMMA ServeUsersKeeps ==
  ASSUME UsersInv, NEW t \in tasks, ServeUsers(t)
  PROVE  UsersInv'
  <1>1. UsersTask(t) /\ t.wire = "sent" /\ page \in UsersPage /\ server \in UsersRows
    BY DEF UsersInv, ServeUsers, Awaiting
  <1>2. ASSUME NEW accepts, NEW after, NEW reply, Serve(t, accepts, after, reply),
               after \in UsersRows,
               t.fn # "delete" => after.there = server.there,
               t.fn = "load" => after = server /\ reply = server.there,
               t.fn # "password" => after.secret = server.secret,
               t.fn = "password" => after.secret[t.arg.who] = t.arg.new
        PROVE  UsersInv'
    <2>1. PICK u : Replied(t, u, accepts, after, reply, {"delete", "password"})
      BY <1>1, <1>2, CallReplies DEF UsersTask
    <2>2. /\ IsTask(u) /\ u.fn = t.fn /\ u.arg = t.arg /\ u.wire \in {"ok", "failed"}
          /\ tasks' = (tasks \ {t}) \cup {u}
          /\ u.wire = "ok" => server' = after /\ u.reply = reply
      BY <2>1 DEF Replied
    <2>3. UNCHANGED page /\ (server' # server => server' = after)
      BY <2>1 DEF Replied
    <2>4. /\ server' \in UsersRows
          /\ t.fn # "delete" => server'.there = server.there
          /\ t.fn # "password" => server'.secret = server.secret
      BY <1>1, <1>2, <2>3
    <2>5. ASSUME NEW v \in tasks \ {t} PROVE UsersTask(v)'
      <3>1. UsersTask(v) /\ (v.fn = "password" => t.fn # "password")
        BY DEF UsersInv, Once
      <3>2. v.fn = "load" /\ v.wire = "ok" /\ ~stale' => ~stale /\ server' = server
        BY <2>1 DEF Replied, OnItsWay
      <3> QED BY <2>3, <2>4, <3>1, <3>2 DEF UsersTask
    <2>6. UsersTask(u)'
      <3>1. /\ u.fn = "load" /\ u.wire = "ok" => u.reply = server'.there
            /\ u.fn = "password" /\ u.wire = "ok" => server'.secret[u.arg.who] = u.arg.new
            /\ server'.there \in SUBSET Persons
        BY <1>2, <2>2, <2>4 DEF UsersRows
      <3> QED BY <1>1, <2>2, <2>3, <3>1 DEF UsersTask
    <2>7. \A v \in tasks' : UsersTask(v)'
      BY <2>2, <2>5, <2>6
    <2>8. UsersAwaited' /\ Once({"password"})'
      BY <2>2, <2>3 DEF UsersInv, UsersAwaited, Once
    <2>9. UsersFollow'
      <3>1. ~stale' => Rereading(tasks', {"delete"}) \/ (~stale /\ server'.there = server.there)
        <4>1. CASE t.fn = "password"
          <5>1. ~stale' => ~stale
            BY <1>1, <1>2, <4>1 DEF Serve
          <5> QED BY <2>4, <4>1, <5>1
        <4>2. CASE t.fn = "load"
          BY <2>2, <4>2 DEF Rereading
        <4>3. CASE t.fn = "delete"
          <5>1. PICK w : Ended(t, w, accepts, after, reply)
            BY <1>1, <1>2, CallEnds DEF UsersTask
          <5>2. ~stale' => ~stale /\ (server' # server => w.wire = "ok")
            BY <4>3, <5>1 DEF Ended
          <5>3. w \in tasks' /\ w.fn = "delete"
            BY <4>3, <5>1 DEF Ended
          <5> QED BY <5>2, <5>3 DEF Rereading
        <4> QED BY <1>1, <4>1, <4>2, <4>3 DEF UsersTask
      <3>2. Rereading(tasks, {"delete"}) => Rereading(tasks', {"delete"})
        BY <1>1, <2>2 DEF Rereading
      <3> QED BY <2>3, <3>1, <3>2 DEF UsersInv, UsersFollow
    <2>10. page'.changed # None => server'.secret[page'.changed.who] = page'.changed.new
      BY <1>1, <2>3, <2>4 DEF UsersInv, UsersTask
    <2> QED BY <1>1, <2>3, <2>4, <2>7, <2>8, <2>9, <2>10 DEF UsersInv
  <1>3. CASE Awaiting(t, {"load"}) /\ Serve(t, TRUE, server, server.there)
    BY <1>1, <1>2, <1>3 DEF Awaiting
  <1>4. CASE /\ Awaiting(t, {"delete"})
             /\ Serve(t, t.arg \in server.there, [server EXCEPT !.there = @ \ {t.arg}], None)
    <2> DEFINE after == [server EXCEPT !.there = @ \ {t.arg}]
    <2>1. /\ after \in UsersRows /\ after.secret = server.secret /\ t.fn = "delete"
          /\ Serve(t, t.arg \in server.there, after, None)
      BY <1>1, <1>4 DEF UsersRows, Awaiting
    <2> HIDE DEF after
    <2> QED BY <1>2, <2>1
  <1>5. CASE /\ Awaiting(t, {"password"})
             /\ Serve(t, t.arg.who \in server.there,
                      [server EXCEPT !.secret[t.arg.who] = t.arg.new], None)
    <2> DEFINE after == [server EXCEPT !.secret[t.arg.who] = t.arg.new]
    <2>1. /\ t.arg \in Changes /\ t.fn = "password"
          /\ Serve(t, t.arg.who \in server.there, after, None)
      BY <1>1, <1>5 DEF UsersTask, Awaiting
    <2>2. /\ after \in UsersRows /\ after.there = server.there
          /\ after.secret[t.arg.who] = t.arg.new
      BY <1>1, <2>1 DEF UsersRows, Changes
    <2> HIDE DEF after
    <2> QED BY <1>2, <2>1, <2>2
  <1> QED BY <1>3, <1>4, <1>5 DEF ServeUsers

LEMMA UsersReplies ==
  ASSUME UsersInv, NEW t \in tasks,
         UsersLoadReturns(t) \/ DeleteUserReturns(t) \/ PasswordReturns(t)
  PROVE  UsersInv'
  <1>1. /\ UsersTask(t) /\ page \in UsersPage /\ UNCHANGED <<server, stale>>
        /\ t.wire \in {"ok", "failed"} /\ server \in UsersRows
    BY DEF UsersInv, UsersLoadReturns, DeleteUserReturns, PasswordReturns, UsersTask, IsTask
  <1>2. CASE UsersLoadReturns(t)
    <2>1. /\ t.fn = "load" /\ tasks' = tasks \ {t} /\ page' \in UsersPage
          /\ page'.saving = page.saving /\ page'.deleting = page.deleting
          /\ page'.changed = page.changed
          /\ IF t.wire = "ok" THEN page'.list = t.reply ELSE page'.error
      BY <1>1, <1>2 DEF UsersLoadReturns, End, UsersPage, UsersTask
    <2>2. \A v \in tasks' : UsersTask(v)'
      BY <1>1, <2>1 DEF UsersInv, UsersTask
    <2>3. UsersAwaited'
      BY <1>1, <2>1, PersonsAssumption DEF UsersInv, UsersAwaited, UsersTask
    <2>4. UsersFollow'
      BY <1>1, <2>1 DEF UsersFollow, UsersTask
    <2> QED BY <1>1, <2>1, <2>2, <2>3, <2>4 DEF UsersInv, Once
  <1>3. CASE DeleteUserReturns(t)
    <2> DEFINE delete == IF t.wire = "ok" THEN None ELSE page.delete
    <2>1. page' = [page EXCEPT !.deleting = FALSE, !.deleteError = t.wire = "failed",
                               !.delete = delete] /\ t.fn = "delete"
      BY <1>1, <1>3 DEF DeleteUserReturns, UsersPage
    <2>2. delete \in Persons \cup {None}
      BY <1>1 DEF UsersPage
    <2> HIDE DEF delete
    <2>3. /\ page' \in UsersPage /\ page'.saving = page.saving /\ ~page'.deleting
          /\ page'.changed = page.changed /\ page'.list = page.list /\ page'.error = page.error
      BY <1>1, <2>1, <2>2 DEF UsersPage
    <2>4. PICK asked : Again(t, asked, {"delete"})
      <3>1. IF t.wire = "ok" THEN GoOn(t, New("load", None)) ELSE End(t)
        BY <1>3 DEF DeleteUserReturns
      <3> QED BY <2>1, <3>1, ReadsAgain
    <2>5. \A v \in tasks' : UsersTask(v)'
      BY <1>1, <2>3, <2>4 DEF UsersInv, UsersTask, Fresh, Again
    <2>6. UsersAwaited' /\ Once({"password"})'
      BY <2>1, <2>3, <2>4 DEF UsersInv, UsersAwaited, Once, Fresh, Again
    <2>7. UsersFollow'
      BY <1>1, <2>3, <2>4 DEF UsersInv, UsersFollow, Again
    <2> QED BY <1>1, <2>3, <2>5, <2>6, <2>7 DEF UsersInv
  <1>4. CASE PasswordReturns(t)
    <2>1. /\ t.fn = "password" /\ tasks' = tasks \ {t} /\ page' \in UsersPage
          /\ ~page'.saving /\ page'.deleting = page.deleting
          /\ page'.list = page.list /\ page'.error = page.error
          /\ page'.changed = IF t.wire = "ok" THEN t.arg ELSE page.changed
      BY <1>1, <1>4 DEF PasswordReturns, End, UsersPage, UsersTask
    <2>2. \A v \in tasks' : UsersTask(v) /\ v.fn # "password"
      BY <2>1 DEF UsersInv, Once
    <2>3. \A v \in tasks' : UsersTask(v)'
      BY <1>1, <2>2 DEF UsersTask
    <2>4. UsersAwaited' /\ Once({"password"})'
      BY <2>1 DEF UsersInv, UsersAwaited, Once
    <2>5. UsersFollow'
      BY <1>1, <2>1 DEF UsersInv, UsersFollow, Rereading
    <2>6. page'.changed # None => server'.secret[page'.changed.who] = page'.changed.new
      BY <1>1, <2>1 DEF UsersInv, UsersTask
    <2> QED BY <1>1, <2>1, <2>3, <2>4, <2>5, <2>6 DEF UsersInv
  <1> QED BY <1>2, <1>3, <1>4

LEMMA UsersKept == UsersInv /\ UsersNext => UsersInv'
  BY UsersAsked, PasswordKeeps, ServeUsersKeeps, UsersReplies DEF UsersNext
LEMMA UsersIdle == UsersInv /\ UNCHANGED vars => UsersInv'
  BY DEF vars, UsersInv, UsersTask, UsersAwaited, UsersFollow, Once
LEMMA UsersRest ==
  UsersInv /\ tasks = {} => ~UsersBusy /\ UsersDone /\ (~stale => UsersAgree)
  BY DEF UsersInv, UsersAwaited, UsersFollow, Rereading, UsersBusy, UsersDone, UsersAgree

------------------------------------------------------------------------------
\* The positions of a user: one call after another, and one submission.

RolesPage ==
  [at : {"roles"}, user : Elected \cup {None}, form : Elected \cup {None}, error : BOOLEAN,
   submitting : BOOLEAN, retried : BOOLEAN, left : BOOLEAN, saved : Elected \cup {None}]
\* What the calls made so far have stored.
Stored(t) ==
  /\ t.fn = "manager" /\ t.wire = "ok" => server.manager = t.arg.manager
  /\ t.fn = "member" /\ t.wire # "failed" /\ ~page.retried => server.manager = t.arg.manager
  /\ t.fn = "member" /\ t.wire = "ok" =>
       server.member = t.arg.member /\ (server.chair => t.arg.member)
  /\ t.fn = "chair" =>
       server.member = t.arg.member /\ (~page.retried => server.manager = t.arg.manager)
  /\ t.fn = "chair" /\ t.wire = "ok" => server.chair = t.arg.chair
RolesTask(t) ==
  /\ IsTask(t) /\ t.fn \in {"load", "manager", "member", "chair"}
  /\ t.fn = "load" => page.form = None /\ ~page.submitting /\ page.saved = None
  /\ t.fn = "load" /\ t.wire = "ok" => t.reply = server
  /\ t.fn # "load" =>
       /\ t.arg \in Elected /\ page.submitting /\ page.saved = None /\ ~page.left
       /\ Stored(t)
RolesInv ==
  /\ page \in RolesPage /\ server \in Elected
  /\ \A t \in tasks : RolesTask(t)
  /\ \A t, u \in tasks : t = u
  /\ page.form # None => page.user # None
  /\ page.saved # None => page.left
  /\ page.submitting => \E t \in tasks : t.fn # "load"
  /\ page.form = None /\ ~page.left => \E t \in tasks : t.fn = "load"
  /\ tasks = {} /\ page.user # None /\ ~page.left /\ ~page.retried =>
       server.manager = page.user.manager
  /\ RolesDone

LEMMA RolesBegin == RolesInit => RolesInv
  <1> SUFFICES ASSUME RolesInit PROVE RolesInv
    OBVIOUS
  <1>1. PICK l : Fresh(l, "load", None) /\ tasks = {l}
    BY LoadStarts DEF RolesInit
  <1>2. /\ page \in RolesPage /\ page.form = None /\ ~page.submitting /\ page.saved = None
        /\ page.user = None
    BY DEF RolesInit, RolesPage
  <1>3. server \in Elected
    BY DEF RolesInit
  <1>4. RolesTask(l)
    BY <1>1, <1>2 DEF RolesTask, Fresh
  <1> QED BY <1>1, <1>2, <1>3, <1>4 DEF RolesInv, RolesDone, Fresh

LEMMA RolesAsked ==
  ASSUME RolesInv, (\E p \in Elected : TickPosition(p)) \/ HandleRoleSubmit
  PROVE  RolesInv'
  <1>1. page \in RolesPage /\ UNCHANGED <<server, stale>> /\ page.form # None /\ ~page.left
    BY DEF RolesInv, TickPosition, HandleRoleSubmit
  <1>2. \A t \in tasks : RolesTask(t) /\ t.fn # "load"
    BY <1>1 DEF RolesInv, RolesTask
  <1>3. CASE \E p \in Elected : TickPosition(p)
    <2>1. PICK p \in Elected : TickPosition(p)
      BY <1>3
    <2>2. /\ page' \in RolesPage /\ page'.user = page.user /\ page'.submitting = page.submitting
          /\ page'.retried = page.retried /\ page'.left = page.left
          /\ page'.saved = page.saved
      BY <1>1, <2>1 DEF TickPosition, RolesPage
    <2>3. tasks' = tasks
      BY <2>1 DEF TickPosition
    <2>4. \A t \in tasks' : RolesTask(t)'
      BY <1>1, <1>2, <2>2, <2>3 DEF RolesTask, Stored
    <2>5. page.user # None
      BY <1>1 DEF RolesInv
    <2>6. page'.form = None /\ ~page'.left => \E t \in tasks' : t.fn = "load"
      BY <2>1, PositionsAssumption DEF TickPosition, Elected, RolesPage
    <2> QED BY <1>1, <2>2, <2>3, <2>4, <2>5, <2>6 DEF RolesInv, RolesDone
  <1>4. CASE HandleRoleSubmit
    <2> DEFINE fn == IF page.form.manager # page.user.manager THEN "manager" ELSE "member"
    <2>1. PICK u : Fresh(u, fn, page.form) /\ tasks' = tasks \cup {u}
      BY <1>4, TapStarts DEF HandleRoleSubmit
    <2>2. /\ fn \in {"manager", "member"}
          /\ fn = "member" => page.form.manager = page.user.manager
      OBVIOUS
    <2> HIDE DEF fn
    <2>3. /\ page' \in RolesPage /\ page'.user = page.user /\ page'.submitting
          /\ page'.retried = page.retried /\ page'.left = page.left /\ ~page.submitting
          /\ page'.saved = page.saved /\ page'.form = page.form
      BY <1>1, <1>4 DEF HandleRoleSubmit, RolesPage
    <2>4. tasks = {}
      BY <1>2, <2>3 DEF RolesTask
    <2>5. page.user # None
      BY <1>1 DEF RolesInv
    <2>6. ~page.retried => server.manager = page.user.manager
      BY <1>1, <2>4, <2>5 DEF RolesInv
    <2>7. page.saved = None
      BY <1>1 DEF RolesInv
    <2>8. RolesTask(u)'
      BY <1>1, <2>1, <2>2, <2>3, <2>6, <2>7 DEF RolesTask, Stored, Fresh, RolesPage
    <2> QED BY <1>1, <2>1, <2>2, <2>3, <2>4, <2>5, <2>7, <2>8
        DEF RolesInv, RolesDone, Fresh
  <1> QED BY <1>3, <1>4

LEMMA ServeRolesKeeps ==
  ASSUME RolesInv, NEW t \in tasks, ServeRoles(t) \/ MembershipRefused(t)
  PROVE  RolesInv'
  <1>1. /\ RolesTask(t) /\ t.wire = "sent" /\ page \in RolesPage /\ server \in Elected
        /\ tasks = {t}
    BY DEF RolesInv, ServeRoles, MembershipRefused, Awaiting
  <1>2. PICK u : /\ IsTask(u) /\ u.fn = t.fn /\ u.arg = t.arg /\ tasks' = {u}
                 /\ u.wire \in {"ok", "failed"} /\ UNCHANGED page /\ server' \in Elected
                 /\ u.fn = "load" => server' = server /\ (u.wire = "ok" => u.reply = server)
                 /\ u.fn # "manager" => server'.manager = server.manager
                 /\ u.fn # "member" => server'.member = server.member
                 /\ u.fn = "manager" /\ u.wire = "ok" => server'.manager = t.arg.manager
                 /\ u.fn = "member" /\ u.wire = "ok" =>
                      server'.member = t.arg.member /\ (server'.chair => t.arg.member)
                 /\ u.fn = "chair" /\ u.wire = "ok" => server'.chair = t.arg.chair
    <2>1. ASSUME NEW accepts, NEW after, NEW reply, Serve(t, accepts, after, reply),
                 accepts => after \in Elected,
                 t.fn = "load" => after = server /\ reply = server,
                 accepts /\ t.fn # "manager" => after.manager = server.manager,
                 accepts /\ t.fn # "member" => after.member = server.member,
                 accepts /\ t.fn = "manager" => after.manager = t.arg.manager,
                 accepts /\ t.fn = "member" =>
                   after.member = t.arg.member /\ (after.chair => t.arg.member),
                 accepts /\ t.fn = "chair" => after.chair = t.arg.chair
          PROVE  \E u : /\ IsTask(u) /\ u.fn = t.fn /\ u.arg = t.arg /\ tasks' = {u}
                        /\ u.wire \in {"ok", "failed"} /\ UNCHANGED page /\ server' \in Elected
                        /\ u.fn = "load" => server' = server /\ (u.wire = "ok" => u.reply = server)
                        /\ u.fn # "manager" => server'.manager = server.manager
                        /\ u.fn # "member" => server'.member = server.member
                        /\ u.fn = "manager" /\ u.wire = "ok" => server'.manager = t.arg.manager
                        /\ u.fn = "member" /\ u.wire = "ok" =>
                             server'.member = t.arg.member /\ (server'.chair => t.arg.member)
                        /\ u.fn = "chair" /\ u.wire = "ok" => server'.chair = t.arg.chair
      <3>1. PICK u : Ended(t, u, accepts, after, reply)
        BY <1>1, <2>1, CallEnds DEF RolesTask
      <3>2. UNCHANGED page /\ (server' # server => accepts /\ server' = after)
        BY <1>1, <2>1, CallEnds DEF RolesTask
      <3>3. /\ IsTask(u) /\ u.fn = t.fn /\ u.arg = t.arg /\ tasks' = {u}
            /\ u.wire \in {"ok", "failed"}
            /\ u.wire = "ok" => accepts /\ server' = after /\ u.reply = reply
        BY <1>1, <3>1 DEF Ended
      <3>4. CASE server' = server
        BY <1>1, <2>1, <3>2, <3>3, <3>4
      <3>5. CASE accepts /\ server' = after
        BY <1>1, <2>1, <3>2, <3>3, <3>5
      <3> QED BY <3>2, <3>4, <3>5
    <2>2. CASE Awaiting(t, {"load"}) /\ Serve(t, TRUE, server, server)
      BY <1>1, <2>1, <2>2 DEF Awaiting
    <2>3. CASE /\ Awaiting(t, {"manager"})
               /\ Serve(t, TRUE, [server EXCEPT !.manager = t.arg.manager], None)
      <3> DEFINE after == [server EXCEPT !.manager = t.arg.manager]
      <3>1. /\ t.fn = "manager" /\ Serve(t, TRUE, after, None) /\ after \in Elected
            /\ after.member = server.member /\ after.manager = t.arg.manager
        BY <1>1, <2>3 DEF Awaiting, RolesTask, Elected, Positions
      <3> HIDE DEF after
      <3> QED BY <2>1, <3>1
    <2>4. CASE /\ Awaiting(t, {"member"})
               /\ Serve(t, ~LeavesChair(t), [server EXCEPT !.member = t.arg.member], None)
      <3> DEFINE after == [server EXCEPT !.member = t.arg.member]
                 accepts == ~LeavesChair(t)
      <3>1. /\ t.fn = "member" /\ Serve(t, accepts, after, None)
            /\ accepts => after \in Elected /\ (after.chair => t.arg.member)
            /\ after.manager = server.manager /\ after.member = t.arg.member
        BY <1>1, <2>4 DEF Awaiting, RolesTask, Elected, Positions, LeavesChair
      <3> HIDE DEF after, accepts
      <3> QED BY <2>1, <3>1
    <2>5. CASE /\ Awaiting(t, {"chair"})
               /\ Serve(t, t.arg.chair => server.member,
                        [server EXCEPT !.chair = t.arg.chair], None)
      <3> DEFINE after == [server EXCEPT !.chair = t.arg.chair]
                 accepts == t.arg.chair => server.member
      <3>1. /\ t.fn = "chair" /\ Serve(t, accepts, after, None)
            /\ accepts => after \in Elected
            /\ after.manager = server.manager /\ after.member = server.member
            /\ after.chair = t.arg.chair
        BY <1>1, <2>5 DEF Awaiting, RolesTask, Elected, Positions
      <3> HIDE DEF after, accepts
      <3> QED BY <2>1, <3>1
    <2>6. CASE MembershipRefused(t)
      <3> DEFINE u == [t EXCEPT !.wire = "failed", !.reply = "constraint"]
      <3>1. /\ IsTask(u) /\ u.fn = "member" /\ t.fn = "member" /\ u.arg = t.arg
            /\ u.wire = "failed"
        BY <1>1, <2>6 DEF MembershipRefused, Awaiting, RolesTask, IsTask
      <3>2. tasks' = {u} /\ UNCHANGED <<page, server>>
        BY <1>1, <2>6 DEF MembershipRefused, Answered, GoOn
      <3> HIDE DEF u
      <3> QED BY <1>1, <3>1, <3>2
    <2> QED BY <2>2, <2>3, <2>4, <2>5, <2>6 DEF ServeRoles
  <1>3. u.fn # "load" => Stored(u)'
    BY <1>1, <1>2 DEF RolesTask, Stored
  <1>4. RolesTask(u)'
    BY <1>1, <1>2, <1>3 DEF RolesTask
  <1>5. RolesDone'
    BY <1>1, <1>2 DEF RolesTask, RolesDone
  <1>6. page'.submitting => u.fn # "load"
    BY <1>1, <1>2 DEF RolesTask
  <1>7. page'.form = None /\ ~page'.left => u.fn = "load"
    BY <1>1, <1>2 DEF RolesInv
  <1> QED BY <1>1, <1>2, <1>4, <1>5, <1>6, <1>7 DEF RolesInv

LEMMA RolesReplies ==
  ASSUME RolesInv, NEW t \in tasks,
         RolesLoadReturns(t) \/ RoleStep(t) \/ RoleSubmitReturns(t)
  PROVE  RolesInv'
  <1>1. /\ RolesTask(t) /\ page \in RolesPage /\ server \in Elected /\ tasks = {t}
        /\ UNCHANGED <<server, stale>> /\ t.wire \in {"ok", "failed"}
    BY DEF RolesInv, RolesLoadReturns, RoleStep, RoleSubmitReturns, RolesTask, IsTask
  <1>2. CASE RolesLoadReturns(t)
    <2>1. t.fn = "load" /\ tasks' = {} /\ (t.wire = "ok" => t.reply \in Elected)
      BY <1>1, <1>2 DEF RolesLoadReturns, End, RolesTask
    <2>2. /\ page' \in RolesPage /\ ~page'.submitting /\ page'.saved = None
          /\ IF t.wire = "ok" THEN page'.user = t.reply /\ page'.form = t.reply
             ELSE page'.left /\ page'.form = None
      BY <1>1, <1>2, <2>1 DEF RolesLoadReturns, RolesPage, RolesTask
    <2>3. t.wire = "ok" => t.reply = server /\ t.reply # None
      BY <1>1, <2>1, PositionsAssumption DEF RolesTask, Elected
    <2> QED BY <1>1, <2>1, <2>2, <2>3 DEF RolesInv, RolesDone
  <1>3. CASE RoleStep(t)
    <2>1. PICK fn : /\ fn \in {"member", "chair"} /\ GoOn(t, New(fn, t.arg)) /\ UNCHANGED page
                    /\ t.fn \in {"manager", "member"} /\ t.wire = "ok"
                    /\ fn = "member" => t.fn = "manager"
                    /\ fn = "chair" => t.fn = "member"
      BY <1>3 DEF RoleStep
    <2>2. PICK u : Fresh(u, fn, t.arg) /\ tasks' = {u}
      <3>1. PICK u : Fresh(u, fn, t.arg) /\ tasks' = (tasks \ {t}) \cup {u}
        BY <2>1, GoesOn
      <3> QED BY <1>1, <3>1
    <2>3. Stored(u)'
      BY <1>1, <2>1, <2>2 DEF RolesTask, Stored, Fresh
    <2>4. RolesTask(u)'
      BY <1>1, <2>1, <2>2, <2>3 DEF RolesTask, Fresh
    <2>5. u.fn # "load" /\ page.saved = None
      BY <1>1, <2>1, <2>2 DEF RolesTask, Fresh
    <2>6. page.form = None /\ ~page.left => FALSE
      BY <1>1, <2>1 DEF RolesInv
    <2> QED BY <1>1, <2>1, <2>2, <2>4, <2>5, <2>6 DEF RolesInv, RolesDone
  <1>4. CASE RoleSubmitReturns(t)
    <2>1. t.fn # "load" /\ tasks' = {} /\ t.arg \in Elected /\ page.saved = None /\ ~page.left
      BY <1>1, <1>4 DEF RoleSubmitReturns, End, RolesTask
    <2>2. CASE t.wire = "ok"
      <3>1. /\ page' \in RolesPage /\ ~page'.submitting /\ page'.left /\ page'.saved = t.arg
            /\ page'.retried = page.retried /\ page'.user = page.user /\ page'.form = page.form
        BY <1>1, <1>4, <2>1, <2>2 DEF RoleSubmitReturns, RolesPage
      <3>2. /\ server.member = t.arg.member /\ server.chair = t.arg.chair
            /\ ~page.retried => server.manager = t.arg.manager
        <4>1. t.fn = "chair" \/ (t.fn = "member" /\ ~t.arg.member)
          BY <1>4, <2>2 DEF RoleSubmitReturns
        <4> QED BY <1>1, <2>1, <2>2, <4>1 DEF RolesTask, Stored, Elected, Positions
      <3> QED BY <1>1, <2>1, <3>1, <3>2 DEF RolesInv, RolesDone
    <2>3. CASE t.wire = "failed"
      <3>1. /\ page' \in RolesPage /\ ~page'.submitting /\ page'.retried
            /\ page'.saved = None /\ page'.user = page.user /\ page'.form = page.form
            /\ page'.left = page.left
        BY <1>1, <1>4, <2>1, <2>3 DEF RoleSubmitReturns, RolesPage
      <3>2. page.form = None /\ ~page.left => FALSE
        BY <1>1, <2>1 DEF RolesInv
      <3> QED BY <1>1, <2>1, <3>1, <3>2 DEF RolesInv, RolesDone
    <2> QED BY <1>1, <2>2, <2>3
  <1> QED BY <1>2, <1>3, <1>4

LEMMA RolesKept == RolesInv /\ RolesNext => RolesInv'
  BY RolesAsked, ServeRolesKeeps, RolesReplies DEF RolesNext
LEMMA RolesIdle == RolesInv /\ UNCHANGED vars => RolesInv'
  BY DEF vars, RolesInv, RolesTask, RolesDone, Stored
LEMMA RolesRest == RolesInv => RolesDone /\ (tasks = {} => ~RolesBusy)
  BY DEF RolesInv, RolesBusy

\* The students who wait for approval: the list after a decision.

NotYetApproved == {s \in Persons : server[s] = "pending"}
Approvals == [student : Persons, to : {"approved", "erased"}]
ApprovalsPage ==
  [at : {"approvals"}, list : {None} \cup SUBSET Persons, error : BOOLEAN,
   busy : Persons \cup {None}, actionError : BOOLEAN]
ApprovalsTask(t) ==
  /\ IsTask(t) /\ t.fn \in {"load", "decide"}
  /\ t.fn = "decide" => t.arg \in Approvals
  /\ t.fn = "load" /\ t.wire = "ok" =>
       t.reply \in SUBSET Persons /\ (~stale => t.reply = NotYetApproved)
ApprovalsAwaited ==
  /\ page.busy # None => \E t \in tasks : t.fn = "decide"
  /\ page.list = None /\ ~page.error => \E t \in tasks : t.fn = "load"
ApprovalsFollow ==
  ~stale /\ page.list # None /\ ~page.error =>
    page.list = NotYetApproved \/ Rereading(tasks, {"decide"})
ApprovalsInv ==
  /\ page \in ApprovalsPage /\ server \in [Persons -> {"pending", "approved", "erased"}]
  /\ \A t \in tasks : ApprovalsTask(t)
  /\ ApprovalsAwaited /\ ApprovalsFollow

LEMMA ApprovalsBegin == ApprovalsInit => ApprovalsInv
  <1> SUFFICES ASSUME ApprovalsInit PROVE ApprovalsInv
    OBVIOUS
  <1>1. PICK l : Fresh(l, "load", None) /\ tasks = {l}
    BY LoadStarts DEF ApprovalsInit
  <1>2. page \in ApprovalsPage /\ page.busy = None /\ page.list = None
    BY DEF ApprovalsInit, ApprovalsPage
  <1>3. server \in [Persons -> {"pending", "approved", "erased"}]
    BY DEF ApprovalsInit
  <1> QED BY <1>1, <1>2, <1>3
      DEF ApprovalsInv, ApprovalsTask, ApprovalsAwaited, ApprovalsFollow, Fresh

LEMMA ApprovalAsked ==
  ASSUME ApprovalsInv, NEW s \in Persons, NEW to \in {"approved", "erased"},
         HandleApproval(s, to)
  PROVE  ApprovalsInv'
  <1> DEFINE approval == [student |-> s, to |-> to]
  <1>1. PICK u : Fresh(u, "decide", approval) /\ tasks' = tasks \cup {u}
    BY TapStarts DEF HandleApproval
  <1>2. approval \in Approvals
    BY DEF Approvals
  <1> HIDE DEF approval
  <1>3. /\ page' \in ApprovalsPage /\ page'.list = page.list /\ page'.error = page.error
        /\ UNCHANGED <<server, stale>>
    BY DEF ApprovalsInv, HandleApproval, ApprovalsPage
  <1>4. \A v \in tasks' : ApprovalsTask(v)'
    BY <1>1, <1>2, <1>3 DEF ApprovalsInv, ApprovalsTask, Fresh, NotYetApproved
  <1>5. ApprovalsAwaited' /\ ApprovalsFollow'
    BY <1>1, <1>3 DEF ApprovalsInv, ApprovalsAwaited, ApprovalsFollow, Rereading, Fresh,
                      NotYetApproved
  <1> QED BY <1>3, <1>4, <1>5 DEF ApprovalsInv

LEMMA ServeApprovalsKeeps ==
  ASSUME ApprovalsInv, NEW t \in tasks, ServeApprovals(t)
  PROVE  ApprovalsInv'
  <1>1. ApprovalsTask(t) /\ t.wire = "sent" /\ page \in ApprovalsPage
    BY DEF ApprovalsInv, ServeApprovals, Awaiting
  <1>2. PICK accepts, after, reply, u :
          /\ Replied(t, u, accepts, after, reply, {"decide"})
          /\ after \in [Persons -> {"pending", "approved", "erased"}]
          /\ t.fn = "load" => after = server /\ reply = NotYetApproved
    <2>1. CASE t.fn = "load" /\ Serve(t, TRUE, server, NotYetApproved)
      BY <1>1, <2>1, CallReplies DEF ApprovalsTask, ApprovalsInv
    <2>2. CASE /\ t.fn = "decide"
               /\ Serve(t, server[t.arg.student] = "pending",
                        [server EXCEPT ![t.arg.student] = t.arg.to], None)
      <3> DEFINE accepts == server[t.arg.student] = "pending"
                 after == [server EXCEPT ![t.arg.student] = t.arg.to]
      <3>1. Serve(t, accepts, after, None)
        BY <2>2
      <3>2. after \in [Persons -> {"pending", "approved", "erased"}]
        BY <1>1, <2>2 DEF ApprovalsInv, ApprovalsTask, Approvals
      <3> HIDE DEF accepts, after
      <3>3. PICK u : Replied(t, u, accepts, after, None, {"decide"})
        BY <1>1, <2>2, <3>1, CallReplies DEF ApprovalsTask
      <3> QED BY <2>2, <3>2, <3>3
    <2> QED BY <2>1, <2>2 DEF ServeApprovals, Awaiting, NotYetApproved
  <1>3. /\ IsTask(u) /\ u.fn = t.fn /\ u.arg = t.arg /\ tasks' = (tasks \ {t}) \cup {u}
        /\ u.wire = "ok" => server' = after /\ u.reply = reply
        /\ UNCHANGED page
        /\ server' \in [Persons -> {"pending", "approved", "erased"}]
    BY <1>2 DEF Replied, ApprovalsInv
  <1>4. \A v \in tasks \ {t} : ApprovalsTask(v)'
    BY <1>2 DEF ApprovalsInv, ApprovalsTask, Replied, OnItsWay, NotYetApproved
  <1>5. NotYetApproved' \in SUBSET Persons
    BY DEF NotYetApproved
  <1>6. u.fn = "load" /\ u.wire = "ok" => u.reply = NotYetApproved'
    BY <1>2, <1>3 DEF NotYetApproved
  <1>7. ApprovalsTask(u)'
    BY <1>1, <1>3, <1>5, <1>6 DEF ApprovalsTask
  <1>8. ApprovalsAwaited'
    BY <1>3 DEF ApprovalsInv, ApprovalsAwaited
  <1>9. ApprovalsFollow'
    BY <1>2, <1>3 DEF ApprovalsInv, ApprovalsFollow, Replied, NotYetApproved
  <1> QED BY <1>1, <1>3, <1>4, <1>7, <1>8, <1>9 DEF ApprovalsInv

LEMMA ApprovalsReplies ==
  ASSUME ApprovalsInv, NEW t \in tasks, ApprovalsLoadReturns(t) \/ ApprovalReturns(t)
  PROVE  ApprovalsInv'
  <1>1. /\ ApprovalsTask(t) /\ page \in ApprovalsPage /\ UNCHANGED <<server, stale>>
        /\ t.wire \in {"ok", "failed"} /\ NotYetApproved' = NotYetApproved
    BY DEF ApprovalsInv, ApprovalsLoadReturns, ApprovalReturns, ApprovalsTask, IsTask,
           NotYetApproved
  <1>2. CASE ApprovalsLoadReturns(t)
    <2>1. /\ t.fn = "load" /\ tasks' = tasks \ {t} /\ page' \in ApprovalsPage
          /\ page'.busy = page.busy
          /\ IF t.wire = "ok" THEN page'.list = t.reply ELSE page'.error
      BY <1>1, <1>2 DEF ApprovalsLoadReturns, End, ApprovalsPage, ApprovalsTask
    <2>2. \A v \in tasks' : ApprovalsTask(v)'
      BY <1>1, <2>1 DEF ApprovalsInv, ApprovalsTask
    <2>3. ApprovalsAwaited'
      BY <1>1, <2>1, PersonsAssumption DEF ApprovalsInv, ApprovalsAwaited, ApprovalsTask
    <2>4. ApprovalsFollow'
      BY <1>1, <2>1 DEF ApprovalsFollow, ApprovalsTask
    <2> QED BY <1>1, <2>1, <2>2, <2>3, <2>4 DEF ApprovalsInv
  <1>3. CASE ApprovalReturns(t)
    <2>1. /\ t.fn = "decide" /\ page' \in ApprovalsPage /\ page'.busy = None
          /\ page'.list = page.list /\ page'.error = page.error
      BY <1>1, <1>3 DEF ApprovalReturns, ApprovalsPage
    <2>2. PICK asked : Again(t, asked, {"decide"})
      BY <1>3, <2>1, ReadsAgain DEF ApprovalReturns
    <2>3. \A v \in tasks' : ApprovalsTask(v)'
      BY <1>1, <2>2 DEF ApprovalsInv, ApprovalsTask, Fresh, Again
    <2>4. ApprovalsAwaited'
      BY <2>1, <2>2 DEF ApprovalsInv, ApprovalsAwaited, Again
    <2>5. ApprovalsFollow'
      BY <1>1, <2>1, <2>2 DEF ApprovalsInv, ApprovalsFollow, Again
    <2> QED BY <1>1, <2>1, <2>3, <2>4, <2>5 DEF ApprovalsInv
  <1> QED BY <1>2, <1>3

LEMMA ApprovedElsewhere ==
  ASSUME ApprovalsInv, NEW s \in Persons, Elsewhere([server EXCEPT ![s] = "approved"])
  PROVE  ApprovalsInv'
  <1>1. /\ server' \in [Persons -> {"pending", "approved", "erased"}] /\ stale'
        /\ UNCHANGED <<page, tasks>>
    BY DEF ApprovalsInv, Elsewhere
  <1> QED BY <1>1 DEF ApprovalsInv, ApprovalsTask, ApprovalsAwaited, ApprovalsFollow

LEMMA ApprovalsKept == ApprovalsInv /\ ApprovalsNext => ApprovalsInv'
  BY ApprovalAsked, ServeApprovalsKeeps, ApprovalsReplies, ApprovedElsewhere
     DEF ApprovalsNext
LEMMA ApprovalsIdle == ApprovalsInv /\ UNCHANGED vars => ApprovalsInv'
  BY DEF vars, ApprovalsInv, ApprovalsTask, ApprovalsAwaited, ApprovalsFollow,
         NotYetApproved
LEMMA ApprovalsRest ==
  ApprovalsInv /\ tasks = {} => ~ApprovalsBusy /\ (~stale => ApprovalsAgree)
  BY DEF ApprovalsInv, ApprovalsAwaited, ApprovalsFollow, Rereading, ApprovalsBusy,
         ApprovalsAgree, NotYetApproved

------------------------------------------------------------------------------
\* The documents a benefit asks for: one box after the other, or before it has
\* been answered.

BenefitPage ==
  [at : {"benefit"}, assigned : SUBSET Papers, unread : BOOLEAN, toggling : Papers \cup {None},
   error : BOOLEAN]
BenefitTask(t) ==
  /\ IsTask(t) /\ t.fn \in {"load", "add", "remove"}
  /\ t.fn # "load" => t.arg \in Papers
  /\ t.fn = "load" /\ t.wire = "ok" =>
       t.reply \in SUBSET Papers /\ (~stale => t.reply = server)
BenefitAwaited == page.toggling # None => \E t \in tasks : t.fn # "load"
BenefitFollows ==
  ~stale /\ ~page.unread =>
    page.assigned = server \/ Rereading(tasks, {"add", "remove"})
BenefitInv ==
  /\ page \in BenefitPage /\ server \in SUBSET Papers
  /\ \A t \in tasks : BenefitTask(t)
  /\ BenefitAwaited /\ BenefitFollows

LEMMA BenefitBegins == BenefitInit => BenefitInv
  <1> SUFFICES ASSUME BenefitInit PROVE BenefitInv
    OBVIOUS
  <1>1. PICK l : Fresh(l, "load", None) /\ tasks = {l}
    BY LoadStarts DEF BenefitInit
  <1>2. page \in BenefitPage /\ page.toggling = None /\ page.unread
    BY DEF BenefitInit, BenefitPage
  <1>3. server \in SUBSET Papers
    BY DEF BenefitInit
  <1> QED BY <1>1, <1>2, <1>3
      DEF BenefitInv, BenefitTask, BenefitAwaited, BenefitFollows, Fresh

LEMMA ToggleAsked ==
  ASSUME BenefitInv, NEW p \in Papers, HandleToggleDocument(p)
  PROVE  BenefitInv'
  <1> DEFINE fn == IF p \in page.assigned THEN "remove" ELSE "add"
  <1>1. PICK u : Fresh(u, fn, p) /\ tasks' = tasks \cup {u}
    BY TapStarts DEF HandleToggleDocument
  <1>2. fn \in {"add", "remove"}
    OBVIOUS
  <1> HIDE DEF fn
  <1>3. /\ page' \in BenefitPage /\ page'.assigned = page.assigned /\ page'.unread = page.unread
        /\ UNCHANGED <<server, stale>>
    BY DEF BenefitInv, HandleToggleDocument, BenefitPage
  <1>4. \A v \in tasks' : BenefitTask(v)'
    BY <1>1, <1>2, <1>3 DEF BenefitInv, BenefitTask, Fresh
  <1>5. BenefitAwaited' /\ BenefitFollows'
    BY <1>1, <1>2, <1>3 DEF BenefitInv, BenefitAwaited, BenefitFollows, Rereading, Fresh
  <1> QED BY <1>3, <1>4, <1>5 DEF BenefitInv

LEMMA ServeBenefitKeeps ==
  ASSUME BenefitInv, NEW t \in tasks, ServeBenefit(t)
  PROVE  BenefitInv'
  <1>1. BenefitTask(t) /\ t.wire = "sent" /\ page \in BenefitPage /\ server \in SUBSET Papers
    BY DEF BenefitInv, ServeBenefit, Awaiting
  <1>2. PICK accepts, after, reply, u :
          /\ Replied(t, u, accepts, after, reply, {"add", "remove"})
          /\ after \in SUBSET Papers
          /\ t.fn = "load" => after = server /\ reply = server
    <2>1. CASE t.fn = "load" /\ Serve(t, TRUE, server, server)
      BY <1>1, <2>1, CallReplies DEF BenefitTask
    <2>2. CASE t.fn = "add" /\ Serve(t, t.arg \notin server, server \cup {t.arg}, None)
      <3>1. PICK u : Replied(t, u, t.arg \notin server, server \cup {t.arg}, None,
                             {"add", "remove"})
        BY <1>1, <2>2, CallReplies DEF BenefitTask
      <3>2. server \cup {t.arg} \in SUBSET Papers
        BY <1>1, <2>2 DEF BenefitTask
      <3> QED BY <2>2, <3>1, <3>2
    <2>3. CASE t.fn = "remove" /\ Serve(t, t.arg \in server, server \ {t.arg}, None)
      <3>1. PICK u : Replied(t, u, t.arg \in server, server \ {t.arg}, None,
                             {"add", "remove"})
        BY <1>1, <2>3, CallReplies DEF BenefitTask
      <3>2. server \ {t.arg} \in SUBSET Papers
        BY <1>1
      <3> QED BY <2>3, <3>1, <3>2
    <2> QED BY <2>1, <2>2, <2>3 DEF ServeBenefit, Awaiting
  <1>3. /\ IsTask(u) /\ u.fn = t.fn /\ u.arg = t.arg /\ tasks' = (tasks \ {t}) \cup {u}
        /\ u.wire = "ok" => server' = after /\ u.reply = reply
        /\ UNCHANGED page /\ server' \in SUBSET Papers
    BY <1>1, <1>2 DEF Replied
  <1>4. \A v \in tasks \ {t} : BenefitTask(v)'
    BY <1>2 DEF BenefitInv, BenefitTask, Replied, OnItsWay
  <1>5. BenefitTask(u)'
    BY <1>1, <1>2, <1>3 DEF BenefitTask
  <1>6. BenefitAwaited'
    BY <1>3 DEF BenefitInv, BenefitAwaited
  <1>7. BenefitFollows'
    BY <1>2, <1>3 DEF BenefitInv, BenefitFollows, Replied
  <1> QED BY <1>1, <1>3, <1>4, <1>5, <1>6, <1>7 DEF BenefitInv

LEMMA BenefitReplies ==
  ASSUME BenefitInv, NEW t \in tasks, AssignedReturn(t) \/ ToggleReturns(t)
  PROVE  BenefitInv'
  <1>1. /\ BenefitTask(t) /\ page \in BenefitPage /\ UNCHANGED <<server, stale>>
        /\ t.wire \in {"ok", "failed"}
    BY DEF BenefitInv, AssignedReturn, ToggleReturns, BenefitTask, IsTask
  <1>2. CASE AssignedReturn(t)
    <2>1. /\ t.fn = "load" /\ tasks' = tasks \ {t} /\ page' \in BenefitPage
          /\ page'.toggling = page.toggling
          /\ IF t.wire = "ok" THEN page'.assigned = t.reply ELSE page'.unread
      BY <1>1, <1>2 DEF AssignedReturn, End, BenefitPage, BenefitTask
    <2>2. \A v \in tasks' : BenefitTask(v)'
      BY <1>1, <2>1 DEF BenefitInv, BenefitTask
    <2>3. BenefitAwaited'
      BY <1>1, <2>1 DEF BenefitInv, BenefitAwaited
    <2>4. BenefitFollows'
      BY <1>1, <2>1 DEF BenefitFollows, BenefitTask
    <2> QED BY <1>1, <2>1, <2>2, <2>3, <2>4 DEF BenefitInv
  <1>3. CASE ToggleReturns(t)
    <2>1. /\ t.fn # "load" /\ page' \in BenefitPage /\ page'.toggling = None
          /\ page'.assigned = page.assigned /\ page'.unread = page.unread
      BY <1>1, <1>3 DEF ToggleReturns, BenefitPage
    <2>2. PICK asked : Again(t, asked, {"add", "remove"})
      BY <1>3, <2>1, ReadsAgain DEF ToggleReturns
    <2>3. \A v \in tasks' : BenefitTask(v)'
      BY <1>1, <2>2 DEF BenefitInv, BenefitTask, Fresh, Again
    <2>4. BenefitAwaited'
      BY <2>1 DEF BenefitAwaited
    <2>5. BenefitFollows'
      BY <1>1, <2>1, <2>2 DEF BenefitInv, BenefitFollows, Again
    <2> QED BY <1>1, <2>1, <2>3, <2>4, <2>5 DEF BenefitInv
  <1> QED BY <1>2, <1>3

LEMMA BenefitKept == BenefitInv /\ BenefitNext => BenefitInv'
  BY ToggleAsked, ServeBenefitKeeps, BenefitReplies DEF BenefitNext
LEMMA BenefitIdle == BenefitInv /\ UNCHANGED vars => BenefitInv'
  BY DEF vars, BenefitInv, BenefitTask, BenefitAwaited, BenefitFollows
LEMMA BenefitRest ==
  BenefitInv /\ tasks = {} => ~BenefitBusy /\ (~stale => BenefitAgrees)
  BY DEF BenefitInv, BenefitAwaited, BenefitFollows, Rereading, BenefitBusy, BenefitAgrees

------------------------------------------------------------------------------
\* The documents and how long they are valid: fields that are sent when they
\* differ from the list.

PaperStates == {"absent", "none", "short"}
PapersPage ==
  [at : {"papers"}, list : [Documents -> PaperStates] \cup {None}, error : BOOLEAN,
   field : [Documents -> PaperStates] \cup {None}, named : BOOLEAN,
   delete : Documents \cup {None}, deleting : BOOLEAN]
PaperCalls == {"validity", "addPaper", "deletePaper"}
PapersTask(t) ==
  /\ IsTask(t) /\ t.fn \in {"load"} \cup PaperCalls
  /\ t.fn = "validity" => t.arg \in [paper : Documents, to : PaperStates]
  /\ t.fn = "deletePaper" => t.arg \in Documents
  /\ t.fn = "load" /\ t.wire = "ok" =>
       t.reply \in [Documents -> PaperStates] /\ (~stale => t.reply = server)
PapersAwaited ==
  /\ page.deleting => \E t \in tasks : t.fn = "deletePaper"
  /\ page.list = None /\ ~page.error => tasks # {}
\* Whatever is under way ends with a reading or with an error.
PapersFollow ==
  ~stale /\ page.list # None /\ ~page.error =>
    page.list = server \/ tasks # {}
PapersInv ==
  /\ page \in PapersPage /\ server \in [Documents -> PaperStates]
  /\ \A t \in tasks : PapersTask(t)
  /\ page.list # None => page.field \in [Documents -> PaperStates]
  /\ PapersAwaited /\ PapersFollow

LEMMA PapersBegin == PapersInit => PapersInv
  <1> SUFFICES ASSUME PapersInit PROVE PapersInv
    OBVIOUS
  <1>1. PICK l : Fresh(l, "load", None) /\ tasks = {l}
    BY LoadStarts DEF PapersInit
  <1>2. page \in PapersPage /\ ~page.deleting /\ page.list = None
    BY DEF PapersInit, PapersPage
  <1>3. server \in [Documents -> PaperStates]
    BY DEF PapersInit, PaperStates
  <1> QED BY <1>1, <1>2, <1>3
      DEF PapersInv, PapersTask, PapersAwaited, PapersFollow, Fresh

\* A tap that starts no call.
LEMMA PaperTyped ==
  ASSUME PapersInv,
         \/ \E p \in Documents : AskDeletePaper(p) \/ \E v \in Validities : TypeValidity(p, v)
         \/ TypePaper \/ CancelDeletePaper
  PROVE  PapersInv'
  <1>1. page \in PapersPage /\ UNCHANGED <<tasks, server, stale>>
    BY DEF PapersInv, AskDeletePaper, TypeValidity, TypePaper, CancelDeletePaper
  <1>2. /\ page' \in PapersPage /\ page'.list = page.list /\ page'.error = page.error
        /\ page'.deleting = page.deleting
        /\ page'.list # None => page'.field \in [Documents -> PaperStates]
    <2>1. CASE \E p \in Documents : AskDeletePaper(p)
      BY <1>1, <2>1 DEF PapersInv, AskDeletePaper, PapersPage
    <2>2. CASE TypePaper
      BY <1>1, <2>2 DEF PapersInv, TypePaper, PapersPage
    <2>3. CASE CancelDeletePaper
      BY <1>1, <2>3 DEF PapersInv, CancelDeletePaper, PapersPage
    <2>4. CASE \E p \in Documents : \E v \in Validities : TypeValidity(p, v)
      <3>1. PICK p \in Documents, v \in Validities : TypeValidity(p, v)
        BY <2>4
      <3> DEFINE f == [page.field EXCEPT ![p] = v]
      <3>2. page.field \in [Documents -> PaperStates]
        BY <3>1 DEF PapersInv, TypeValidity, Known
      <3>3. f \in [Documents -> PaperStates] /\ page' = [page EXCEPT !.field = f]
        BY <3>1, <3>2 DEF TypeValidity, Validities, PaperStates
      <3> HIDE DEF f
      <3> QED BY <1>1, <3>3 DEF PapersPage
    <2> QED BY <2>1, <2>2, <2>3, <2>4
  <1>3. \A t \in tasks' : PapersTask(t)'
    BY <1>1 DEF PapersInv, PapersTask
  <1>4. PapersAwaited' /\ PapersFollow'
    BY <1>1, <1>2 DEF PapersInv, PapersAwaited, PapersFollow
  <1> QED BY <1>1, <1>2, <1>3, <1>4 DEF PapersInv

\* A tap that starts one.
LEMMA PaperAsked ==
  ASSUME PapersInv,
         (\E p \in Documents : SaveValidity(p)) \/ HandleAddDocument \/ HandleDeleteDocument
  PROVE  PapersInv'
  <1>1. page \in PapersPage /\ UNCHANGED <<server, stale>>
    BY DEF PapersInv, SaveValidity, HandleAddDocument, HandleDeleteDocument
  <1>2. PICK fn, arg, u :
          /\ Fresh(u, fn, arg) /\ tasks' = tasks \cup {u} /\ fn \in PaperCalls
          /\ fn = "validity" => arg \in [paper : Documents, to : PaperStates]
          /\ fn = "deletePaper" => arg \in Documents
          /\ page' \in PapersPage /\ page'.list = page.list /\ page'.field = page.field
          /\ page'.deleting => page.deleting \/ fn = "deletePaper"
    <2>1. CASE HandleAddDocument
      <3>1. PICK u : Fresh(u, "addPaper", None) /\ tasks' = tasks \cup {u}
        BY <2>1, TapStarts DEF HandleAddDocument
      <3>2. /\ page' \in PapersPage /\ page'.list = page.list /\ page'.field = page.field
            /\ page'.deleting = page.deleting
        BY <1>1, <2>1 DEF HandleAddDocument, PapersPage
      <3> QED BY <3>1, <3>2 DEF PaperCalls
    <2>2. CASE HandleDeleteDocument
      <3>1. PICK u : Fresh(u, "deletePaper", page.delete) /\ tasks' = tasks \cup {u}
        BY <2>2, TapStarts DEF HandleDeleteDocument
      <3>2. /\ page' \in PapersPage /\ page'.list = page.list /\ page'.field = page.field
            /\ page.delete \in Documents
        BY <1>1, <2>2 DEF HandleDeleteDocument, PapersPage
      <3> QED BY <3>1, <3>2 DEF PaperCalls
    <2>3. CASE \E p \in Documents : SaveValidity(p)
      <3>1. PICK p \in Documents : SaveValidity(p)
        BY <2>3
      <3> DEFINE arg == [paper |-> p, to |-> page.field[p]]
      <3>2. PICK u : Fresh(u, "validity", arg) /\ tasks' = tasks \cup {u}
        BY <3>1, TapStarts DEF SaveValidity
      <3>3. page.field \in [Documents -> PaperStates] /\ page' = page
        BY <3>1 DEF PapersInv, SaveValidity, Known
      <3>4. arg \in [paper : Documents, to : PaperStates]
        BY <3>3
      <3> HIDE DEF arg
      <3> QED BY <1>1, <3>2, <3>3, <3>4 DEF PaperCalls
    <2> QED BY <2>1, <2>2, <2>3
  <1>3. \A t \in tasks' : PapersTask(t)'
    BY <1>1, <1>2 DEF PapersInv, PapersTask, Fresh, PaperCalls
  <1>4. PapersAwaited' /\ PapersFollow'
    BY <1>1, <1>2 DEF PapersInv, PapersAwaited, PapersFollow, Fresh
  <1> QED BY <1>1, <1>2, <1>3, <1>4 DEF PapersInv

LEMMA ServePapersKeeps ==
  ASSUME PapersInv, NEW t \in tasks, ServePapers(t)
  PROVE  PapersInv'
  <1>1. /\ PapersTask(t) /\ t.wire = "sent" /\ page \in PapersPage
        /\ server \in [Documents -> PaperStates]
    BY DEF PapersInv, ServePapers, Awaiting
  <1>2. PICK accepts, after, reply, u :
          /\ Replied(t, u, accepts, after, reply, PaperCalls)
          /\ after \in [Documents -> PaperStates]
          /\ t.fn = "load" => after = server /\ reply = server
    <2>0. ASSUME NEW p \in Documents, NEW to \in PaperStates, t.fn \in PaperCalls,
                 NEW accepts, Serve(t, accepts, [server EXCEPT ![p] = to], None)
          PROVE  \E after, u : /\ Replied(t, u, accepts, after, None, PaperCalls)
                               /\ after \in [Documents -> PaperStates]
      <3> DEFINE after == [server EXCEPT ![p] = to]
      <3>1. after \in [Documents -> PaperStates] /\ Serve(t, accepts, after, None)
        BY <1>1, <2>0
      <3> HIDE DEF after
      <3>2. PICK u : Replied(t, u, accepts, after, None, PaperCalls)
        BY <1>1, <2>0, <3>1, CallReplies DEF PapersTask
      <3> QED BY <3>1, <3>2
    <2>1. CASE t.fn = "load" /\ Serve(t, TRUE, server, server)
      BY <1>1, <2>1, CallReplies DEF PapersTask
    <2>2. CASE /\ t.fn = "validity"
               /\ Serve(t, server[t.arg.paper] # "absent",
                        [server EXCEPT ![t.arg.paper] = t.arg.to], None)
      <3>1. t.fn \in PaperCalls /\ t.arg.paper \in Documents /\ t.arg.to \in PaperStates
        BY <1>1, <2>2 DEF PapersTask, PaperCalls
      <3>2. PICK accepts : accepts = (server[t.arg.paper] # "absent")
        OBVIOUS
      <3> QED BY <2>0, <2>2, <3>1, <3>2
    <2>3. CASE /\ t.fn = "addPaper"
               /\ \E p \in Documents :
                    Serve(t, server[p] = "absent", [server EXCEPT ![p] = "none"], None)
      <3>1. t.fn \in PaperCalls /\ "none" \in PaperStates
        BY <2>3 DEF PaperStates, PaperCalls
      <3> QED BY <2>0, <2>3, <3>1
    <2>4. CASE /\ t.fn = "deletePaper"
               /\ Serve(t, server[t.arg] # "absent", [server EXCEPT ![t.arg] = "absent"], None)
      <3>1. t.fn \in PaperCalls /\ t.arg \in Documents /\ "absent" \in PaperStates
        BY <1>1, <2>4 DEF PapersTask, PaperCalls, PaperStates
      <3> QED BY <2>0, <2>4, <3>1
    <2> QED BY <2>1, <2>2, <2>3, <2>4 DEF ServePapers, Awaiting
  <1>3. /\ IsTask(u) /\ u.fn = t.fn /\ u.arg = t.arg /\ tasks' = (tasks \ {t}) \cup {u}
        /\ u.wire = "ok" => server' = after /\ u.reply = reply
        /\ UNCHANGED page /\ server' \in [Documents -> PaperStates]
    BY <1>1, <1>2 DEF Replied
  <1>4. \A v \in tasks \ {t} : PapersTask(v)'
    BY <1>2 DEF PapersInv, PapersTask, Replied, OnItsWay
  <1>5. PapersTask(u)'
    BY <1>1, <1>2, <1>3 DEF PapersTask
  <1>6. PapersAwaited' /\ PapersFollow'
    BY <1>3 DEF PapersInv, PapersAwaited, PapersFollow
  <1> QED BY <1>1, <1>3, <1>4, <1>5, <1>6 DEF PapersInv

LEMMA PapersReply ==
  ASSUME PapersInv, NEW t \in tasks, PapersReturn(t) \/ PaperReturns(t)
  PROVE  PapersInv'
  <1>1. /\ PapersTask(t) /\ page \in PapersPage /\ UNCHANGED <<server, stale>>
        /\ t.wire \in {"ok", "failed"}
    BY DEF PapersInv, PapersReturn, PaperReturns, PapersTask, IsTask
  <1>2. CASE PapersReturn(t)
    <2>1. /\ t.fn = "load" /\ tasks' = tasks \ {t}
          /\ t.wire = "ok" => t.reply \in [Documents -> PaperStates]
      BY <1>1, <1>2 DEF PapersReturn, End, PapersTask
    <2>2. /\ page' \in PapersPage /\ page'.deleting = page.deleting
          /\ page'.list # None => page'.field \in [Documents -> PaperStates]
          /\ IF t.wire = "ok" THEN page'.list = t.reply ELSE page'.error
      <3>1. CASE t.wire = "ok"
        <4> DEFINE f == [p \in Documents |->
                          IF page.field = None \/ page.field[p] = "absent"
                               \/ t.reply[p] = "absent"
                            THEN t.reply[p] ELSE page.field[p]]
        <4>1. f \in [Documents -> PaperStates]
          BY <1>1, <2>1, <3>1 DEF PapersPage
        <4>2. page' = [page EXCEPT !.list = t.reply, !.field = f]
          BY <1>2, <3>1 DEF PapersReturn
        <4> HIDE DEF f
        <4> QED BY <1>1, <2>1, <3>1, <4>1, <4>2 DEF PapersPage
      <3>2. CASE t.wire = "failed"
        BY <1>1, <1>2, <3>2 DEF PapersInv, PapersReturn, PapersPage
      <3> QED BY <1>1, <3>1, <3>2
    <2>3. \A v \in tasks' : PapersTask(v)'
      BY <1>1, <2>1 DEF PapersInv, PapersTask
    <2>4. PapersAwaited'
      <3>1. t.wire = "ok" => page'.list # None
        BY <2>1, <2>2, PapersAssumption DEF PaperStates, Validities
      <3> QED BY <1>1, <2>1, <2>2, <3>1 DEF PapersInv, PapersAwaited
    <2>5. PapersFollow'
      BY <1>1, <2>1, <2>2 DEF PapersFollow, PapersTask
    <2> QED BY <1>1, <2>1, <2>2, <2>3, <2>4, <2>5 DEF PapersInv
  <1>3. CASE PaperReturns(t)
    <2>1. /\ t.fn \in PaperCalls /\ page' \in PapersPage
          /\ page'.deleting => page.deleting /\ t.fn # "deletePaper"
          /\ page'.list = page.list /\ page'.field = page.field
          /\ t.wire = "failed" => page'.error
      BY <1>1, <1>3 DEF PaperReturns, PapersPage, PaperCalls
    <2>2. PICK asked : Again(t, asked, PaperCalls)
      BY <1>3, <2>1, ReadsAgain DEF PaperReturns, PaperCalls
    <2>3. \A v \in tasks' : PapersTask(v)'
      BY <1>1, <2>2 DEF PapersInv, PapersTask, Fresh, Again
    <2>4. PapersAwaited'
      BY <1>1, <2>1, <2>2 DEF PapersInv, PapersAwaited, Again
    <2>5. PapersFollow'
      BY <1>1, <2>1, <2>2 DEF PapersFollow, Again
    <2> QED BY <1>1, <2>1, <2>3, <2>4, <2>5 DEF PapersInv
  <1> QED BY <1>2, <1>3

LEMMA PapersKept == PapersInv /\ PapersNext => PapersInv'
  BY PaperTyped, PaperAsked, ServePapersKeeps, PapersReply DEF PapersNext
LEMMA PapersIdle == PapersInv /\ UNCHANGED vars => PapersInv'
  BY DEF vars, PapersInv, PapersTask, PapersAwaited, PapersFollow
LEMMA PapersRest == PapersInv /\ tasks = {} => ~PapersBusy /\ (~stale => PapersAgree)
  BY DEF PapersInv, PapersAwaited, PapersFollow, PapersBusy, PapersAgree

------------------------------------------------------------------------------
\* A dormitory and its images: two forms on one page, and a page that is edited
\* on after the dormitory has been created.

HouseTexts == {None, "blank", "old", "v1", "v2"}
HouseFormPage ==
  [at : {"houseForm"}, edit : BOOLEAN, text : HouseTexts, error : BOOLEAN,
   submitting : BOOLEAN, left : HouseTexts \cup {"error"}, shown : SUBSET Images,
   unread : BOOLEAN, file : Images \cup {None}, uploading : BOOLEAN, imageError : BOOLEAN]
HouseFormRows == [data : HouseTexts, images : SUBSET Images]
ImageChanges == {"addImage", "deleteImage"}
HouseFormTask(t) ==
  /\ IsTask(t) /\ t.fn \in {"load", "data", "house", "upload"} \cup ImageChanges
  /\ t.fn \in {"upload"} \cup ImageChanges => t.arg \in Images
  /\ t.fn = "load" /\ t.wire = "ok" =>
       t.reply \in SUBSET Images /\ (~stale => t.reply = server.images)
  /\ t.fn = "data" /\ t.wire = "ok" => t.reply \in HouseTexts
  /\ t.fn = "house" =>
       /\ t.arg \in HouseTexts /\ page.submitting /\ page.left \in {None, "error"}
       /\ t.wire = "ok" => server.data = t.arg
HouseFormAwaited ==
  /\ page.submitting => \E t \in tasks : t.fn = "house"
  /\ page.uploading => \E t \in tasks : t.fn \in {"upload", "addImage"}
  /\ \A t, u \in tasks : t.fn = "house" /\ u.fn = "house" => t = u
HouseFormFollows ==
  ~stale /\ ~page.unread =>
    page.shown = server.images \/ Rereading(tasks, ImageChanges)
HouseFormInv ==
  /\ page \in HouseFormPage /\ server \in HouseFormRows
  /\ \A t \in tasks : HouseFormTask(t)
  /\ HouseFormAwaited /\ HouseFormFollows /\ HouseFormDone

LEMMA HouseFormBegins == HouseFormInit => HouseFormInv
  <1> SUFFICES ASSUME HouseFormInit PROVE HouseFormInv
    OBVIOUS
  <1>1. /\ page \in HouseFormPage /\ page.left = None /\ page.shown = {}
        /\ ~page.submitting /\ ~page.uploading
    BY DEF HouseFormInit, HouseFormPage, HouseTexts
  <1>2. server \in HouseFormRows /\ server.images = {}
    BY DEF HouseFormInit, HouseFormRows, HouseTexts
  <1>3. \A t \in tasks : Fresh(t, "load", None) \/ Fresh(t, "data", None)
    BY FirstTask DEF HouseFormInit, Fresh
  <1>4. \A t \in tasks : HouseFormTask(t)
    BY <1>3 DEF HouseFormTask, Fresh, ImageChanges
  <1>5. HouseFormAwaited
    BY <1>1, <1>3 DEF HouseFormAwaited, Fresh
  <1>6. HouseFormFollows /\ HouseFormDone
    BY <1>1, <1>2 DEF HouseFormFollows, HouseFormDone
  <1> QED BY <1>1, <1>2, <1>4, <1>5, <1>6 DEF HouseFormInv

LEMMA HouseFormFilled ==
  ASSUME HouseFormInv,
         \/ \E v \in {"v1", "v2"} : TypeHouse(v)
         \/ \E i \in Images : ChooseFile(i)
  PROVE  HouseFormInv'
  <1>1. /\ page \in HouseFormPage /\ UNCHANGED <<tasks, server, stale>>
    BY DEF HouseFormInv, TypeHouse, ChooseFile
  <1>2. /\ page' \in HouseFormPage /\ page'.left = page.left /\ page'.shown = page.shown
        /\ page'.submitting = page.submitting /\ page'.uploading = page.uploading
        /\ page'.unread = page.unread
    <2>1. CASE \E v \in {"v1", "v2"} : TypeHouse(v)
      BY <1>1, <2>1 DEF TypeHouse, HouseFormPage, HouseTexts
    <2>2. CASE \E i \in Images : ChooseFile(i)
      BY <1>1, <2>2 DEF ChooseFile, HouseFormPage
    <2> QED BY <2>1, <2>2
  <1>3. \A t \in tasks' : HouseFormTask(t)'
    BY <1>1, <1>2 DEF HouseFormInv, HouseFormTask
  <1>4. HouseFormAwaited' /\ HouseFormFollows' /\ HouseFormDone'
    BY <1>1, <1>2 DEF HouseFormInv, HouseFormAwaited, HouseFormFollows, HouseFormDone,
                      Rereading
  <1> QED BY <1>1, <1>2, <1>3, <1>4 DEF HouseFormInv

LEMMA HouseFormAsked ==
  ASSUME HouseFormInv,
         SubmitHouse \/ HandleAddImage \/ \E i \in Images : HandleDeleteImage(i)
  PROVE  HouseFormInv'
  <1>1. /\ page \in HouseFormPage /\ UNCHANGED <<server, stale>> /\ page.left = None
    BY DEF HouseFormInv, SubmitHouse, HandleAddImage, HandleDeleteImage, OnForm
  <1>2. PICK fn, arg, u :
          /\ Fresh(u, fn, arg) /\ tasks' = tasks \cup {u}
          /\ fn \in {"house", "upload", "deleteImage"}
          /\ fn = "house" => arg \in HouseTexts /\ ~page.submitting /\ page'.submitting
          /\ fn # "house" => arg \in Images /\ page'.submitting = page.submitting
          /\ page' \in HouseFormPage /\ page'.left = page.left /\ page'.shown = page.shown
          /\ page'.uploading => page.uploading \/ fn = "upload"
          /\ page'.unread = page.unread
    <2>1. CASE SubmitHouse
      <3>1. PICK u : Fresh(u, "house", page.text) /\ tasks' = tasks \cup {u}
        BY <2>1, TapStarts DEF SubmitHouse
      <3>2. /\ page' \in HouseFormPage /\ page'.left = page.left /\ page'.shown = page.shown
            /\ page'.uploading = page.uploading /\ page'.unread = page.unread
            /\ page.text \in HouseTexts /\ ~page.submitting /\ page'.submitting
        BY <1>1, <2>1 DEF SubmitHouse, HouseFormPage
      <3> QED BY <3>1, <3>2
    <2>2. CASE HandleAddImage
      <3>1. PICK u : Fresh(u, "upload", page.file) /\ tasks' = tasks \cup {u}
        BY <2>2, TapStarts DEF HandleAddImage
      <3>2. /\ page' \in HouseFormPage /\ page'.left = page.left /\ page'.shown = page.shown
            /\ page'.submitting = page.submitting /\ page'.unread = page.unread
            /\ page.file \in Images
        BY <1>1, <2>2 DEF HandleAddImage, HouseFormPage
      <3> QED BY <3>1, <3>2
    <2>3. CASE \E i \in Images : HandleDeleteImage(i)
      <3>1. PICK i \in Images : HandleDeleteImage(i)
        BY <2>3
      <3>2. PICK u : Fresh(u, "deleteImage", i) /\ tasks' = tasks \cup {u}
        BY <3>1, TapStarts DEF HandleDeleteImage
      <3>3. page' = page
        BY <3>1 DEF HandleDeleteImage
      <3> QED BY <1>1, <3>2, <3>3
    <2> QED BY <2>1, <2>2, <2>3
  <1>3. \A v \in tasks' : HouseFormTask(v)'
    BY <1>1, <1>2 DEF HouseFormInv, HouseFormTask, Fresh, ImageChanges
  <1>4. HouseFormAwaited'
    BY <1>1, <1>2 DEF HouseFormInv, HouseFormAwaited, HouseFormTask, Fresh
  <1>5. HouseFormFollows' /\ HouseFormDone'
    BY <1>1, <1>2 DEF HouseFormInv, HouseFormFollows, HouseFormDone, Rereading
  <1> QED BY <1>1, <1>2, <1>3, <1>4, <1>5 DEF HouseFormInv

\* What is left of a call of the form; its images are as they were, or will be
\* read again.
HouseFormReplied(t, u, after, reply) ==
  /\ IsTask(u) /\ u.fn = t.fn /\ u.arg = t.arg /\ u.wire \in {"ok", "failed"}
  /\ tasks' = (tasks \ {t}) \cup {u} /\ UNCHANGED page
  /\ u.wire = "ok" => server' = after /\ u.reply = reply
  /\ server' # server => server' = after
  /\ \A v \in tasks \ {t} :
       v.fn = "load" /\ v.wire = "ok" /\ ~stale' =>
         ~stale /\ server'.images = server.images
  /\ ~stale' =>
       \/ Rereading(tasks', ImageChanges)
       \/ /\ ~stale /\ server'.images = server.images
          /\ Rereading(tasks, ImageChanges) => Rereading(tasks', ImageChanges)

LEMMA HouseFormCall ==
  ASSUME NEW t \in tasks, HouseFormTask(t), t.wire = "sent", server \in HouseFormRows,
         NEW accepts, NEW after, NEW reply, Serve(t, accepts, after, reply),
         t.fn \notin ImageChanges \cup {"house"} => after = server,
         t.fn = "house" => after.images = server.images
  PROVE  \E u : HouseFormReplied(t, u, after, reply)
  <1>1. CASE t.fn # "house"
    <2>1. PICK u : Replied(t, u, accepts, after, reply, ImageChanges)
      BY <1>1, CallReplies DEF HouseFormTask
    <2>2. \A v \in tasks \ {t} :
            v.fn = "load" /\ v.wire = "ok" /\ ~stale' => ~stale /\ server' = server
      BY <2>1 DEF Replied, OnItsWay
    <2> QED BY <2>1, <2>2 DEF Replied, HouseFormReplied
  <1>2. CASE t.fn = "house"
    <2>1. PICK u : Ended(t, u, accepts, after, reply)
      BY CallEnds DEF HouseFormTask
    <2>2. UNCHANGED page /\ (server' # server => accepts /\ server' = after)
      BY CallEnds DEF HouseFormTask
    <2>3. server'.images = server.images
      BY <1>2, <2>2
    <2>4. ~stale' => ~stale
      BY <1>2, <2>1 DEF Ended
    <2>5. Rereading(tasks, ImageChanges) => Rereading(tasks', ImageChanges)
      BY <1>2, <2>1 DEF Ended, Rereading, ImageChanges
    <2> QED BY <2>1, <2>2, <2>3, <2>4, <2>5 DEF Ended, HouseFormReplied
  <1> QED BY <1>1, <1>2

LEMMA ServeHouseFormKeeps ==
  ASSUME HouseFormInv, NEW t \in tasks, ServeHouseForm(t)
  PROVE  HouseFormInv'
  <1>1. /\ HouseFormTask(t) /\ t.wire = "sent" /\ page \in HouseFormPage
        /\ server \in HouseFormRows
    BY DEF HouseFormInv, ServeHouseForm, Awaiting
  <1>2. PICK after, reply, u :
          /\ HouseFormReplied(t, u, after, reply) /\ after \in HouseFormRows
          /\ t.fn = "load" => reply = server.images /\ after = server
          /\ t.fn = "data" => reply = server.data
          /\ IF t.fn = "house" THEN after.data = t.arg ELSE after.data = server.data
    <2>1. CASE t.fn = "load" /\ Serve(t, TRUE, server, server.images)
      BY <1>1, <2>1, HouseFormCall DEF ImageChanges
    <2>2. CASE t.fn = "data" /\ Serve(t, TRUE, server, server.data)
      BY <1>1, <2>2, HouseFormCall DEF ImageChanges
    <2>3. CASE t.fn = "upload" /\ Serve(t, TRUE, server, None)
      BY <1>1, <2>3, HouseFormCall DEF ImageChanges
    <2>4. CASE t.fn = "house" /\ Serve(t, TRUE, [server EXCEPT !.data = t.arg], None)
      <3> DEFINE after == [server EXCEPT !.data = t.arg]
      <3>1. /\ Serve(t, TRUE, after, None) /\ after \in HouseFormRows
            /\ after.data = t.arg /\ after.images = server.images
        BY <1>1, <2>4 DEF HouseFormTask, HouseFormRows
      <3> HIDE DEF after
      <3>2. PICK u : HouseFormReplied(t, u, after, None)
        BY <1>1, <2>4, <3>1, HouseFormCall DEF ImageChanges
      <3> QED BY <2>4, <3>1, <3>2
    <2>5. CASE /\ t.fn = "addImage"
               /\ Serve(t, TRUE, [server EXCEPT !.images = @ \cup {t.arg}], None)
      <3> DEFINE after == [server EXCEPT !.images = @ \cup {t.arg}]
      <3>1. /\ Serve(t, TRUE, after, None) /\ after \in HouseFormRows
            /\ after.data = server.data
        BY <1>1, <2>5 DEF HouseFormTask, HouseFormRows, ImageChanges
      <3> HIDE DEF after
      <3>2. PICK u : HouseFormReplied(t, u, after, None)
        BY <1>1, <2>5, <3>1, HouseFormCall DEF ImageChanges
      <3> QED BY <2>5, <3>1, <3>2
    <2>6. CASE /\ t.fn = "deleteImage"
               /\ Serve(t, t.arg \in server.images,
                        [server EXCEPT !.images = @ \ {t.arg}], None)
      <3> DEFINE after == [server EXCEPT !.images = @ \ {t.arg}]
                 accepts == t.arg \in server.images
      <3>1. /\ Serve(t, accepts, after, None) /\ after \in HouseFormRows
            /\ after.data = server.data
        BY <1>1, <2>6 DEF HouseFormRows
      <3> HIDE DEF after, accepts
      <3>2. PICK u : HouseFormReplied(t, u, after, None)
        BY <1>1, <2>6, <3>1, HouseFormCall DEF ImageChanges
      <3> QED BY <2>6, <3>1, <3>2
    <2> QED BY <2>1, <2>2, <2>3, <2>4, <2>5, <2>6 DEF ServeHouseForm, Awaiting
  <1>3. /\ IsTask(u) /\ u.fn = t.fn /\ u.arg = t.arg /\ tasks' = (tasks \ {t}) \cup {u}
        /\ u.wire = "ok" => server' = after /\ u.reply = reply
        /\ UNCHANGED page /\ server' \in HouseFormRows
        /\ t.fn # "house" => server'.data = server.data
    BY <1>1, <1>2 DEF HouseFormReplied
  <1>4. \A v \in tasks \ {t} : v.fn = "house" => t.fn # "house"
    BY DEF HouseFormInv, HouseFormAwaited
  <1>5. \A v \in tasks \ {t} : HouseFormTask(v)'
    BY <1>2, <1>3, <1>4 DEF HouseFormInv, HouseFormTask, HouseFormReplied
  <1>6. HouseFormTask(u)'
    BY <1>1, <1>2, <1>3 DEF HouseFormTask, HouseFormRows
  <1>7. HouseFormAwaited'
    BY <1>3 DEF HouseFormInv, HouseFormAwaited
  <1>8. HouseFormFollows'
    BY <1>2, <1>3 DEF HouseFormInv, HouseFormFollows, HouseFormReplied
  <1>9. HouseFormDone'
    BY <1>1, <1>3 DEF HouseFormInv, HouseFormDone, HouseFormTask
  <1> QED BY <1>1, <1>3, <1>5, <1>6, <1>7, <1>8, <1>9 DEF HouseFormInv

LEMMA HouseFormReads ==
  ASSUME HouseFormInv, NEW t \in tasks, HouseDataReturns(t) \/ ImagesReturn(t)
  PROVE  HouseFormInv'
  <1>1. /\ HouseFormTask(t) /\ page \in HouseFormPage /\ UNCHANGED <<server, stale>>
        /\ t.wire \in {"ok", "failed"} /\ tasks' = tasks \ {t} /\ t.fn \in {"data", "load"}
    BY DEF HouseFormInv, HouseDataReturns, ImagesReturn, HouseFormTask, IsTask, End
  <1>2. CASE HouseDataReturns(t)
    <2>1. /\ t.fn = "data" /\ page' \in HouseFormPage
          /\ page'.left = page.left \/ page'.left = "error"
          /\ page'.shown = page.shown /\ page'.unread = page.unread
          /\ page'.submitting = page.submitting /\ page'.uploading = page.uploading
      BY <1>1, <1>2 DEF HouseDataReturns, HouseFormPage, HouseFormTask
    <2>2. \A v \in tasks' : HouseFormTask(v)'
      BY <1>1, <2>1 DEF HouseFormInv, HouseFormTask
    <2>3. HouseFormAwaited'
      BY <1>1, <2>1 DEF HouseFormInv, HouseFormAwaited
    <2>5. HouseFormFollows'
      <3>1. Rereading(tasks, ImageChanges) => Rereading(tasks', ImageChanges)
        BY <1>1, <2>1 DEF Rereading, ImageChanges
      <3> QED BY <1>1, <2>1, <3>1 DEF HouseFormInv, HouseFormFollows
    <2>6. HouseFormDone'
      BY <1>1, <2>1 DEF HouseFormInv, HouseFormDone
    <2> QED BY <1>1, <2>1, <2>2, <2>3, <2>5, <2>6 DEF HouseFormInv
  <1>3. CASE ImagesReturn(t)
    <2>1. /\ t.fn = "load" /\ page' \in HouseFormPage /\ page'.left = page.left
          /\ page'.submitting = page.submitting /\ page'.uploading = page.uploading
          /\ IF t.wire = "ok" THEN page'.shown = t.reply ELSE page'.unread
      BY <1>1, <1>3 DEF ImagesReturn, HouseFormPage, HouseFormTask
    <2>2. \A v \in tasks' : HouseFormTask(v)'
      BY <1>1, <2>1 DEF HouseFormInv, HouseFormTask
    <2>3. HouseFormAwaited'
      BY <1>1, <2>1 DEF HouseFormInv, HouseFormAwaited
    <2>4. HouseFormFollows'
      BY <1>1, <2>1 DEF HouseFormFollows, HouseFormTask
    <2>5. HouseFormDone'
      BY <1>1, <2>1 DEF HouseFormInv, HouseFormDone
    <2> QED BY <1>1, <2>1, <2>2, <2>3, <2>4, <2>5 DEF HouseFormInv
  <1> QED BY <1>2, <1>3

LEMMA HouseReplies ==
  ASSUME HouseFormInv, NEW t \in tasks, HouseReturns(t)
  PROVE  HouseFormInv'
  <1>1. /\ HouseFormTask(t) /\ page \in HouseFormPage /\ UNCHANGED <<server, stale>>
        /\ t.wire \in {"ok", "failed"} /\ t.fn = "house"
    BY DEF HouseFormInv, HouseReturns, HouseFormTask, IsTask
  <1>2. /\ page' \in HouseFormPage /\ ~page'.submitting /\ page'.shown = page.shown
        /\ page'.uploading = page.uploading /\ (~page'.unread => ~page.unread)
        /\ \/ page'.left = page.left
           \/ page'.left = t.arg /\ t.wire = "ok" /\ page.edit
    <2>1. CASE t.wire = "failed"
      BY <1>1, <2>1 DEF HouseReturns, HouseFormPage
    <2>2. CASE t.wire = "ok" /\ page.edit
      BY <1>1, <2>2 DEF HouseReturns, HouseFormPage, HouseFormTask
    <2>3. CASE t.wire = "ok" /\ ~page.edit
      <3>1. page' = [page EXCEPT !.submitting = FALSE, !.edit = TRUE, !.unread = TRUE]
        BY <1>1, <2>3 DEF HouseReturns
      <3> QED BY <1>1, <3>1 DEF HouseFormPage
    <2> QED BY <1>1, <2>1, <2>2, <2>3
  <1>3. PICK read : /\ tasks' = (tasks \ {t}) \cup read
                    /\ \A v \in read : Fresh(v, "load", None) \/ Fresh(v, "data", None)
    <2>1. CASE t.wire = "ok" /\ ~page.edit
      <3>1. PICK read : read = {Task("load", 1, None), Task("data", 1, None)}
        OBVIOUS
      <3>2. \A v \in read : Fresh(v, "load", None) \/ Fresh(v, "data", None)
        BY <3>1, FirstTask DEF Fresh
      <3> QED BY <2>1, <3>1, <3>2 DEF HouseReturns
    <2>2. CASE ~(t.wire = "ok" /\ ~page.edit)
      <3>1. PICK none : none = {}
        OBVIOUS
      <3> QED BY <2>2, <3>1 DEF HouseReturns, End
    <2> QED BY <2>1, <2>2
  <1>4. \A v \in tasks' : v.fn # "house"
    BY <1>1, <1>3 DEF HouseFormInv, HouseFormAwaited, Fresh
  <1>5. \A v \in tasks' : HouseFormTask(v)'
    BY <1>1, <1>3, <1>4 DEF HouseFormInv, HouseFormTask, Fresh, ImageChanges
  <1>6. HouseFormAwaited'
    BY <1>1, <1>2, <1>3, <1>4 DEF HouseFormInv, HouseFormAwaited
  <1>7. HouseFormFollows'
    <2>1. Rereading(tasks, ImageChanges) => Rereading(tasks', ImageChanges)
      BY <1>1, <1>3 DEF Rereading, ImageChanges
    <2> QED BY <1>1, <1>2, <2>1 DEF HouseFormInv, HouseFormFollows
  <1>8. HouseFormDone'
    BY <1>1, <1>2 DEF HouseFormInv, HouseFormDone, HouseFormTask
  <1> QED BY <1>1, <1>2, <1>5, <1>6, <1>7, <1>8 DEF HouseFormInv

LEMMA ImageReplies ==
  ASSUME HouseFormInv, NEW t \in tasks,
         ImageUploaded(t) \/ AddImageReturns(t) \/ DeleteImageReturns(t)
  PROVE  HouseFormInv'
  <1>1. /\ HouseFormTask(t) /\ page \in HouseFormPage /\ UNCHANGED <<server, stale>>
        /\ t.wire \in {"ok", "failed"} /\ t.fn \in {"upload"} \cup ImageChanges
        /\ t.fn \notin {"load", "house"}
    BY DEF HouseFormInv, ImageUploaded, AddImageReturns, DeleteImageReturns, Returned,
           Threw,
           HouseFormTask, IsTask, ImageChanges
  <1>2. /\ page' \in HouseFormPage /\ page'.left = page.left /\ page'.shown = page.shown
        /\ page'.submitting = page.submitting /\ page'.unread = page.unread
    <2>1. CASE ImageUploaded(t)
      BY <1>1, <2>1 DEF ImageUploaded
    <2>2. CASE AddImageReturns(t)
      BY <1>1, <2>2 DEF AddImageReturns, HouseFormPage
    <2>3. CASE DeleteImageReturns(t)
      BY <1>1, <2>3 DEF DeleteImageReturns, HouseFormPage
    <2> QED BY <2>1, <2>2, <2>3
  <1>3. PICK asked :
          /\ tasks' = (tasks \ {t}) \cup asked
          /\ \A v \in asked : Fresh(v, "load", None) \/ Fresh(v, "addImage", t.arg)
          /\ page'.uploading /\ t.fn \in {"upload", "addImage"} =>
               \E v \in asked : v.fn = "addImage"
          /\ page'.uploading => page.uploading
          /\ Rereading(tasks, ImageChanges) => Rereading(tasks', ImageChanges)
    <2>1. CASE ImageUploaded(t)
      <3>1. PICK u : Fresh(u, "addImage", t.arg) /\ tasks' = (tasks \ {t}) \cup {u}
        BY <2>1, GoesOn DEF ImageUploaded
      <3>2. PICK asked : asked = {u}
        OBVIOUS
      <3>3. page' = page /\ t.fn = "upload"
        BY <2>1 DEF ImageUploaded, Returned
      <3>4. Rereading(tasks, ImageChanges) => Rereading(tasks', ImageChanges)
        BY <3>1, <3>3 DEF Rereading, ImageChanges
      <3> QED BY <3>1, <3>2, <3>3, <3>4 DEF Fresh
    <2>2. CASE AddImageReturns(t)
      <3>1. PICK asked : Again(t, asked, ImageChanges)
        BY <1>1, <2>2, ReadsAgain DEF AddImageReturns
      <3>2. ~page'.uploading
        BY <1>1, <2>2 DEF AddImageReturns, HouseFormPage
      <3> QED BY <3>1, <3>2 DEF Again
    <2>3. CASE DeleteImageReturns(t)
      <3>1. PICK asked : Again(t, asked, ImageChanges)
        BY <1>1, <2>3, ReadsAgain DEF DeleteImageReturns
      <3>2. page'.uploading = page.uploading /\ t.fn = "deleteImage"
        BY <1>1, <2>3 DEF DeleteImageReturns, HouseFormPage
      <3> QED BY <3>1, <3>2 DEF Again
    <2> QED BY <2>1, <2>2, <2>3
  <1>4. \A v \in tasks' : HouseFormTask(v)'
    BY <1>1, <1>2, <1>3 DEF HouseFormInv, HouseFormTask, Fresh, ImageChanges
  <1>5. HouseFormAwaited'
    BY <1>1, <1>2, <1>3 DEF HouseFormInv, HouseFormAwaited, Fresh
  <1>6. HouseFormFollows'
    BY <1>1, <1>2, <1>3 DEF HouseFormInv, HouseFormFollows
  <1>7. HouseFormDone'
    BY <1>1, <1>2 DEF HouseFormInv, HouseFormDone
  <1> QED BY <1>1, <1>2, <1>4, <1>5, <1>6, <1>7 DEF HouseFormInv

LEMMA HouseFormKept == HouseFormInv /\ HouseFormNext => HouseFormInv'
  BY HouseFormFilled, HouseFormAsked, ServeHouseFormKeeps, HouseFormReads, HouseReplies,
     ImageReplies DEF HouseFormNext
LEMMA HouseFormIdle == HouseFormInv /\ UNCHANGED vars => HouseFormInv'
  BY DEF vars, HouseFormInv, HouseFormTask, HouseFormAwaited, HouseFormFollows,
         HouseFormDone
LEMMA HouseFormRest ==
  HouseFormInv =>
    HouseFormDone /\ (tasks = {} => ~HouseFormBusy /\ (~stale => HouseFormAgrees))
  BY DEF HouseFormInv, HouseFormAwaited, HouseFormFollows, Rereading, HouseFormBusy,
         HouseFormAgrees

------------------------------------------------------------------------------
\* The residents of a room: who moves in, out or on, and the room read again.

Wheres == [Tenants -> {Here, "nowhere"} \cup Houses]
ResidentsPage ==
  [at : {"residents"}, list : Wheres \cup {None}, error : BOOLEAN,
   chosen : Tenants \cup {None}, assigning : BOOLEAN, actionError : BOOLEAN,
   release : Tenants \cup {None}, releasing : BOOLEAN, transfer : Tenants \cup {None},
   house : Houses \cup {None}, offered : Houses \cup {None}, room : Houses \cup {None},
   transferring : BOOLEAN, details : Tenants \cup {None}, loading : BOOLEAN]
SeatCalls == {"assign", "release", "transfer"}
ResidentsTask(t) ==
  /\ IsTask(t) /\ t.fn \in {"load", "rooms", "profile"} \cup SeatCalls
  /\ t.fn \in {"assign", "release"} => t.arg \in Tenants
  /\ t.fn = "transfer" => t.arg \in [student : Tenants, to : Houses]
  /\ t.fn = "rooms" => t.arg \in Houses
  /\ t.fn = "load" /\ t.wire = "ok" => t.reply \in Wheres /\ (~stale => t.reply = server)
ResidentsAwaited ==
  /\ page.assigning => Runs("assign")
  /\ page.releasing => Runs("release")
  /\ page.transferring => Runs("transfer")
  /\ page.loading => Runs("profile")
  /\ page.list = None /\ ~page.error => Runs("load")
ResidentsFollow ==
  ~stale /\ page.list # None /\ ~page.error =>
    page.list = server \/ Rereading(tasks, SeatCalls)
ResidentsInv ==
  /\ page \in ResidentsPage /\ server \in Wheres
  /\ \A t \in tasks : ResidentsTask(t)
  /\ ResidentsAwaited /\ ResidentsFollow

LEMMA ResidentsBegin == ResidentsInit => ResidentsInv
  <1> SUFFICES ASSUME ResidentsInit PROVE ResidentsInv
    OBVIOUS
  <1>1. PICK l : Fresh(l, "load", None) /\ tasks = {l}
    BY LoadStarts DEF ResidentsInit
  <1>2. /\ page \in ResidentsPage /\ page.list = None /\ ~page.assigning /\ ~page.releasing
        /\ ~page.transferring /\ ~page.loading
    BY DEF ResidentsInit, ResidentsPage
  <1>3. server \in Wheres
    BY DEF ResidentsInit, Wheres
  <1>4. ResidentsTask(l)
    BY <1>1 DEF ResidentsTask, Fresh, SeatCalls
  <1> QED BY <1>1, <1>2, <1>3, <1>4
      DEF ResidentsInv, ResidentsAwaited, ResidentsFollow, Fresh, Runs

\* What leaves the list as it is, and ends no reading.
LEMMA ResidentsTaps ==
  ASSUME ResidentsInv, UNCHANGED <<server, stale>>, page' \in ResidentsPage,
         page'.list = page.list, page'.error = page.error, tasks \subseteq tasks',
         \A u \in tasks' \ tasks : ResidentsTask(u)',
         page'.assigning => page.assigning \/ Runs("assign")',
         page'.releasing => page.releasing \/ Runs("release")',
         page'.transferring => page.transferring \/ Runs("transfer")',
         page'.loading => page.loading \/ Runs("profile")'
  PROVE  ResidentsInv'
  <1>1. \A u \in tasks' : ResidentsTask(u)'
    BY DEF ResidentsInv, ResidentsTask
  <1>2. ResidentsAwaited'
    BY DEF ResidentsInv, ResidentsAwaited, Runs
  <1>3. ResidentsFollow'
    BY DEF ResidentsInv, ResidentsFollow, Rereading
  <1> QED BY <1>1, <1>2, <1>3 DEF ResidentsInv

LEMMA ResidentsChosen ==
  ASSUME ResidentsInv,
         \/ \E s \in Tenants : ChooseStudent(s) \/ AskRelease(s)
         \/ CancelRelease \/ ChooseRoom \/ CloseDetails
  PROVE  ResidentsInv'
  <1>1. page \in ResidentsPage /\ UNCHANGED <<tasks, server, stale>>
    BY DEF ResidentsInv, ChooseStudent, AskRelease, CancelRelease, ChooseRoom, CloseDetails
  <1>2. ASSUME page' \in ResidentsPage, page'.list = page.list, page'.error = page.error,
               page'.assigning = page.assigning, page'.releasing = page.releasing,
               page'.transferring = page.transferring, page'.loading = page.loading
        PROVE  ResidentsInv'
    BY <1>1, <1>2, ResidentsTaps
  <1>3. CASE \E s \in Tenants : ChooseStudent(s)
    BY <1>1, <1>2, <1>3 DEF ChooseStudent, ResidentsPage
  <1>4. CASE \E s \in Tenants : AskRelease(s)
    BY <1>1, <1>2, <1>4 DEF AskRelease, ResidentsPage
  <1>5. CASE CancelRelease
    BY <1>1, <1>2, <1>5 DEF CancelRelease, ResidentsPage
  <1>6. CASE ChooseRoom
    BY <1>1, <1>2, <1>6 DEF ChooseRoom, ResidentsPage
  <1>7. CASE CloseDetails
    BY <1>1, <1>2, <1>7 DEF CloseDetails, ResidentsPage
  <1> QED BY <1>3, <1>4, <1>5, <1>6, <1>7

LEMMA ResidentsAsked ==
  ASSUME ResidentsInv,
         \/ HandleAssign \/ HandleRelease \/ HandleTransfer
         \/ \E s \in Tenants : OpenDetails(s) \/ \E d \in Houses : OpenTransfer(s, d)
  PROVE  ResidentsInv'
  <1>1. page \in ResidentsPage /\ UNCHANGED <<server, stale>>
    BY DEF ResidentsInv, HandleAssign, HandleRelease, HandleTransfer, OpenDetails,
           OpenTransfer
  <1>2. CASE HandleAssign
    <2>1. PICK u : Fresh(u, "assign", page.chosen) /\ tasks' = tasks \cup {u}
      BY <1>2, TapStarts DEF HandleAssign
    <2>2. /\ page' \in ResidentsPage /\ page'.list = page.list /\ page'.error = page.error
          /\ page'.releasing = page.releasing /\ page'.transferring = page.transferring
          /\ page'.loading = page.loading /\ page.chosen \in Tenants
      BY <1>1, <1>2 DEF HandleAssign, ResidentsPage
    <2>3. ResidentsTask(u)' /\ Runs("assign")'
      BY <2>1, <2>2 DEF ResidentsTask, Fresh, Runs, SeatCalls
    <2> QED BY <1>1, <2>1, <2>2, <2>3, ResidentsTaps
  <1>3. CASE HandleRelease
    <2>1. PICK u : Fresh(u, "release", page.release) /\ tasks' = tasks \cup {u}
      BY <1>3, TapStarts DEF HandleRelease
    <2>2. /\ page' \in ResidentsPage /\ page'.list = page.list /\ page'.error = page.error
          /\ page'.assigning = page.assigning /\ page'.transferring = page.transferring
          /\ page'.loading = page.loading /\ page.release \in Tenants
      BY <1>1, <1>3 DEF HandleRelease, ResidentsPage
    <2>3. ResidentsTask(u)' /\ Runs("release")'
      BY <2>1, <2>2 DEF ResidentsTask, Fresh, Runs, SeatCalls
    <2> QED BY <1>1, <2>1, <2>2, <2>3, ResidentsTaps
  <1>4. CASE HandleTransfer
    <2> DEFINE move == [student |-> page.transfer, to |-> page.room]
    <2>1. PICK u : Fresh(u, "transfer", move) /\ tasks' = tasks \cup {u}
      BY <1>4, TapStarts DEF HandleTransfer
    <2>2. move \in [student : Tenants, to : Houses]
      BY <1>1, <1>4 DEF HandleTransfer, ResidentsPage
    <2> HIDE DEF move
    <2>3. /\ page' \in ResidentsPage /\ page'.list = page.list /\ page'.error = page.error
          /\ page'.assigning = page.assigning /\ page'.releasing = page.releasing
          /\ page'.loading = page.loading
      BY <1>1, <1>4 DEF HandleTransfer, ResidentsPage
    <2>4. ResidentsTask(u)' /\ Runs("transfer")'
      BY <2>1, <2>2 DEF ResidentsTask, Fresh, Runs, SeatCalls
    <2> QED BY <1>1, <2>1, <2>3, <2>4, ResidentsTaps
  <1>5. CASE \E s \in Tenants : OpenDetails(s)
    <2>1. PICK s \in Tenants : OpenDetails(s)
      BY <1>5
    <2>2. PICK u : Fresh(u, "profile", s) /\ tasks' = tasks \cup {u}
      BY <2>1, TapStarts DEF OpenDetails
    <2>3. /\ page' \in ResidentsPage /\ page'.list = page.list /\ page'.error = page.error
          /\ page'.assigning = page.assigning /\ page'.releasing = page.releasing
          /\ page'.transferring = page.transferring
      BY <1>1, <2>1 DEF OpenDetails, ResidentsPage
    <2>4. ResidentsTask(u)' /\ Runs("profile")'
      BY <2>2 DEF ResidentsTask, Fresh, Runs, SeatCalls
    <2> QED BY <1>1, <2>2, <2>3, <2>4, ResidentsTaps
  <1>6. CASE \E s \in Tenants : \E d \in Houses : OpenTransfer(s, d)
    <2>1. PICK s \in Tenants, d \in Houses : OpenTransfer(s, d)
      BY <1>6
    <2>2. /\ page' \in ResidentsPage /\ page'.list = page.list /\ page'.error = page.error
          /\ page'.assigning = page.assigning /\ page'.releasing = page.releasing
          /\ page'.transferring = page.transferring /\ page'.loading = page.loading
      BY <1>1, <2>1 DEF OpenTransfer, ResidentsPage
    <2>3. CASE tasks' = tasks
      BY <1>1, <2>2, <2>3, ResidentsTaps
    <2>4. CASE Start(New("rooms", d))
      <3>1. PICK u : Fresh(u, "rooms", d) /\ tasks' = tasks \cup {u}
        BY <2>4, TapStarts
      <3>2. ResidentsTask(u)'
        BY <3>1 DEF ResidentsTask, Fresh, SeatCalls
      <3> QED BY <1>1, <2>2, <3>1, <3>2, ResidentsTaps
    <2> QED BY <2>1, <2>3, <2>4 DEF OpenTransfer
  <1> QED BY <1>2, <1>3, <1>4, <1>5, <1>6

LEMMA ServeResidentsKeeps ==
  ASSUME ResidentsInv, NEW t \in tasks, ServeResidents(t)
  PROVE  ResidentsInv'
  <1>1. ResidentsTask(t) /\ t.wire = "sent" /\ page \in ResidentsPage /\ server \in Wheres
    BY DEF ResidentsInv, ServeResidents, Awaiting
  <1>2. PICK accepts, after, reply, u :
          /\ Replied(t, u, accepts, after, reply, SeatCalls)
          /\ after \in Wheres
          /\ t.fn = "load" => after = server /\ reply = server
    <2>0. ASSUME NEW s \in Tenants, NEW to \in {Here, "nowhere"} \cup Houses,
                 t.fn \in SeatCalls, NEW accepts, Serve(t, accepts, [server EXCEPT ![s] = to], None)
          PROVE  \E after, u : /\ Replied(t, u, accepts, after, None, SeatCalls)
                               /\ after \in Wheres
      <3> DEFINE after == [server EXCEPT ![s] = to]
      <3>1. after \in Wheres /\ Serve(t, accepts, after, None)
        BY <1>1, <2>0 DEF Wheres
      <3> HIDE DEF after
      <3>2. PICK u : Replied(t, u, accepts, after, None, SeatCalls)
        BY <1>1, <2>0, <3>1, CallReplies DEF ResidentsTask
      <3> QED BY <3>1, <3>2
    <2>1. CASE t.fn = "load" /\ Serve(t, TRUE, server, server)
      BY <1>1, <2>1, CallReplies DEF ResidentsTask
    <2>2. CASE /\ t.fn = "assign"
               /\ Serve(t, server[t.arg] = "nowhere" /\ LivingHere(server) = {},
                        [server EXCEPT ![t.arg] = Here], None)
      <3>1. t.fn \in SeatCalls /\ t.arg \in Tenants
        BY <1>1, <2>2 DEF ResidentsTask, SeatCalls
      <3>2. PICK accepts : accepts = (server[t.arg] = "nowhere" /\ LivingHere(server) = {})
        OBVIOUS
      <3>3. Serve(t, accepts, [server EXCEPT ![t.arg] = Here], None)
        BY <2>2, <3>2
      <3> QED BY <2>0, <2>2, <3>1, <3>3
    <2>3. CASE /\ t.fn = "release"
               /\ Serve(t, server[t.arg] = Here, [server EXCEPT ![t.arg] = "nowhere"], None)
      <3>1. t.fn \in SeatCalls /\ t.arg \in Tenants
        BY <1>1, <2>3 DEF ResidentsTask, SeatCalls
      <3> QED BY <2>0, <2>3, <3>1
    <2>4. CASE /\ t.fn = "transfer"
               /\ Serve(t, server[t.arg.student] = Here,
                        [server EXCEPT ![t.arg.student] = t.arg.to], None)
      <3>1. t.fn \in SeatCalls /\ t.arg.student \in Tenants /\ t.arg.to \in Houses
        BY <1>1, <2>4 DEF ResidentsTask, SeatCalls
      <3> QED BY <2>0, <2>4, <3>1
    <2> QED BY <2>1, <2>2, <2>3, <2>4 DEF ServeResidents, Awaiting
  <1>3. /\ IsTask(u) /\ u.fn = t.fn /\ u.arg = t.arg /\ tasks' = (tasks \ {t}) \cup {u}
        /\ u.wire = "ok" => server' = after /\ u.reply = reply
        /\ UNCHANGED page /\ server' \in Wheres
    BY <1>1, <1>2 DEF Replied
  <1>4. \A v \in tasks \ {t} : ResidentsTask(v)'
    BY <1>2 DEF ResidentsInv, ResidentsTask, Replied, OnItsWay
  <1>5. ResidentsTask(u)'
    BY <1>1, <1>2, <1>3 DEF ResidentsTask
  <1>6. ResidentsAwaited'
    BY <1>3 DEF ResidentsInv, ResidentsAwaited, Runs
  <1>7. ResidentsFollow'
    BY <1>2, <1>3 DEF ResidentsInv, ResidentsFollow, Replied
  <1> QED BY <1>1, <1>3, <1>4, <1>5, <1>6, <1>7 DEF ResidentsInv

LEMMA ResidentsReply ==
  ASSUME ResidentsInv, NEW t \in tasks, ResidentsLoadReturns(t) \/ SeatReturns(t)
  PROVE  ResidentsInv'
  <1>1. /\ ResidentsTask(t) /\ page \in ResidentsPage /\ UNCHANGED <<server, stale>>
        /\ t.wire \in {"ok", "failed"}
    BY DEF ResidentsInv, ResidentsLoadReturns, SeatReturns, ResidentsTask, IsTask
  <1>2. CASE ResidentsLoadReturns(t)
    <2>1. /\ t.fn = "load" /\ tasks' = tasks \ {t} /\ page' \in ResidentsPage
          /\ page'.assigning = page.assigning /\ page'.releasing = page.releasing
          /\ page'.transferring = page.transferring /\ page'.loading = page.loading
          /\ IF t.wire = "ok" THEN page'.list = t.reply /\ t.reply \in Wheres ELSE page'.error
      BY <1>1, <1>2 DEF ResidentsLoadReturns, End, ResidentsPage, ResidentsTask
    <2>2. \A v \in tasks' : ResidentsTask(v)'
      BY <1>1, <2>1 DEF ResidentsInv, ResidentsTask
    <2>3. page'.list # None \/ page'.error
      BY <2>1, ResidentsAssumption DEF Wheres
    <2>4. ResidentsAwaited'
      BY <1>1, <2>1, <2>3 DEF ResidentsInv, ResidentsAwaited, Runs
    <2>5. ResidentsFollow'
      BY <1>1, <2>1 DEF ResidentsFollow, ResidentsTask
    <2> QED BY <1>1, <2>1, <2>2, <2>4, <2>5 DEF ResidentsInv
  <1>3. CASE SeatReturns(t)
    <2>1. /\ t.fn \in SeatCalls /\ t.fn # "load" /\ t.fn # "profile" /\ page' \in ResidentsPage
          /\ page'.assigning => page.assigning /\ t.fn # "assign"
          /\ page'.releasing => page.releasing /\ t.fn # "release"
          /\ page'.transferring => page.transferring /\ t.fn # "transfer"
          /\ page'.list = page.list /\ page'.error = page.error /\ page'.loading = page.loading
      <3> DEFINE failed == t.wire = "failed"
                 assigning == page.assigning /\ t.fn # "assign"
                 releasing == page.releasing /\ t.fn # "release"
                 transferring == page.transferring /\ t.fn # "transfer"
                 chosen == IF t.wire = "ok" /\ t.fn = "assign" THEN None ELSE page.chosen
                 release == IF t.wire = "ok" /\ t.fn = "release" THEN None ELSE page.release
                 transfer == IF t.wire = "ok" /\ t.fn = "transfer" THEN None ELSE page.transfer
      <3>1. /\ failed \in BOOLEAN /\ assigning \in BOOLEAN /\ releasing \in BOOLEAN
            /\ transferring \in BOOLEAN /\ chosen \in Tenants \cup {None}
            /\ release \in Tenants \cup {None} /\ transfer \in Tenants \cup {None}
        BY <1>1 DEF ResidentsPage
      <3>2. page' = [page EXCEPT !.actionError = failed, !.assigning = assigning,
                       !.releasing = releasing, !.transferring = transferring,
                       !.chosen = chosen, !.release = release, !.transfer = transfer]
        BY <1>3 DEF SeatReturns
      <3>3. /\ assigning => page.assigning /\ t.fn # "assign"
            /\ releasing => page.releasing /\ t.fn # "release"
            /\ transferring => page.transferring /\ t.fn # "transfer"
        OBVIOUS
      <3> HIDE DEF failed, assigning, releasing, transferring, chosen, release, transfer
      <3> DEFINE half == [page EXCEPT !.actionError = failed, !.assigning = assigning,
                            !.releasing = releasing, !.transferring = transferring]
      <3>4. half \in ResidentsPage
        BY <1>1, <3>1 DEF ResidentsPage
      <3>6. /\ half.assigning = assigning /\ half.releasing = releasing
            /\ half.transferring = transferring /\ half.list = page.list
            /\ half.error = page.error /\ half.loading = page.loading
        BY <1>1, Zenon DEF ResidentsPage
      <3>7. page' = [half EXCEPT !.chosen = chosen, !.release = release, !.transfer = transfer]
        BY <3>2
      <3> HIDE DEF half
      <3>8. /\ page' \in ResidentsPage /\ page'.assigning = half.assigning
            /\ page'.releasing = half.releasing /\ page'.transferring = half.transferring
            /\ page'.list = half.list /\ page'.error = half.error
            /\ page'.loading = half.loading
        BY <3>1, <3>4, <3>7 DEF ResidentsPage
      <3>5. t.fn \in SeatCalls /\ t.fn # "load" /\ t.fn # "profile"
        BY <1>3 DEF SeatReturns, SeatCalls
      <3> QED BY <3>3, <3>5, <3>6, <3>8
    <2>2. PICK asked : Again(t, asked, SeatCalls)
      BY <1>3, <2>1, ReadsAgain DEF SeatReturns
    <2>3. \A v \in tasks' : ResidentsTask(v)'
      BY <1>1, <2>2 DEF ResidentsInv, ResidentsTask, Fresh, Again, SeatCalls
    <2>4. ResidentsAwaited'
      BY <2>1, <2>2 DEF ResidentsInv, ResidentsAwaited, Again, Runs
    <2>5. ResidentsFollow'
      BY <1>1, <2>1, <2>2 DEF ResidentsInv, ResidentsFollow, Again
    <2> QED BY <1>1, <2>1, <2>3, <2>4, <2>5 DEF ResidentsInv
  <1> QED BY <1>2, <1>3

LEMMA ResidentsHear ==
  ASSUME ResidentsInv, NEW t \in tasks,
         DetailsArrive(t) \/ \E ok \in BOOLEAN : TransferRoomsReturn(t, ok)
  PROVE  ResidentsInv'
  <1>1. /\ ResidentsTask(t) /\ page \in ResidentsPage /\ UNCHANGED <<server, stale>>
        /\ tasks' = tasks \ {t} /\ t.fn \in {"rooms", "profile"}
    BY DEF ResidentsInv, DetailsArrive, TransferRoomsReturn, Awaiting, End
  <1>2. /\ page' \in ResidentsPage /\ page'.list = page.list /\ page'.error = page.error
        /\ page'.assigning = page.assigning /\ page'.releasing = page.releasing
        /\ page'.transferring = page.transferring
        /\ page'.loading => page.loading /\ t.fn # "profile"
    <2>1. CASE DetailsArrive(t)
      BY <1>1, <2>1 DEF DetailsArrive, ResidentsPage
    <2>2. CASE \E ok \in BOOLEAN : TransferRoomsReturn(t, ok)
      <3>1. PICK ok \in BOOLEAN : TransferRoomsReturn(t, ok)
        BY <2>2
      <3> DEFINE d == IF ok THEN t.arg ELSE None
      <3>2. t.fn = "rooms" /\ d \in Houses \cup {None} /\ page' = [page EXCEPT !.offered = d]
        BY <1>1, <3>1 DEF TransferRoomsReturn, Awaiting, ResidentsTask
      <3> HIDE DEF d
      <3> QED BY <1>1, <3>2 DEF ResidentsPage
    <2> QED BY <2>1, <2>2
  <1>3. \A v \in tasks' : ResidentsTask(v)'
    BY <1>1 DEF ResidentsInv, ResidentsTask
  <1>4. ResidentsAwaited'
    BY <1>1, <1>2 DEF ResidentsInv, ResidentsAwaited, Runs
  <1>5. Rereading(tasks, SeatCalls) => Rereading(tasks', SeatCalls)
    BY <1>1 DEF Rereading, SeatCalls
  <1>6. ResidentsFollow'
    BY <1>1, <1>2, <1>5 DEF ResidentsInv, ResidentsFollow
  <1> QED BY <1>1, <1>2, <1>3, <1>4, <1>6 DEF ResidentsInv

LEMMA ResidentMovesKeeps ==
  ASSUME ResidentsInv, NEW s \in Tenants, ResidentMoves(s)
  PROVE  ResidentsInv'
  <1>1. server' \in Wheres /\ stale' /\ UNCHANGED <<page, tasks>>
    BY DEF ResidentsInv, ResidentMoves, Elsewhere, Wheres
  <1> QED BY <1>1
      DEF ResidentsInv, ResidentsTask, ResidentsAwaited, ResidentsFollow, Runs

LEMMA ResidentsKept == ResidentsInv /\ ResidentsNext => ResidentsInv'
  BY ResidentsChosen, ResidentsAsked, ServeResidentsKeeps, ResidentsReply, ResidentsHear,
     ResidentMovesKeeps DEF ResidentsNext
LEMMA ResidentsIdle == ResidentsInv /\ UNCHANGED vars => ResidentsInv'
  BY DEF vars, ResidentsInv, ResidentsTask, ResidentsAwaited, ResidentsFollow, Runs
LEMMA ResidentsRest ==
  ResidentsInv /\ tasks = {} => ~ResidentsBusy /\ (~stale => ResidentsAgree)
  BY DEF ResidentsInv, ResidentsAwaited, ResidentsFollow, Rereading, Runs, ResidentsBusy,
         ResidentsAgree, Loaded

------------------------------------------------------------------------------
\* The requests that wait for the manager: the list is taken off the page after
\* a decision, whichever form is open.

RequestsPage ==
  [at : {"requests"}, list : {None} \cup SUBSET Requests, error : BOOLEAN,
   actionError : BOOLEAN, busy : Requests \cup {None}, reject : Requests \cup {None},
   comment : BOOLEAN, approve : Requests \cup {None}, house : Destinations \cup {None},
   room : Destinations \cup {None}, offered : Destinations \cup {None}]
RequestRows ==
  [asked : [Requests -> Destinations \cup {None}],
   decided : [Requests -> {"pending", "approved", "rejected"}]]
RequestDecisions ==
  [request : Requests, to : {"approved", "rejected"}, room : Destinations \cup {None}]
RequestsTask(t) ==
  /\ IsTask(t) /\ t.fn \in {"load", "rooms", "decide"}
  /\ t.fn = "decide" => t.arg \in RequestDecisions
  /\ t.fn = "rooms" => t.arg \in Destinations
  /\ t.fn = "load" /\ t.wire = "ok" =>
       t.reply \in SUBSET Requests /\ (~stale => t.reply = Waiting(server.decided))
RequestsAwaited ==
  /\ page.busy # None => Runs("decide")
  /\ page.list = None /\ ~page.error => Runs("load")
RequestsFollow ==
  ~stale /\ page.list # None /\ ~page.error =>
    page.list = Waiting(server.decided) \/ Rereading(tasks, {"decide"})
RequestsInv ==
  /\ page \in RequestsPage /\ server \in RequestRows
  /\ \A t \in tasks : RequestsTask(t)
  /\ RequestsAwaited /\ RequestsFollow

LEMMA RequestsBegin == RequestsInit => RequestsInv
  <1> SUFFICES ASSUME RequestsInit PROVE RequestsInv
    OBVIOUS
  <1>1. PICK l : Fresh(l, "load", None) /\ tasks = {l}
    BY LoadStarts DEF RequestsInit
  <1>2. page \in RequestsPage /\ page.busy = None /\ page.list = None
    BY DEF RequestsInit, RequestsPage
  <1>3. server \in RequestRows
    BY DEF RequestsInit, RequestRows
  <1> QED BY <1>1, <1>2, <1>3
      DEF RequestsInv, RequestsTask, RequestsAwaited, RequestsFollow, Runs, Fresh

\* What leaves the list as it is, and ends no reading.
LEMMA RequestsTaps ==
  ASSUME RequestsInv, UNCHANGED <<server, stale>>, page' \in RequestsPage,
         page'.list = page.list, page'.error = page.error, tasks \subseteq tasks',
         \A u \in tasks' \ tasks : RequestsTask(u)',
         page'.busy # None => page.busy # None \/ Runs("decide")'
  PROVE  RequestsInv'
  <1>1. \A u \in tasks' : RequestsTask(u)'
    BY DEF RequestsInv, RequestsTask
  <1>2. RequestsAwaited'
    BY DEF RequestsInv, RequestsAwaited, Runs
  <1>3. RequestsFollow'
    BY DEF RequestsInv, RequestsFollow, Rereading
  <1> QED BY <1>1, <1>2, <1>3 DEF RequestsInv

LEMMA RequestsFilled ==
  ASSUME RequestsInv,
         \/ \E r \in Requests : OpenReject(r)
         \/ ChooseTransferRoom \/ CloseApprove \/ WriteRejectComment \/ CloseReject
  PROVE  RequestsInv'
  <1>1. page \in RequestsPage /\ UNCHANGED <<tasks, server, stale>>
    BY DEF RequestsInv, OpenReject, ChooseTransferRoom, CloseApprove, WriteRejectComment,
           CloseReject
  <1>2. ASSUME page' \in RequestsPage, page'.list = page.list, page'.error = page.error,
               page'.busy = page.busy
        PROVE  RequestsInv'
    BY <1>1, <1>2, RequestsTaps
  <1>3. CASE \E r \in Requests : OpenReject(r)
    BY <1>1, <1>2, <1>3 DEF OpenReject, RequestsPage
  <1>4. CASE ChooseTransferRoom
    BY <1>1, <1>2, <1>4 DEF ChooseTransferRoom, RequestsPage
  <1>5. CASE CloseApprove
    BY <1>1, <1>2, <1>5 DEF CloseApprove, RequestsPage
  <1>6. CASE WriteRejectComment
    BY <1>1, <1>2, <1>6 DEF WriteRejectComment, RequestsPage
  <1>7. CASE CloseReject
    BY <1>1, <1>2, <1>7 DEF CloseReject, RequestsPage
  <1> QED BY <1>3, <1>4, <1>5, <1>6, <1>7

LEMMA RoomsAsked ==
  ASSUME RequestsInv,
         \/ \E r \in Requests : OpenApprove(r)
         \/ \E d \in Destinations \cup {None} : ChooseTransferHouse(d)
  PROVE  RequestsInv'
  <1>1. /\ page \in RequestsPage /\ server \in RequestRows /\ UNCHANGED <<server, stale>>
    BY DEF RequestsInv, OpenApprove, ChooseTransferHouse
  <1>2. PICK d \in Destinations \cup {None} :
          /\ AskRooms(d) /\ page' \in RequestsPage /\ page'.list = page.list
          /\ page'.error = page.error /\ page'.busy = page.busy
    <2>1. CASE \E r \in Requests : OpenApprove(r)
      <3>1. PICK r \in Requests : OpenApprove(r)
        BY <2>1
      <3> DEFINE d == server.asked[r]
      <3>2. /\ d \in Destinations \cup {None} /\ AskRooms(d)
            /\ page' = [page EXCEPT !.approve = r, !.house = d, !.room = None, !.offered = None]
        BY <1>1, <3>1 DEF OpenApprove, RequestRows
      <3> HIDE DEF d
      <3> QED BY <1>1, <3>2 DEF RequestsPage
    <2>2. CASE \E d \in Destinations \cup {None} : ChooseTransferHouse(d)
      <3>1. PICK d \in Destinations \cup {None} : ChooseTransferHouse(d)
        BY <2>2
      <3> DEFINE o == IF d = None THEN None ELSE page.offered
      <3>2. /\ o \in Destinations \cup {None} /\ AskRooms(d)
            /\ page' = [page EXCEPT !.house = d, !.room = None, !.offered = o]
        BY <1>1, <3>1 DEF ChooseTransferHouse, RequestsPage
      <3> HIDE DEF o
      <3> QED BY <1>1, <3>2 DEF RequestsPage
    <2> QED BY <2>1, <2>2
  <1>3. CASE tasks' = tasks
    BY <1>1, <1>2, <1>3, RequestsTaps
  <1>4. CASE d # None /\ Start(New("rooms", d))
    <2>1. PICK u : Fresh(u, "rooms", d) /\ tasks' = tasks \cup {u}
      BY <1>4, TapStarts
    <2>2. RequestsTask(u)'
      BY <1>2, <1>4, <2>1 DEF RequestsTask, Fresh
    <2> QED BY <1>1, <1>2, <2>1, <2>2, RequestsTaps
  <1> QED BY <1>2, <1>3, <1>4 DEF AskRooms

LEMMA DecisionAsked ==
  ASSUME RequestsInv,
         HandleApprove \/ HandleReject \/ \E r \in Requests : HandleExitApprove(r)
  PROVE  RequestsInv'
  <1>1. PICK r, to, room : /\ HandleRequest(r, to, room) /\ to \in {"approved", "rejected"}
                           /\ room \in {page.room, None}
    BY DEF HandleApprove, HandleReject, HandleExitApprove
  <1> DEFINE decision == [request |-> r, to |-> to, room |-> room]
  <1>2. page \in RequestsPage /\ UNCHANGED <<server, stale>> /\ r \in Requests
    BY <1>1 DEF RequestsInv, HandleRequest, ListedRequest, RequestsPage
  <1>3. decision \in RequestDecisions
    BY <1>1, <1>2 DEF RequestDecisions, RequestsPage
  <1>4. PICK u : Fresh(u, "decide", decision) /\ tasks' = tasks \cup {u}
    BY <1>1, TapStarts DEF HandleRequest
  <1> HIDE DEF decision
  <1>5. page' \in RequestsPage /\ page'.list = page.list /\ page'.error = page.error
    BY <1>1, <1>2 DEF HandleRequest, RequestsPage
  <1>6. RequestsTask(u)' /\ Runs("decide")'
    BY <1>3, <1>4 DEF RequestsTask, Fresh, Runs
  <1> QED BY <1>2, <1>4, <1>5, <1>6, RequestsTaps

LEMMA ServeRequestsKeeps ==
  ASSUME RequestsInv, NEW t \in tasks, ServeRequests(t)
  PROVE  RequestsInv'
  <1>1. /\ RequestsTask(t) /\ t.wire = "sent" /\ page \in RequestsPage
        /\ server \in RequestRows
    BY DEF RequestsInv, ServeRequests, Awaiting
  <1>2. PICK accepts, after, reply, u :
          /\ Replied(t, u, accepts, after, reply, {"decide"})
          /\ after \in RequestRows
          /\ t.fn = "load" => after = server /\ reply = Waiting(server.decided)
    <2>1. CASE t.fn = "load" /\ Serve(t, TRUE, server, Waiting(server.decided))
      BY <1>1, <2>1, CallReplies DEF RequestsTask
    <2>2. CASE /\ t.fn = "decide"
               /\ Serve(t, server.decided[t.arg.request] = "pending",
                        [server EXCEPT !.decided[t.arg.request] = t.arg.to], None)
      <3> DEFINE accepts == server.decided[t.arg.request] = "pending"
                 decided == [server.decided EXCEPT ![t.arg.request] = t.arg.to]
                 after == [server EXCEPT !.decided = decided]
      <3>1. Serve(t, accepts, after, None)
        BY <2>2
      <3>2. decided \in [Requests -> {"pending", "approved", "rejected"}]
        BY <1>1, <2>2 DEF RequestRows, RequestsTask, RequestDecisions
      <3> HIDE DEF accepts, decided
      <3>3. after \in RequestRows
        BY <1>1, <3>2 DEF RequestRows
      <3> HIDE DEF after
      <3>4. PICK u : Replied(t, u, accepts, after, None, {"decide"})
        BY <1>1, <2>2, <3>1, CallReplies DEF RequestsTask
      <3> QED BY <2>2, <3>3, <3>4
    <2> QED BY <2>1, <2>2 DEF ServeRequests, Awaiting
  <1>3. /\ IsTask(u) /\ u.fn = t.fn /\ u.arg = t.arg /\ tasks' = (tasks \ {t}) \cup {u}
        /\ u.wire = "ok" => server' = after /\ u.reply = reply
        /\ UNCHANGED page /\ server' \in RequestRows
    BY <1>1, <1>2 DEF Replied
  <1>4. \A v \in tasks \ {t} : RequestsTask(v)'
    BY <1>2 DEF RequestsInv, RequestsTask, Replied, OnItsWay
  <1>5. \A f : Waiting(f) \in SUBSET Requests
    BY DEF Waiting
  <1>6. RequestsTask(u)'
    BY <1>1, <1>2, <1>3, <1>5 DEF RequestsTask
  <1>7. RequestsAwaited'
    BY <1>3 DEF RequestsInv, RequestsAwaited, Runs
  <1>8. RequestsFollow'
    BY <1>2, <1>3 DEF RequestsInv, RequestsFollow, Replied
  <1> QED BY <1>1, <1>3, <1>4, <1>6, <1>7, <1>8 DEF RequestsInv

LEMMA RequestsReply ==
  ASSUME RequestsInv, NEW t \in tasks,
         \/ RequestsLoadReturns(t) \/ RequestDecided(t)
         \/ \E ok \in BOOLEAN : RoomsForDormitory(t, ok)
  PROVE  RequestsInv'
  <1>1. /\ RequestsTask(t) /\ page \in RequestsPage /\ UNCHANGED <<server, stale>>
    BY DEF RequestsInv, RequestsLoadReturns, RequestDecided, RoomsForDormitory
  <1>2. CASE RequestsLoadReturns(t)
    <2>1. /\ t.fn = "load" /\ tasks' = tasks \ {t} /\ page' \in RequestsPage
          /\ page'.busy = page.busy
          /\ IF t.wire = "ok" THEN page'.list = t.reply /\ t.reply \in SUBSET Requests
             ELSE page'.error
      BY <1>1, <1>2 DEF RequestsLoadReturns, End, RequestsPage, RequestsTask
    <2>2. \A v \in tasks' : RequestsTask(v)'
      BY <1>1, <2>1 DEF RequestsInv, RequestsTask
    <2>3. page'.list # None \/ page'.error
      BY <2>1, RequestsAssumption
    <2>4. RequestsAwaited'
      BY <1>1, <2>1, <2>3 DEF RequestsInv, RequestsAwaited, Runs
    <2>5. RequestsFollow'
      BY <1>1, <2>1 DEF RequestsFollow, RequestsTask
    <2> QED BY <1>1, <2>1, <2>2, <2>4, <2>5 DEF RequestsInv
  <1>3. CASE RequestDecided(t) /\ t.wire = "failed"
    <2>1. /\ t.fn = "decide" /\ tasks' = tasks \ {t} /\ page' \in RequestsPage
          /\ page'.busy = None /\ page'.list = page.list /\ page'.error = page.error
      BY <1>1, <1>3 DEF RequestDecided, End, RequestsPage
    <2>2. \A v \in tasks' : RequestsTask(v)'
      BY <1>1, <2>1 DEF RequestsInv, RequestsTask
    <2>3. RequestsAwaited'
      BY <1>1, <2>1 DEF RequestsInv, RequestsAwaited, Runs
    <2>4. Rereading(tasks, {"decide"}) => Rereading(tasks', {"decide"})
      BY <1>3, <2>1 DEF Rereading
    <2>5. RequestsFollow'
      BY <1>1, <2>1, <2>4 DEF RequestsInv, RequestsFollow
    <2> QED BY <1>1, <2>1, <2>2, <2>3, <2>5 DEF RequestsInv
  <1>4. CASE RequestDecided(t) /\ t.wire # "failed"
    <2>1. PICK u : Fresh(u, "load", None) /\ tasks' = (tasks \ {t}) \cup {u}
      BY <1>4, GoesOn DEF RequestDecided
    <2> DEFINE approve == IF t.arg.to = "approved" THEN None ELSE page.approve
               reject == IF t.arg.to = "rejected" THEN None ELSE page.reject
               comment == page.comment /\ t.arg.to # "rejected"
    <2>2. /\ approve \in Requests \cup {None} /\ reject \in Requests \cup {None}
          /\ comment \in BOOLEAN /\ t.fn = "decide"
          /\ page' = [page EXCEPT !.busy = None, !.list = None, !.approve = approve,
                        !.reject = reject, !.comment = comment]
      BY <1>1, <1>4 DEF RequestDecided, RequestsPage
    <2> HIDE DEF approve, reject, comment
    <2>3. /\ page' \in RequestsPage /\ page'.busy = None /\ page'.list = None
          /\ page'.error = page.error
      BY <1>1, <2>2 DEF RequestsPage
    <2>4. \A v \in tasks' : RequestsTask(v)'
      BY <1>1, <2>1 DEF RequestsInv, RequestsTask, Fresh
    <2>5. RequestsAwaited' /\ RequestsFollow'
      BY <2>1, <2>3 DEF RequestsAwaited, RequestsFollow, Runs, Fresh
    <2> QED BY <1>1, <2>3, <2>4, <2>5 DEF RequestsInv
  <1>5. CASE \E ok \in BOOLEAN : RoomsForDormitory(t, ok)
    <2>1. PICK ok \in BOOLEAN : RoomsForDormitory(t, ok)
      BY <1>5
    <2> DEFINE d == IF ok THEN t.arg ELSE None
    <2>2. /\ t.fn = "rooms" /\ d \in Destinations \cup {None} /\ tasks' = tasks \ {t}
          /\ page' = [page EXCEPT !.offered = d]
      BY <1>1, <2>1 DEF RoomsForDormitory, Awaiting, RequestsTask, End
    <2> HIDE DEF d
    <2>3. /\ page' \in RequestsPage /\ page'.busy = page.busy /\ page'.list = page.list
          /\ page'.error = page.error
      BY <1>1, <2>2 DEF RequestsPage
    <2>4. \A v \in tasks' : RequestsTask(v)'
      BY <1>1, <2>2 DEF RequestsInv, RequestsTask
    <2>5. RequestsAwaited'
      BY <2>2, <2>3 DEF RequestsInv, RequestsAwaited, Runs
    <2>6. Rereading(tasks, {"decide"}) => Rereading(tasks', {"decide"})
      BY <2>2 DEF Rereading
    <2>7. RequestsFollow'
      BY <1>1, <2>3, <2>6 DEF RequestsInv, RequestsFollow
    <2> QED BY <1>1, <2>3, <2>4, <2>5, <2>7 DEF RequestsInv
  <1> QED BY <1>2, <1>3, <1>4, <1>5

LEMMA RequestsKept == RequestsInv /\ RequestsNext => RequestsInv'
  BY RequestsFilled, RoomsAsked, DecisionAsked, ServeRequestsKeeps, RequestsReply
     DEF RequestsNext
LEMMA RequestsIdle == RequestsInv /\ UNCHANGED vars => RequestsInv'
  BY DEF vars, RequestsInv, RequestsTask, RequestsAwaited, RequestsFollow, Runs
LEMMA RequestsRest ==
  RequestsInv /\ tasks = {} => ~RequestsBusy /\ (~stale => RequestsAgree)
  BY DEF RequestsInv, RequestsAwaited, RequestsFollow, Rereading, Runs, RequestsBusy,
         RequestsAgree

------------------------------------------------------------------------------
\* A protocol with its votes: what was settled stays so, and what has gone does
\* not come back.

ProtocolRows ==
  [there : BOOLEAN, status : {"pending", "approved"}, vote : {None, "approved", "rejected"},
   others : BOOLEAN]
ProtocolPage ==
  [at : {"protocol"}, shown : ProtocolRows \cup {None}, error : BOOLEAN,
   preview : {None, "pending", "approved"}, asking : BOOLEAN, deleting : BOOLEAN,
   form : BOOLEAN, reason : BOOLEAN, voting : BOOLEAN, voteError : BOOLEAN,
   deleteError : BOOLEAN, left : BOOLEAN, previewError : BOOLEAN]
\* No status is shown that the protocol does not have, or have had.
Reached(status) ==
  status \in {"pending", "approved"} /\ (status = "approved" => server.status = "approved")
ProtocolTask(t) ==
  /\ IsTask(t) /\ t.fn \in {"load", "preview", "vote", "delete"}
  /\ t.fn = "load" /\ t.wire = "ok" =>
       t.reply \in ProtocolRows /\ Reached(t.reply.status) /\ (~stale => t.reply = server)
  /\ t.fn = "preview" => Reached(t.arg)
  /\ t.fn = "vote" => t.arg \in {"approved", "rejected"}
  /\ t.fn = "delete" /\ t.wire = "ok" => ~server.there
ProtocolAwaited ==
  /\ page.deleting /\ ~page.left => Runs("delete")
  /\ page.voting => Runs("vote")
  /\ page.shown = None /\ ~page.error => Runs("load")
  /\ page.shown # None /\ page.preview = None /\ ~page.previewError => Runs("preview")
ProtocolFollows ==
  ~stale /\ Seen => page.shown = server \/ Rereading(tasks, {"vote", "delete"})
ProtocolInv ==
  /\ page \in ProtocolPage /\ server \in ProtocolRows
  /\ server.status = "approved" => server.others
  /\ page.preview # None => Reached(page.preview)
  /\ \A t \in tasks : ProtocolTask(t)
  /\ ProtocolAwaited /\ ProtocolFollows /\ ProtocolDone

LEMMA ProtocolBegins == ProtocolInit => ProtocolInv
  <1> SUFFICES ASSUME ProtocolInit PROVE ProtocolInv
    OBVIOUS
  <1>1. PICK l : Fresh(l, "load", None) /\ tasks = {l}
    BY LoadStarts DEF ProtocolInit
  <1>2. /\ page \in ProtocolPage /\ ~page.deleting /\ ~page.voting /\ ~page.left
        /\ page.shown = None /\ page.preview = None
    BY DEF ProtocolInit, ProtocolPage
  <1>3. server \in ProtocolRows /\ server.status = "pending"
    BY DEF ProtocolInit, ProtocolRows
  <1>4. ProtocolTask(l)
    BY <1>1 DEF ProtocolTask, Fresh
  <1> QED BY <1>1, <1>2, <1>3, <1>4
      DEF ProtocolInv, ProtocolAwaited, ProtocolFollows, ProtocolDone, Seen, Runs, Fresh

\* What leaves the protocol as it is, and ends no reading.
LEMMA ProtocolTaps ==
  ASSUME ProtocolInv, UNCHANGED <<server, stale>>, page' \in ProtocolPage,
         page'.shown = page.shown, page'.error = page.error, page'.left = page.left,
         page'.preview = page.preview, page'.previewError = page.previewError,
         tasks \subseteq tasks',
         \A u \in tasks' \ tasks : ProtocolTask(u)',
         page'.deleting => page.deleting \/ Runs("delete")',
         page'.voting => page.voting \/ Runs("vote")'
  PROVE  ProtocolInv'
  <1>1. \A u \in tasks' : ProtocolTask(u)'
    BY DEF ProtocolInv, ProtocolTask, Reached
  <1>2. ProtocolAwaited'
    BY DEF ProtocolInv, ProtocolAwaited, Runs
  <1>3. ProtocolFollows' /\ ProtocolDone'
    BY DEF ProtocolInv, ProtocolFollows, ProtocolDone, Rereading, Seen
  <1>4. page'.preview # None => Reached(page.preview)'
    BY DEF ProtocolInv, Reached
  <1> QED BY <1>1, <1>2, <1>3, <1>4 DEF ProtocolInv

LEMMA ProtocolAsked ==
  ASSUME ProtocolInv,
         \/ AskDeleteProtocol \/ CancelDeleteProtocol \/ OpenRejectForm \/ WriteReason
         \/ CloseRejectForm \/ DeleteProtocol
         \/ \E v \in {"approved", "rejected"} : HandleVote(v)
  PROVE  ProtocolInv'
  <1>1. page \in ProtocolPage /\ UNCHANGED <<server, stale>>
    BY DEF ProtocolInv, AskDeleteProtocol, CancelDeleteProtocol, OpenRejectForm,
           WriteReason,
           CloseRejectForm, DeleteProtocol, HandleVote
  <1>2. ASSUME page' \in ProtocolPage, tasks' = tasks,
               page'.shown = page.shown, page'.error = page.error, page'.left = page.left,
               page'.preview = page.preview, page'.previewError = page.previewError,
               page'.deleting = page.deleting,
               page'.voting = page.voting
        PROVE  ProtocolInv'
    BY <1>1, <1>2, ProtocolTaps
  <1>3. CASE AskDeleteProtocol
    BY <1>1, <1>2, <1>3 DEF AskDeleteProtocol, ProtocolPage
  <1>4. CASE CancelDeleteProtocol
    BY <1>1, <1>2, <1>4 DEF CancelDeleteProtocol, ProtocolPage
  <1>5. CASE OpenRejectForm
    BY <1>1, <1>2, <1>5 DEF OpenRejectForm, ProtocolPage
  <1>6. CASE WriteReason
    BY <1>1, <1>2, <1>6 DEF WriteReason, ProtocolPage
  <1>7. CASE CloseRejectForm
    BY <1>1, <1>2, <1>7 DEF CloseRejectForm, ProtocolPage
  <1>8. CASE DeleteProtocol
    <2>1. PICK u : Fresh(u, "delete", None) /\ tasks' = tasks \cup {u}
      BY <1>8, TapStarts DEF DeleteProtocol
    <2>2. /\ page' \in ProtocolPage /\ page'.shown = page.shown /\ page'.error = page.error
          /\ page'.left = page.left /\ page'.preview = page.preview
          /\ page'.previewError = page.previewError
          /\ page'.voting = page.voting
      BY <1>1, <1>8 DEF DeleteProtocol, ProtocolPage
    <2>3. ProtocolTask(u)' /\ Runs("delete")'
      BY <2>1 DEF ProtocolTask, Fresh, Runs
    <2> QED BY <1>1, <2>1, <2>2, <2>3, ProtocolTaps
  <1>9. CASE \E v \in {"approved", "rejected"} : HandleVote(v)
    <2>1. PICK v \in {"approved", "rejected"} : HandleVote(v)
      BY <1>9
    <2>2. PICK u : Fresh(u, "vote", v) /\ tasks' = tasks \cup {u}
      BY <2>1, TapStarts DEF HandleVote
    <2>3. /\ page' \in ProtocolPage /\ page'.shown = page.shown /\ page'.error = page.error
          /\ page'.left = page.left /\ page'.preview = page.preview
          /\ page'.previewError = page.previewError
          /\ page'.deleting = page.deleting
      BY <1>1, <2>1 DEF HandleVote, ProtocolPage
    <2>4. ProtocolTask(u)' /\ Runs("vote")'
      BY <2>2 DEF ProtocolTask, Fresh, Runs
    <2> QED BY <1>1, <2>2, <2>3, <2>4, ProtocolTaps
  <1> QED BY <1>3, <1>4, <1>5, <1>6, <1>7, <1>8, <1>9

\* How the rows change.
Settles(after) ==
  /\ after \in ProtocolRows /\ (after.status = "approved" => after.others)
  /\ server.status = "approved" => after.status = "approved"
  /\ after.there => server.there

LEMMA ServeProtocolKeeps ==
  ASSUME ProtocolInv, NEW t \in tasks, ServeProtocol(t)
  PROVE  ProtocolInv'
  <1>1. /\ ProtocolTask(t) /\ t.wire = "sent" /\ t.fn # "preview"
        /\ page \in ProtocolPage /\ server \in ProtocolRows
        /\ server.status = "approved" => server.others
    BY DEF ProtocolInv, ServeProtocol, Awaiting
  <1>2. PICK accepts, after, reply, u :
          /\ Replied(t, u, accepts, after, reply, {"vote", "delete"})
          /\ accepts => Settles(after)
          /\ t.fn = "load" => after = server /\ reply = server
          /\ t.fn = "delete" => ~after.there
    <2>1. CASE t.fn = "load" /\ Serve(t, server.there, server, server)
      <3>1. PICK u : Replied(t, u, server.there, server, server, {"vote", "delete"})
        BY <1>1, <2>1, CallReplies DEF ProtocolTask
      <3>2. Settles(server)
        BY <1>1 DEF Settles
      <3> QED BY <2>1, <3>1, <3>2
    <2>2. CASE /\ t.fn = "vote"
               /\ Serve(t, server.there /\ server.status = "pending",
                        [server EXCEPT !.vote = t.arg,
                                       !.status = Settled(t.arg, server.others)], None)
      <3> DEFINE accepts == server.there /\ server.status = "pending"
                 status == Settled(t.arg, server.others)
                 after == [server EXCEPT !.vote = t.arg, !.status = status]
      <3>1. Serve(t, accepts, after, None)
        BY <2>2
      <3>2. /\ status \in {"pending", "approved"} /\ (status = "approved" => server.others)
            /\ t.arg \in {"approved", "rejected"}
        BY <1>1, <2>2 DEF Settled, ProtocolTask
      <3> HIDE DEF status
      <3>3. accepts => Settles(after)
        BY <1>1, <3>2 DEF Settles, ProtocolRows
      <3> HIDE DEF accepts, after
      <3>4. PICK u : Replied(t, u, accepts, after, None, {"vote", "delete"})
        BY <1>1, <2>2, <3>1, CallReplies DEF ProtocolTask
      <3> QED BY <2>2, <3>3, <3>4
    <2>3. CASE /\ t.fn = "delete"
               /\ Serve(t, server.there /\ server.status = "pending",
                        [server EXCEPT !.there = FALSE], None)
      <3> DEFINE accepts == server.there /\ server.status = "pending"
                 after == [server EXCEPT !.there = FALSE]
      <3>1. Serve(t, accepts, after, None)
        BY <2>3
      <3>2. (accepts => Settles(after)) /\ ~after.there
        BY <1>1 DEF Settles, ProtocolRows
      <3> HIDE DEF accepts, after
      <3>3. PICK u : Replied(t, u, accepts, after, None, {"vote", "delete"})
        BY <1>1, <2>3, <3>1, CallReplies DEF ProtocolTask
      <3> QED BY <2>3, <3>2, <3>3
    <2> QED BY <2>1, <2>2, <2>3 DEF ServeProtocol, Awaiting
  <1>3. /\ IsTask(u) /\ u.fn = t.fn /\ u.arg = t.arg /\ tasks' = (tasks \ {t}) \cup {u}
        /\ u.wire = "ok" => server' = after /\ u.reply = reply
        /\ UNCHANGED page
    BY <1>2 DEF Replied
  <1>4. Settles(server')
    <2>1. CASE server' = server
      BY <1>1, <2>1 DEF Settles
    <2>2. CASE server' # server
      BY <1>2, <2>2 DEF Replied
    <2> QED BY <2>1, <2>2
  <1>5. \A v \in tasks \ {t} : ProtocolTask(v)'
    BY <1>2, <1>4 DEF ProtocolInv, ProtocolTask, Replied, OnItsWay, Reached, Settles
  <1>6. ProtocolTask(u)'
    BY <1>1, <1>2, <1>3, <1>4 DEF ProtocolTask, Reached, ProtocolRows
  <1>7. ProtocolAwaited'
    BY <1>3 DEF ProtocolInv, ProtocolAwaited, Runs
  <1>8. ProtocolFollows'
    BY <1>2, <1>3 DEF ProtocolInv, ProtocolFollows, Replied, Seen
  <1>9. ProtocolDone' /\ (page'.preview # None => Reached(page.preview)')
    BY <1>3, <1>4 DEF ProtocolInv, ProtocolDone, Reached, Settles
  <1> QED BY <1>1, <1>3, <1>4, <1>5, <1>6, <1>7, <1>8, <1>9 DEF ProtocolInv, Settles

LEMMA ProtocolRead ==
  ASSUME ProtocolInv, NEW t \in tasks, ProtocolLoadReturns(t)
  PROVE  ProtocolInv'
  <1>1. /\ ProtocolTask(t) /\ page \in ProtocolPage /\ UNCHANGED <<server, stale>>
        /\ t.wire \in {"ok", "failed"} /\ t.fn = "load"
    BY DEF ProtocolInv, ProtocolLoadReturns, ProtocolTask, IsTask
  <1>2. CASE t.wire = "failed"
    <2>1. /\ tasks' = tasks \ {t} /\ page' \in ProtocolPage /\ page'.error
          /\ page'.shown = page.shown /\ page'.left = page.left
          /\ page'.preview = page.preview /\ page'.deleting = page.deleting
          /\ page'.previewError = page.previewError
          /\ page'.voting = page.voting
      BY <1>1, <1>2 DEF ProtocolLoadReturns, End, ProtocolPage
    <2>2. \A v \in tasks' : ProtocolTask(v)'
      BY <1>1, <2>1 DEF ProtocolInv, ProtocolTask, Reached
    <2>3. ProtocolAwaited'
      BY <1>1, <2>1 DEF ProtocolInv, ProtocolAwaited, Runs
    <2>4. ProtocolFollows' /\ ProtocolDone' /\ (page'.preview # None => Reached(page.preview)')
      BY <1>1, <2>1 DEF ProtocolInv, ProtocolFollows, ProtocolDone, Seen, Reached
    <2> QED BY <1>1, <2>1, <2>2, <2>3, <2>4 DEF ProtocolInv
  <1>3. CASE t.wire = "ok"
    <2> DEFINE p == Task("preview", 1, t.reply.status)
    <2>1. /\ tasks' = {u \in tasks \ {t} : u.fn # "preview"} \cup {p}
          /\ page' = [page EXCEPT !.shown = t.reply]
      BY <1>3 DEF ProtocolLoadReturns
    <2>2. Fresh(p, "preview", t.reply.status)
      BY FirstTask DEF Fresh
    <2> HIDE DEF p
    <2>3. /\ page' \in ProtocolPage /\ page'.shown = t.reply /\ page'.left = page.left
          /\ page'.preview = page.preview /\ page'.deleting = page.deleting
          /\ page'.previewError = page.previewError
          /\ page'.voting = page.voting /\ t.reply # None /\ Reached(t.reply.status)
      BY <1>1, <1>3, <2>1, ProtocolAssumption DEF ProtocolPage, ProtocolTask, ProtocolRows
    <2>4. ProtocolTask(p)'
      BY <1>1, <2>2, <2>3 DEF ProtocolTask, Reached, Fresh
    <2>5. \A v \in tasks' : ProtocolTask(v)'
      BY <1>1, <2>1, <2>4 DEF ProtocolInv, ProtocolTask, Reached
    <2>6. ProtocolAwaited'
      BY <1>1, <2>1, <2>2, <2>3 DEF ProtocolInv, ProtocolAwaited, Runs, Fresh
    <2>7. ProtocolFollows' /\ ProtocolDone' /\ (page'.preview # None => Reached(page.preview)')
      BY <1>1, <1>3, <2>3 DEF ProtocolInv, ProtocolFollows, ProtocolDone, Reached,
                              ProtocolTask
    <2> QED BY <1>1, <2>3, <2>5, <2>6, <2>7 DEF ProtocolInv
  <1> QED BY <1>1, <1>2, <1>3

LEMMA ProtocolReplies ==
  ASSUME ProtocolInv, NEW t \in tasks,
         \/ DeleteProtocolReturns(t) \/ VoteReturns(t)
         \/ \E ok \in BOOLEAN : PreviewReturns(t, ok)
  PROVE  ProtocolInv'
  <1>1. /\ ProtocolTask(t) /\ page \in ProtocolPage /\ UNCHANGED <<server, stale>>
        /\ t.wire \in {"sent", "ok", "failed"}
    BY DEF ProtocolInv, DeleteProtocolReturns, VoteReturns, PreviewReturns, ProtocolTask,
           IsTask
  <1>2. CASE DeleteProtocolReturns(t)
    <2>1. /\ t.fn = "delete" /\ tasks' = tasks \ {t} /\ page' \in ProtocolPage
          /\ page'.shown = page.shown /\ page'.error = page.error
          /\ page'.preview = page.preview /\ page'.voting = page.voting
          /\ page'.previewError = page.previewError
          /\ IF t.wire = "ok" THEN page'.left ELSE page'.left = page.left /\ ~page'.deleting
      BY <1>1, <1>2 DEF DeleteProtocolReturns, End, ProtocolPage
    <2>2. \A v \in tasks' : ProtocolTask(v)'
      BY <1>1, <2>1 DEF ProtocolInv, ProtocolTask, Reached
    <2>3. ProtocolAwaited'
      BY <1>1, <2>1 DEF ProtocolInv, ProtocolAwaited, Runs
    <2>4. t.wire # "ok" => (Rereading(tasks, {"vote", "delete"})
                             => Rereading(tasks', {"vote", "delete"}))
      BY <2>1 DEF Rereading
    <2>5. ProtocolFollows'
      BY <1>1, <2>1, <2>4 DEF ProtocolInv, ProtocolFollows, Seen
    <2>6. ProtocolDone' /\ (page'.preview # None => Reached(page.preview)')
      BY <1>1, <2>1 DEF ProtocolInv, ProtocolDone, ProtocolTask, Reached
    <2> QED BY <1>1, <2>1, <2>2, <2>3, <2>5, <2>6 DEF ProtocolInv
  <1>3. CASE VoteReturns(t)
    <2> DEFINE failed == ~(t.wire = "ok")
               form == page.form /\ ~(t.wire = "ok" /\ t.arg = "rejected")
               reason == page.reason /\ ~(t.wire = "ok" /\ t.arg = "rejected")
    <2>1. /\ failed \in BOOLEAN /\ form \in BOOLEAN /\ reason \in BOOLEAN /\ t.fn = "vote"
          /\ page' = [page EXCEPT !.voting = FALSE, !.voteError = failed, !.form = form,
                        !.reason = reason]
      BY <1>1, <1>3 DEF VoteReturns, ProtocolPage
    <2> HIDE DEF failed, form, reason
    <2>2. /\ page' \in ProtocolPage /\ page'.shown = page.shown /\ page'.error = page.error
          /\ page'.left = page.left /\ page'.preview = page.preview
          /\ page'.previewError = page.previewError
          /\ page'.deleting = page.deleting /\ ~page'.voting
      BY <1>1, <2>1 DEF ProtocolPage
    <2>3. PICK asked : Again(t, asked, {"vote", "delete"})
      BY <1>3, <2>1, ReadsAgain DEF VoteReturns
    <2>4. \A v \in tasks' : ProtocolTask(v)'
      BY <1>1, <2>3 DEF ProtocolInv, ProtocolTask, Reached, Again, Fresh
    <2>5. ProtocolAwaited'
      BY <2>1, <2>2, <2>3 DEF ProtocolInv, ProtocolAwaited, Again, Runs
    <2>6. ProtocolFollows'
      BY <1>1, <2>2, <2>3 DEF ProtocolInv, ProtocolFollows, Again, Seen
    <2>7. ProtocolDone' /\ (page'.preview # None => Reached(page.preview)')
      BY <1>1, <2>2 DEF ProtocolInv, ProtocolDone, Reached
    <2> QED BY <1>1, <2>2, <2>4, <2>5, <2>6, <2>7 DEF ProtocolInv
  <1>4. CASE \E ok \in BOOLEAN : PreviewReturns(t, ok)
    <2>1. PICK ok \in BOOLEAN : PreviewReturns(t, ok)
      BY <1>4
    <2>2. /\ t.fn = "preview" /\ tasks' = tasks \ {t} /\ Reached(t.arg)
          /\ \/ page' = [page EXCEPT !.previewError = TRUE]
             \/ page' = [page EXCEPT !.preview = t.arg]
      BY <1>1, <2>1 DEF PreviewReturns, Awaiting, End, ProtocolTask
    <2>3. /\ page' \in ProtocolPage /\ page'.shown = page.shown /\ page'.error = page.error
          /\ page'.left = page.left /\ page'.voting = page.voting
          /\ page'.deleting = page.deleting /\ page'.preview \in {page.preview, t.arg}
          /\ page'.preview # None \/ page'.previewError
      BY <1>1, <2>2, ProtocolAssumption DEF ProtocolPage, Reached
    <2>4. \A v \in tasks' : ProtocolTask(v)'
      BY <1>1, <2>2 DEF ProtocolInv, ProtocolTask, Reached
    <2>5. ProtocolAwaited'
      BY <2>2, <2>3 DEF ProtocolInv, ProtocolAwaited, Runs
    <2>6. Rereading(tasks, {"vote", "delete"}) => Rereading(tasks', {"vote", "delete"})
      BY <2>2 DEF Rereading
    <2>7. ProtocolFollows' /\ ProtocolDone'
      BY <1>1, <2>3, <2>6 DEF ProtocolInv, ProtocolFollows, ProtocolDone, Seen
    <2>8. page'.preview # None => Reached(page.preview)'
      BY <1>1, <2>2, <2>3 DEF ProtocolInv, Reached
    <2> QED BY <1>1, <2>3, <2>4, <2>5, <2>7, <2>8 DEF ProtocolInv
  <1> QED BY <1>2, <1>3, <1>4

LEMMA OthersVoteKeeps ==
  ASSUME ProtocolInv, OthersVote
  PROVE  ProtocolInv'
  <1> DEFINE status == Settled(server.vote, TRUE)
  <1>1. /\ server' = [server EXCEPT !.others = TRUE, !.status = status] /\ stale'
        /\ UNCHANGED <<page, tasks>> /\ status \in {"pending", "approved"}
        /\ server.status = "pending" /\ server \in ProtocolRows
    BY DEF ProtocolInv, OthersVote, Elsewhere, Settled, ProtocolRows
  <1> HIDE DEF status
  <1>2. server' \in ProtocolRows /\ server'.others /\ server'.there = server.there
    BY <1>1 DEF ProtocolRows
  <1>3. \A v \in tasks' : ProtocolTask(v)'
    BY <1>1, <1>2 DEF ProtocolInv, ProtocolTask, Reached
  <1> QED BY <1>1, <1>2, <1>3
      DEF ProtocolInv, ProtocolAwaited, ProtocolFollows, ProtocolDone, Reached, Runs

LEMMA ProtocolKept == ProtocolInv /\ ProtocolNext => ProtocolInv'
  BY ProtocolAsked, ServeProtocolKeeps, ProtocolRead, ProtocolReplies, OthersVoteKeeps
     DEF ProtocolNext
LEMMA ProtocolIdle == ProtocolInv /\ UNCHANGED vars => ProtocolInv'
  BY DEF vars, ProtocolInv, ProtocolTask, ProtocolAwaited, ProtocolFollows, ProtocolDone,
         Reached, Runs, Seen
LEMMA ProtocolRest ==
  ProtocolInv =>
    ProtocolDone /\ (tasks = {} => ~ProtocolBusy /\ (~stale => ProtocolAgrees))
  BY DEF ProtocolInv, ProtocolAwaited, ProtocolFollows, Rereading, Runs, ProtocolBusy,
         ProtocolAgrees, Reached, Seen

------------------------------------------------------------------------------
\* The list of the protocols: read, then enriched row by row, then shown.

ProtocolStates == [Candidates -> {"pending", "approved", "deleted"}]
ProtocolsPage ==
  [at : {"protocols"}, list : ProtocolStates \cup {None}, error : BOOLEAN,
   delete : Candidates \cup {None}, deleting : BOOLEAN, deleteError : BOOLEAN]
ProtocolsTask(t) ==
  /\ IsTask(t) /\ t.fn \in {"load", "enrich", "delete"}
  /\ t.fn = "delete" => t.arg \in Candidates
  /\ t.fn = "load" /\ t.wire = "ok" =>
       t.reply \in ProtocolStates /\ (~stale => t.reply = server)
  /\ t.fn = "enrich" => t.arg \in ProtocolStates /\ (~stale => t.arg = server)
ProtocolsAwaited ==
  /\ page.deleting => Runs("delete")
  /\ page.list = None /\ ~page.error => Runs("load") \/ Runs("enrich")
ProtocolsFollow ==
  ~stale /\ page.list # None /\ ~page.error =>
    page.list = server \/ Rereading(tasks, {"delete"}) \/ Runs("enrich")
ProtocolsInv ==
  /\ page \in ProtocolsPage /\ server \in ProtocolStates
  /\ \A t \in tasks : ProtocolsTask(t)
  /\ ProtocolsAwaited /\ ProtocolsFollow

LEMMA ProtocolsBegin == ProtocolsInit => ProtocolsInv
  <1> SUFFICES ASSUME ProtocolsInit PROVE ProtocolsInv
    OBVIOUS
  <1>1. PICK l : Fresh(l, "load", None) /\ tasks = {l}
    BY LoadStarts DEF ProtocolsInit
  <1>2. page \in ProtocolsPage /\ ~page.deleting /\ page.list = None
    BY DEF ProtocolsInit, ProtocolsPage
  <1>3. server \in ProtocolStates
    BY DEF ProtocolsInit, ProtocolStates
  <1> QED BY <1>1, <1>2, <1>3
      DEF ProtocolsInv, ProtocolsTask, ProtocolsAwaited, ProtocolsFollow, Runs, Fresh

LEMMA ProtocolsAsked ==
  ASSUME ProtocolsInv,
         (\E p \in Candidates : AskDeleteRow(p)) \/ CancelDeleteRow \/ HandleDeleteRow
  PROVE  ProtocolsInv'
  <1>1. page \in ProtocolsPage /\ UNCHANGED <<server, stale>>
    BY DEF ProtocolsInv, AskDeleteRow, CancelDeleteRow, HandleDeleteRow
  <1>2. ASSUME page' \in ProtocolsPage, tasks' = tasks, page'.list = page.list,
               page'.error = page.error, page'.deleting = page.deleting
        PROVE  ProtocolsInv'
    BY <1>1, <1>2
       DEF ProtocolsInv, ProtocolsTask, ProtocolsAwaited, ProtocolsFollow, Runs, Rereading
  <1>3. CASE \E p \in Candidates : AskDeleteRow(p)
    BY <1>1, <1>2, <1>3 DEF AskDeleteRow, ProtocolsPage
  <1>4. CASE CancelDeleteRow
    BY <1>1, <1>2, <1>4 DEF CancelDeleteRow, ProtocolsPage
  <1>5. CASE HandleDeleteRow
    <2>1. PICK u : Fresh(u, "delete", page.delete) /\ tasks' = tasks \cup {u}
      BY <1>5, TapStarts DEF HandleDeleteRow
    <2>2. /\ page' \in ProtocolsPage /\ page'.list = page.list /\ page'.error = page.error
          /\ page.delete \in Candidates
      BY <1>1, <1>5 DEF HandleDeleteRow, ProtocolsPage
    <2>3. \A v \in tasks' : ProtocolsTask(v)'
      BY <1>1, <2>1, <2>2 DEF ProtocolsInv, ProtocolsTask, Fresh
    <2>4. ProtocolsAwaited' /\ ProtocolsFollow'
      BY <1>1, <2>1, <2>2
         DEF ProtocolsInv, ProtocolsAwaited, ProtocolsFollow, Runs, Rereading, Fresh
    <2> QED BY <1>1, <2>2, <2>3, <2>4 DEF ProtocolsInv
  <1> QED BY <1>3, <1>4, <1>5

LEMMA ServeProtocolsKeeps ==
  ASSUME ProtocolsInv, NEW t \in tasks, ServeProtocols(t)
  PROVE  ProtocolsInv'
  <1>1. /\ ProtocolsTask(t) /\ t.wire = "sent" /\ t.fn # "enrich"
        /\ page \in ProtocolsPage /\ server \in ProtocolStates
    BY DEF ProtocolsInv, ServeProtocols, Awaiting
  <1>2. PICK accepts, after, reply, u :
          /\ Replied(t, u, accepts, after, reply, {"delete"})
          /\ after \in ProtocolStates
          /\ t.fn = "load" => after = server /\ reply = server
    <2>1. CASE t.fn = "load" /\ Serve(t, TRUE, server, server)
      BY <1>1, <2>1, CallReplies DEF ProtocolsTask
    <2>2. CASE /\ t.fn = "delete"
               /\ Serve(t, server[t.arg] = "pending",
                        [server EXCEPT ![t.arg] = "deleted"], None)
      <3> DEFINE accepts == server[t.arg] = "pending"
                 after == [server EXCEPT ![t.arg] = "deleted"]
      <3>1. Serve(t, accepts, after, None)
        BY <2>2
      <3>2. after \in ProtocolStates
        BY <1>1, <2>2 DEF ProtocolsTask, ProtocolStates
      <3> HIDE DEF accepts, after
      <3>3. PICK u : Replied(t, u, accepts, after, None, {"delete"})
        BY <1>1, <2>2, <3>1, CallReplies DEF ProtocolsTask
      <3> QED BY <2>2, <3>2, <3>3
    <2> QED BY <2>1, <2>2 DEF ServeProtocols, Awaiting
  <1>3. /\ IsTask(u) /\ u.fn = t.fn /\ u.arg = t.arg /\ tasks' = (tasks \ {t}) \cup {u}
        /\ u.wire = "ok" => server' = after /\ u.reply = reply
        /\ UNCHANGED page /\ server' \in ProtocolStates
    BY <1>1, <1>2 DEF Replied
  <1>4. \A v \in tasks \ {t} : ProtocolsTask(v)'
    BY <1>2 DEF ProtocolsInv, ProtocolsTask, Replied, OnItsWay
  <1>5. ProtocolsTask(u)'
    BY <1>1, <1>2, <1>3 DEF ProtocolsTask
  <1>6. ProtocolsAwaited' /\ (Runs("enrich") => Runs("enrich")')
    BY <1>3 DEF ProtocolsInv, ProtocolsAwaited, Runs
  <1>7. ProtocolsFollow'
    BY <1>2, <1>3, <1>6 DEF ProtocolsInv, ProtocolsFollow, Replied
  <1> QED BY <1>1, <1>3, <1>4, <1>5, <1>6, <1>7 DEF ProtocolsInv

LEMMA ProtocolsReply ==
  ASSUME ProtocolsInv, NEW t \in tasks,
         ProtocolsLoadReturns(t) \/ EnrichReturns(t) \/ DeleteRowReturns(t)
  PROVE  ProtocolsInv'
  <1>1. /\ ProtocolsTask(t) /\ page \in ProtocolsPage /\ UNCHANGED <<server, stale>>
    BY DEF ProtocolsInv, ProtocolsLoadReturns, EnrichReturns, DeleteRowReturns
  <1>2. CASE ProtocolsLoadReturns(t) /\ t.wire = "failed"
    <2>1. /\ t.fn = "load" /\ tasks' = tasks \ {t} /\ page' \in ProtocolsPage
          /\ page'.deleting = page.deleting /\ page'.error
      BY <1>1, <1>2 DEF ProtocolsLoadReturns, End, ProtocolsPage
    <2>2. \A v \in tasks' : ProtocolsTask(v)'
      BY <1>1, <2>1 DEF ProtocolsInv, ProtocolsTask
    <2>3. ProtocolsAwaited' /\ ProtocolsFollow'
      BY <1>1, <2>1 DEF ProtocolsInv, ProtocolsAwaited, ProtocolsFollow, Runs
    <2> QED BY <1>1, <2>1, <2>2, <2>3 DEF ProtocolsInv
  <1>3. CASE ProtocolsLoadReturns(t) /\ t.wire # "failed"
    <2>1. PICK u : Fresh(u, "enrich", t.reply) /\ tasks' = (tasks \ {t}) \cup {u}
      BY <1>3, GoesOn DEF ProtocolsLoadReturns
    <2>2. UNCHANGED page /\ t.fn = "load" /\ t.wire = "ok"
      BY <1>1, <1>3 DEF ProtocolsLoadReturns, ProtocolsTask, IsTask
    <2>3. ProtocolsTask(u)'
      BY <1>1, <2>1, <2>2 DEF ProtocolsTask, Fresh
    <2>4. \A v \in tasks' : ProtocolsTask(v)'
      BY <1>1, <2>1, <2>3 DEF ProtocolsInv, ProtocolsTask
    <2>5. ProtocolsAwaited' /\ ProtocolsFollow'
      BY <1>1, <2>1, <2>2 DEF ProtocolsInv, ProtocolsAwaited, ProtocolsFollow, Runs, Fresh
    <2> QED BY <1>1, <2>2, <2>4, <2>5 DEF ProtocolsInv
  <1>4. CASE EnrichReturns(t)
    <2>1. /\ t.fn = "enrich" /\ tasks' = tasks \ {t} /\ page' \in ProtocolsPage
          /\ page'.deleting = page.deleting /\ page'.list = t.arg /\ page'.error = page.error
      BY <1>1, <1>4 DEF EnrichReturns, Awaiting, End, ProtocolsPage, ProtocolsTask
    <2>2. \A v \in tasks' : ProtocolsTask(v)'
      BY <1>1, <2>1 DEF ProtocolsInv, ProtocolsTask
    <2>3. page'.list # None
      BY <1>1, <2>1, ProtocolsAssumption DEF ProtocolsTask, ProtocolStates
    <2>4. ProtocolsAwaited' /\ ProtocolsFollow'
      BY <1>1, <2>1, <2>3
         DEF ProtocolsInv, ProtocolsAwaited, ProtocolsFollow, ProtocolsTask, Runs
    <2> QED BY <1>1, <2>1, <2>2, <2>4 DEF ProtocolsInv
  <1>5. CASE DeleteRowReturns(t)
    <2> DEFINE failed == t.wire = "failed"
               delete == IF t.wire = "ok" THEN None ELSE page.delete
    <2>1. /\ failed \in BOOLEAN /\ delete \in Candidates \cup {None} /\ t.fn = "delete"
          /\ page' = [page EXCEPT !.deleting = FALSE, !.deleteError = failed,
                        !.delete = delete]
      BY <1>1, <1>5 DEF DeleteRowReturns, ProtocolsPage
    <2> HIDE DEF failed, delete
    <2>2. /\ page' \in ProtocolsPage /\ page'.list = page.list /\ page'.error = page.error
          /\ ~page'.deleting
      BY <1>1, <2>1 DEF ProtocolsPage
    <2>3. PICK asked : Again(t, asked, {"delete"})
      BY <1>5, <2>1, ReadsAgain DEF DeleteRowReturns
    <2>4. \A v \in tasks' : ProtocolsTask(v)'
      BY <1>1, <2>3 DEF ProtocolsInv, ProtocolsTask, Again, Fresh
    <2>5. ProtocolsAwaited' /\ (Runs("enrich") => Runs("enrich")')
      BY <2>1, <2>2, <2>3 DEF ProtocolsInv, ProtocolsAwaited, Again, Runs
    <2>6. ProtocolsFollow'
      BY <1>1, <2>2, <2>3, <2>5 DEF ProtocolsInv, ProtocolsFollow, Again
    <2> QED BY <1>1, <2>2, <2>4, <2>5, <2>6 DEF ProtocolsInv
  <1> QED BY <1>2, <1>3, <1>4, <1>5

LEMMA ProtocolsKept == ProtocolsInv /\ ProtocolsNext => ProtocolsInv'
  BY ProtocolsAsked, ServeProtocolsKeeps, ProtocolsReply DEF ProtocolsNext
LEMMA ProtocolsIdle == ProtocolsInv /\ UNCHANGED vars => ProtocolsInv'
  BY DEF vars, ProtocolsInv, ProtocolsTask, ProtocolsAwaited, ProtocolsFollow, Runs
LEMMA ProtocolsRest ==
  ProtocolsInv /\ tasks = {} => ~ProtocolsBusy /\ (~stale => ProtocolsAgree)
  BY DEF ProtocolsInv, ProtocolsAwaited, ProtocolsFollow, Rereading, Runs, ProtocolsBusy,
         ProtocolsAgree

------------------------------------------------------------------------------
\* The contracts of the desk: two lists that are set one after the other from
\* one reading.

ContractStates == [Requests -> {"sent", "awaiting", "expired"}]
DeskContractsPage ==
  [at : {"deskContracts"}, list : ContractStates \cup {None},
   overdue : {None} \cup SUBSET Requests, error : BOOLEAN, actionError : BOOLEAN,
   void : Requests \cup {None}, extend : Requests \cup {None}, deadline : BOOLEAN,
   submitting : BOOLEAN]
DeskContractsTask(t) ==
  /\ IsTask(t) /\ t.fn \in {"load", "enrich", "void", "extend"}
  /\ t.fn \in {"void", "extend"} => t.arg \in Requests
  /\ t.fn = "load" /\ t.wire = "ok" =>
       t.reply \in ContractStates /\ (~stale => t.reply = server)
  /\ t.fn = "enrich" =>
       /\ t.arg \in ContractStates /\ (~stale => t.arg = server)
       /\ t.reply # None => page.list # None /\ (~stale => page.list = server)
DeskContractsAwaited ==
  /\ page.submitting => Runs("void") \/ Runs("extend")
  /\ page.list = None /\ ~page.error => Runs("load") \/ Runs("enrich")
DeskContractsFollow ==
  ~stale /\ page.list # None /\ ~page.error =>
    \/ page.list = server /\ page.overdue = Overdue(server)
    \/ Rereading(tasks, {"void", "extend"}) \/ Runs("enrich")
DeskContractsInv ==
  /\ page \in DeskContractsPage /\ server \in ContractStates
  /\ \A t \in tasks : DeskContractsTask(t)
  /\ DeskContractsAwaited /\ DeskContractsFollow

LEMMA DeskContractsBegin == DeskContractsInit => DeskContractsInv
  <1> SUFFICES ASSUME DeskContractsInit PROVE DeskContractsInv
    OBVIOUS
  <1>1. PICK l : Fresh(l, "load", None) /\ tasks = {l}
    BY LoadStarts DEF DeskContractsInit
  <1>2. page \in DeskContractsPage /\ ~page.submitting /\ page.list = None
    BY DEF DeskContractsInit, DeskContractsPage
  <1>3. server \in ContractStates
    BY DEF DeskContractsInit, ContractStates
  <1>4. DeskContractsTask(l)
    BY <1>1 DEF DeskContractsTask, Fresh
  <1> QED BY <1>1, <1>2, <1>3, <1>4
      DEF DeskContractsInv, DeskContractsAwaited, DeskContractsFollow, Runs, Fresh

\* What leaves the lists as they are, and ends no reading.
LEMMA DeskContractsTaps ==
  ASSUME DeskContractsInv, UNCHANGED <<server, stale>>, page' \in DeskContractsPage,
         page'.list = page.list, page'.overdue = page.overdue, page'.error = page.error,
         tasks \subseteq tasks',
         \A u \in tasks' \ tasks : DeskContractsTask(u)',
         page'.submitting => page.submitting \/ Runs("void")' \/ Runs("extend")'
  PROVE  DeskContractsInv'
  <1>1. \A u \in tasks' : DeskContractsTask(u)'
    BY DEF DeskContractsInv, DeskContractsTask
  <1>2. DeskContractsAwaited'
    BY DEF DeskContractsInv, DeskContractsAwaited, Runs
  <1>3. DeskContractsFollow'
    BY DEF DeskContractsInv, DeskContractsFollow, Rereading, Runs
  <1> QED BY <1>1, <1>2, <1>3 DEF DeskContractsInv

LEMMA DeskContractsFilled ==
  ASSUME DeskContractsInv,
         \/ \E c \in Requests : AskVoid(c) \/ OpenExtend(c)
         \/ CancelVoid \/ TypeDeadline \/ CloseExtend
  PROVE  DeskContractsInv'
  <1>1. page \in DeskContractsPage /\ UNCHANGED <<tasks, server, stale>>
    BY DEF DeskContractsInv, AskVoid, OpenExtend, CancelVoid, TypeDeadline, CloseExtend
  <1>2. ASSUME page' \in DeskContractsPage, page'.list = page.list,
               page'.overdue = page.overdue, page'.error = page.error,
               page'.submitting = page.submitting
        PROVE  DeskContractsInv'
    BY <1>1, <1>2, DeskContractsTaps
  <1>3. CASE \E c \in Requests : AskVoid(c)
    BY <1>1, <1>2, <1>3 DEF AskVoid, DeskContractsPage
  <1>4. CASE \E c \in Requests : OpenExtend(c)
    BY <1>1, <1>2, <1>4 DEF OpenExtend, DeskContractsPage
  <1>5. CASE CancelVoid
    BY <1>1, <1>2, <1>5 DEF CancelVoid, DeskContractsPage
  <1>6. CASE TypeDeadline
    BY <1>1, <1>2, <1>6 DEF TypeDeadline, DeskContractsPage
  <1>7. CASE CloseExtend
    BY <1>1, <1>2, <1>7 DEF CloseExtend, DeskContractsPage
  <1> QED BY <1>3, <1>4, <1>5, <1>6, <1>7

LEMMA ContractAsked ==
  ASSUME DeskContractsInv, HandleContractVoid \/ HandleContractExtend
  PROVE  DeskContractsInv'
  <1>1. PICK fn, c : HandleContract(fn, c) /\ fn \in {"void", "extend"} /\ c \in Requests
    BY DEF DeskContractsInv, DeskContractsPage, HandleContractVoid, HandleContractExtend
  <1>2. PICK u : Fresh(u, fn, c) /\ tasks' = tasks \cup {u}
    BY <1>1, TapStarts DEF HandleContract
  <1>3. /\ page' \in DeskContractsPage /\ page'.list = page.list
        /\ page'.overdue = page.overdue /\ page'.error = page.error
        /\ UNCHANGED <<server, stale>>
    BY <1>1 DEF DeskContractsInv, HandleContract, DeskContractsPage
  <1>4. DeskContractsTask(u)' /\ (Runs("void")' \/ Runs("extend")')
    BY <1>1, <1>2 DEF DeskContractsTask, Fresh, Runs
  <1> QED BY <1>2, <1>3, <1>4, DeskContractsTaps

LEMMA ServeDeskContractsKeeps ==
  ASSUME DeskContractsInv, NEW t \in tasks, ServeDeskContracts(t)
  PROVE  DeskContractsInv'
  <1>1. /\ DeskContractsTask(t) /\ t.wire = "sent" /\ t.fn # "enrich"
        /\ page \in DeskContractsPage /\ server \in ContractStates
    BY DEF DeskContractsInv, ServeDeskContracts, Awaiting
  <1>2. PICK accepts, after, reply, u :
          /\ Replied(t, u, accepts, after, reply, {"void", "extend"})
          /\ after \in ContractStates
          /\ t.fn = "load" => after = server /\ reply = server
    <2>1. CASE t.fn = "load" /\ Serve(t, TRUE, server, server)
      BY <1>1, <2>1, CallReplies DEF DeskContractsTask
    <2>2. CASE /\ t.fn \in {"void", "extend"}
               /\ Serve(t, server[t.arg] = "awaiting",
                        [server EXCEPT ![t.arg] = IF t.fn = "void" THEN "expired" ELSE "sent"],
                        None)
      <3> DEFINE accepts == server[t.arg] = "awaiting"
                 to == IF t.fn = "void" THEN "expired" ELSE "sent"
                 after == [server EXCEPT ![t.arg] = to]
      <3>1. Serve(t, accepts, after, None)
        BY <2>2
      <3>2. to \in {"sent", "awaiting", "expired"}
        OBVIOUS
      <3> HIDE DEF to
      <3>3. after \in ContractStates
        BY <1>1, <2>2, <3>2 DEF DeskContractsTask, ContractStates
      <3> HIDE DEF accepts, after
      <3>4. PICK u : Replied(t, u, accepts, after, None, {"void", "extend"})
        BY <1>1, <2>2, <3>1, CallReplies DEF DeskContractsTask
      <3> QED BY <2>2, <3>3, <3>4
    <2> QED BY <2>1, <2>2 DEF ServeDeskContracts, Awaiting
  <1>3. /\ IsTask(u) /\ u.fn = t.fn /\ u.arg = t.arg /\ tasks' = (tasks \ {t}) \cup {u}
        /\ u.wire = "ok" => server' = after /\ u.reply = reply
        /\ UNCHANGED page /\ server' \in ContractStates
    BY <1>1, <1>2 DEF Replied
  <1>4. \A v \in tasks \ {t} : DeskContractsTask(v)'
    BY <1>2 DEF DeskContractsInv, DeskContractsTask, Replied, OnItsWay
  <1>5. DeskContractsTask(u)'
    BY <1>1, <1>2, <1>3 DEF DeskContractsTask
  <1>6. DeskContractsAwaited' /\ (Runs("enrich") => Runs("enrich")')
    BY <1>3 DEF DeskContractsInv, DeskContractsAwaited, Runs
  <1>7. DeskContractsFollow'
    BY <1>2, <1>3, <1>6 DEF DeskContractsInv, DeskContractsFollow, Replied
  <1> QED BY <1>1, <1>3, <1>4, <1>5, <1>6, <1>7 DEF DeskContractsInv

LEMMA DeskContractsRead ==
  ASSUME DeskContractsInv, NEW t \in tasks, DeskContractsLoaded(t) \/ ContractsEnriched(t)
  PROVE  DeskContractsInv'
  <1>1. /\ DeskContractsTask(t) /\ page \in DeskContractsPage /\ UNCHANGED <<server, stale>>
    BY DEF DeskContractsInv, DeskContractsLoaded, ContractsEnriched
  <1>2. CASE DeskContractsLoaded(t) /\ t.wire = "failed"
    <2>1. /\ t.fn = "load" /\ tasks' = tasks \ {t} /\ page' \in DeskContractsPage
          /\ page'.submitting = page.submitting /\ page'.error /\ page'.list = page.list
      BY <1>1, <1>2 DEF DeskContractsLoaded, End, DeskContractsPage
    <2>2. \A v \in tasks' : DeskContractsTask(v)'
      BY <1>1, <2>1 DEF DeskContractsInv, DeskContractsTask
    <2>3. DeskContractsAwaited' /\ DeskContractsFollow'
      BY <1>1, <2>1 DEF DeskContractsInv, DeskContractsAwaited, DeskContractsFollow, Runs
    <2> QED BY <1>1, <2>1, <2>2, <2>3 DEF DeskContractsInv
  <1>3. CASE DeskContractsLoaded(t) /\ t.wire # "failed"
    <2>1. PICK u : Fresh(u, "enrich", t.reply) /\ tasks' = (tasks \ {t}) \cup {u}
      BY <1>3, GoesOn DEF DeskContractsLoaded
    <2>2. UNCHANGED page /\ t.fn = "load" /\ t.wire = "ok"
      BY <1>1, <1>3 DEF DeskContractsLoaded, DeskContractsTask, IsTask
    <2>3. u.reply = None
      BY <2>1 DEF Fresh
    <2>4. DeskContractsTask(u)'
      BY <1>1, <2>1, <2>2, <2>3 DEF DeskContractsTask, Fresh
    <2>5. \A v \in tasks' : DeskContractsTask(v)'
      BY <1>1, <2>1, <2>2, <2>4 DEF DeskContractsInv, DeskContractsTask
    <2>6. DeskContractsAwaited' /\ DeskContractsFollow'
      BY <1>1, <2>1, <2>2
         DEF DeskContractsInv, DeskContractsAwaited, DeskContractsFollow, Runs, Fresh
    <2> QED BY <1>1, <2>2, <2>5, <2>6 DEF DeskContractsInv
  <1>4. CASE ContractsEnriched(t) /\ t.reply = None
    <2> DEFINE u == [t EXCEPT !.reply = "again"]
    <2>1. /\ t.fn = "enrich" /\ tasks' = (tasks \ {t}) \cup {u}
          /\ page' \in DeskContractsPage /\ page'.list = t.arg /\ page'.error = page.error
          /\ page'.submitting = page.submitting
      BY <1>1, <1>4 DEF ContractsEnriched, Awaiting, GoOn, DeskContractsPage,
                        DeskContractsTask
    <2>2. IsTask(u) /\ u.fn = "enrich" /\ u.arg = t.arg
      BY <1>1, <2>1 DEF DeskContractsTask, IsTask
    <2> HIDE DEF u
    <2>3. page'.list # None /\ (~stale => page'.list = server)
      BY <1>1, <2>1, DeskContractsAssumption DEF DeskContractsTask, ContractStates
    <2>4. \A v \in tasks' : DeskContractsTask(v)'
      BY <1>1, <2>1, <2>2, <2>3 DEF DeskContractsInv, DeskContractsTask
    <2>5. DeskContractsAwaited' /\ DeskContractsFollow'
      BY <1>1, <2>1, <2>2, <2>3
         DEF DeskContractsInv, DeskContractsAwaited, DeskContractsFollow, Runs
    <2> QED BY <1>1, <2>1, <2>4, <2>5 DEF DeskContractsInv
  <1>5. CASE ContractsEnriched(t) /\ t.reply # None
    <2> DEFINE overdue == Overdue(t.arg)
    <2>1. /\ t.fn = "enrich" /\ tasks' = tasks \ {t} /\ overdue \in SUBSET Requests
          /\ page' = [page EXCEPT !.overdue = overdue]
      BY <1>1, <1>5 DEF ContractsEnriched, Awaiting, End, Overdue
    <2>2. ~stale => overdue = Overdue(server)
      BY <1>1, <2>1 DEF DeskContractsTask
    <2> HIDE DEF overdue
    <2>3. /\ page' \in DeskContractsPage /\ page'.list = page.list
          /\ page'.overdue = overdue /\ page'.error = page.error
          /\ page'.submitting = page.submitting
      BY <1>1, <2>1 DEF DeskContractsPage
    <2>4. page.list # None /\ (~stale => page.list = server)
      BY <1>1, <1>5, <2>1 DEF DeskContractsTask
    <2>5. \A v \in tasks' : DeskContractsTask(v)'
      BY <1>1, <2>1, <2>3 DEF DeskContractsInv, DeskContractsTask
    <2>6. DeskContractsAwaited'
      BY <2>1, <2>3, <2>4 DEF DeskContractsInv, DeskContractsAwaited, Runs
    <2>7. DeskContractsFollow'
      BY <1>1, <2>2, <2>3, <2>4 DEF DeskContractsFollow
    <2> QED BY <1>1, <2>3, <2>5, <2>6, <2>7 DEF DeskContractsInv
  <1> QED BY <1>2, <1>3, <1>4, <1>5

LEMMA ContractDecisionKeeps ==
  ASSUME DeskContractsInv, NEW t \in tasks, ContractDecisionReturns(t)
  PROVE  DeskContractsInv'
  <1>1. /\ DeskContractsTask(t) /\ page \in DeskContractsPage /\ UNCHANGED <<server, stale>>
        /\ t.fn \in {"void", "extend"}
    BY DEF DeskContractsInv, ContractDecisionReturns
  <1> DEFINE failed == t.wire = "failed"
             void == IF t.wire = "ok" /\ t.fn = "void" THEN None ELSE page.void
             extend == IF t.wire = "ok" /\ t.fn = "extend" THEN None ELSE page.extend
             deadline == page.deadline /\ ~(t.wire = "ok" /\ t.fn = "extend")
  <1>2. /\ failed \in BOOLEAN /\ void \in Requests \cup {None}
        /\ extend \in Requests \cup {None} /\ deadline \in BOOLEAN
    BY <1>1 DEF DeskContractsPage
  <1>3. page' = [page EXCEPT !.submitting = FALSE, !.actionError = failed, !.void = void,
                   !.extend = extend, !.deadline = deadline]
    BY DEF ContractDecisionReturns
  <1> HIDE DEF failed, void, extend, deadline
  <1>4. /\ page' \in DeskContractsPage /\ page'.list = page.list
        /\ page'.overdue = page.overdue /\ page'.error = page.error /\ ~page'.submitting
    BY <1>1, <1>2, <1>3 DEF DeskContractsPage
  <1>5. PICK asked : Again(t, asked, {"void", "extend"})
    BY <1>1, ReadsAgain DEF ContractDecisionReturns
  <1>6. \A v \in tasks' : DeskContractsTask(v)'
    BY <1>1, <1>4, <1>5 DEF DeskContractsInv, DeskContractsTask, Again, Fresh
  <1>7. DeskContractsAwaited' /\ (Runs("enrich") => Runs("enrich")')
    BY <1>1, <1>4, <1>5 DEF DeskContractsInv, DeskContractsAwaited, Again, Runs
  <1>8. DeskContractsFollow'
    BY <1>1, <1>4, <1>5, <1>7 DEF DeskContractsInv, DeskContractsFollow, Again
  <1> QED BY <1>1, <1>4, <1>6, <1>7, <1>8 DEF DeskContractsInv

LEMMA ContractFallsDueKeeps ==
  ASSUME DeskContractsInv, NEW c \in Requests, ContractFallsDue(c)
  PROVE  DeskContractsInv'
  <1>1. server' \in ContractStates /\ stale' /\ UNCHANGED <<page, tasks>>
    BY DEF DeskContractsInv, ContractFallsDue, Elsewhere, ContractStates
  <1> QED BY <1>1 DEF DeskContractsInv, DeskContractsTask, DeskContractsAwaited,
                      DeskContractsFollow, Runs

LEMMA DeskContractsKept == DeskContractsInv /\ DeskContractsNext => DeskContractsInv'
  BY DeskContractsFilled, ContractAsked, ServeDeskContractsKeeps, DeskContractsRead,
     ContractDecisionKeeps, ContractFallsDueKeeps DEF DeskContractsNext
LEMMA DeskContractsIdle == DeskContractsInv /\ UNCHANGED vars => DeskContractsInv'
  BY DEF vars, DeskContractsInv, DeskContractsTask, DeskContractsAwaited,
         DeskContractsFollow, Runs
LEMMA DeskContractsRest ==
  DeskContractsInv /\ tasks = {} =>
    (DeskContractsBusy => DeskContractsUnread) /\ (~stale => DeskContractsAgree)
  BY DEF DeskContractsInv, DeskContractsAwaited, DeskContractsFollow, Rereading, Runs,
         DeskContractsBusy, DeskContractsUnread, DeskContractsAgree

------------------------------------------------------------------------------
\* The editor of a template: its sheets are never none, and what is typed goes
\* to one of them.

Contents == [text : Nat, double : BOOLEAN]
TemplatePage ==
  [at : {"template"}, sheets : Seq(Nat), active : Nat \cup {None}, next : Nat,
   edited : Nat, double : BOOLEAN, delete : Nat \cup {None}, loaded : BOOLEAN,
   error : BOOLEAN, saving : BOOLEAN, saved : Contents \cup {None}, saveError : BOOLEAN]
TemplateTask(t) ==
  /\ IsTask(t) /\ t.fn \in {"load", "save"}
  /\ t.fn = "load" /\ t.wire = "ok" => t.reply \in Contents
  /\ t.fn = "save" =>
       /\ page.saving /\ page.saved = None /\ t.arg \in Contents
       /\ t.wire = "ok" => server = t.arg
TemplateAwaited ==
  /\ page.saving => Runs("save")
  /\ ~page.loaded /\ ~page.error => Runs("load")
Sheets(p) ==
  /\ p.loaded => \E i \in 1..Len(p.sheets) : p.sheets[i] = p.active
  /\ p.delete # None =>
       /\ p.loaded /\ Len(p.sheets) > 1
       /\ \E i \in 1..Len(p.sheets) : p.sheets[i] = p.delete
TemplateInv ==
  /\ page \in TemplatePage /\ server \in Contents
  /\ Sheets(page) /\ TemplateDone
  /\ \A t \in tasks : TemplateTask(t)
  /\ Once({"save"}) /\ TemplateAwaited

LEMMA TemplateBegins == TemplateInit => TemplateInv
  <1> SUFFICES ASSUME TemplateInit PROVE TemplateInv
    OBVIOUS
  <1>1. PICK l : Fresh(l, "load", None) /\ tasks = {l}
    BY LoadStarts DEF TemplateInit
  <1>2. <<>> \in Seq(Nat)
    BY EmptySeq
  <1>3. /\ page \in TemplatePage /\ ~page.saving /\ ~page.loaded /\ page.delete = None
        /\ page.saved = None
    BY <1>2 DEF TemplateInit, TemplatePage
  <1>4. server \in Contents
    BY DEF TemplateInit, Contents
  <1>5. TemplateTask(l)
    BY <1>1 DEF TemplateTask, Fresh
  <1> QED BY <1>1, <1>3, <1>4, <1>5
      DEF TemplateInv, TemplateAwaited, TemplateDone, Sheets, Once, Runs, Fresh

\* What the editor does by itself.
LEMMA TemplateTaps ==
  ASSUME TemplateInv, UNCHANGED <<tasks, server, stale>>, page' \in TemplatePage,
         Sheets(page'), page'.loaded = page.loaded, page'.error = page.error,
         page'.saving = page.saving, page'.saved = page.saved
  PROVE  TemplateInv'
  <1>1. (\A u \in tasks : TemplateTask(u))'
    BY DEF TemplateInv, TemplateTask
  <1>2. TemplateAwaited' /\ TemplateDone' /\ Once({"save"})'
    BY DEF TemplateInv, TemplateAwaited, TemplateDone, Once, Runs
  <1> QED BY <1>1, <1>2 DEF TemplateInv, Sheets

LEMMA SheetAdded ==
  ASSUME NEW s \in Seq(Nat), NEW at \in 0..Len(s), NEW k \in Nat
  PROVE  LET r == SubSeq(s, 1, at) \o <<k>> \o SubSeq(s, at + 1, Len(s))
         IN  r \in Seq(Nat) /\ Len(r) \in Nat /\ at + 1 \in 1..Len(r) /\ r[at + 1] = k
  <1> DEFINE a == SubSeq(s, 1, at)
             b == SubSeq(s, at + 1, Len(s))
             ak == a \o <<k>>
  <1>1. /\ Len(s) \in Nat /\ at \in Int
        /\ \A i \in 1..Len(s) : s[i] \in Nat
    BY LenProperties, ElementOfSeq
  <1>2. a \in Seq(Nat) /\ Len(a) = at
    <2>1. \A i \in 1..at : s[i] \in Nat
      BY <1>1
    <2>2. a \in Seq(Nat) /\ Len(a) = IF 1 <= at THEN at - 1 + 1 ELSE 0
      BY <1>1, <2>1, SubSeqProperties
    <2> HIDE DEF a
    <2> QED BY <2>2
  <1>3. b \in Seq(Nat) /\ Len(b) \in Nat
    <2>1. \A i \in at + 1..Len(s) : s[i] \in Nat
      BY <1>1
    <2>2. at + 1 \in Int /\ Len(s) \in Int
      BY <1>1
    <2>3. b \in Seq(Nat)
      BY <2>1, <2>2, SubSeqProperties
    <2> HIDE DEF b
    <2> QED BY <2>3, LenProperties
  <1>4. <<k>> \in Seq(Nat) /\ Len(<<k>>) = 1 /\ <<k>>[1] = k
    OBVIOUS
  <1> HIDE DEF a, b
  <1>5. ak \in Seq(Nat) /\ Len(ak) = at + 1 /\ ak[at + 1] = k
    <2> DEFINE last == <<k>>
    <2>1. last \in Seq(Nat) /\ Len(last) = 1 /\ last[1] = k
      BY <1>4
    <2> HIDE DEF last
    <2>2. /\ a \o last \in Seq(Nat) /\ Len(a \o last) = Len(a) + Len(last)
          /\ \A i \in 1..Len(a) + Len(last) :
               (a \o last)[i] = IF i <= Len(a) THEN a[i] ELSE last[i - Len(a)]
      BY <1>2, <2>1, ConcatProperties
    <2>3. Len(a \o last) = at + 1 /\ (a \o last)[at + 1] = k
      <3>1. at + 1 \in 1..Len(a) + Len(last) /\ ~(at + 1 <= Len(a)) /\ at + 1 - Len(a) = 1
        BY <1>2, <2>1
      <3> QED BY <1>2, <2>1, <2>2, <3>1
    <2> QED BY <2>2, <2>3 DEF last
  <1> HIDE DEF ak
  <1>6. /\ ak \o b \in Seq(Nat) /\ Len(ak \o b) = Len(ak) + Len(b)
        /\ \A i \in 1..Len(ak) + Len(b) :
             (ak \o b)[i] = IF i <= Len(ak) THEN ak[i] ELSE b[i - Len(ak)]
    BY <1>3, <1>5, ConcatProperties
  <1>7. at + 1 \in 1..Len(ak) + Len(b) /\ at + 1 <= Len(ak) /\ Len(ak) + Len(b) \in Nat
    BY <1>3, <1>5
  <1>8. /\ ak \o b \in Seq(Nat) /\ Len(ak \o b) \in Nat
        /\ at + 1 \in 1..Len(ak \o b) /\ (ak \o b)[at + 1] = k
    BY <1>5, <1>6, <1>7
  <1> QED BY <1>8 DEF ak, a, b

LEMMA SheetRemoved ==
  ASSUME NEW s \in Seq(Nat), NEW at \in 1..Len(s)
  PROVE  LET r == SubSeq(s, 1, at - 1) \o SubSeq(s, at + 1, Len(s))
         IN  /\ r \in Seq(Nat) /\ Len(r) = Len(s) - 1
             /\ \A j \in 1..Len(s) : j # at => \E i \in 1..Len(r) : r[i] = s[j]
  <1> DEFINE a == SubSeq(s, 1, at - 1)
             b == SubSeq(s, at + 1, Len(s))
             n == Len(s)
             r == a \o b
  <1>1. n \in Nat /\ at \in Nat /\ 1 <= at /\ at <= n /\ \A i \in 1..n : s[i] \in Nat
    BY LenProperties, ElementOfSeq
  <1> HIDE DEF n
  <1>2. /\ a \in Seq(Nat) /\ Len(a) = at - 1
        /\ \A i \in 1..at - 1 : a[i] = s[i]
    <2>1. \A i \in 1..at - 1 : s[i] \in Nat
      BY <1>1
    <2>2. at - 1 \in Int
      BY <1>1
    <2>3. /\ a \in Seq(Nat) /\ Len(a) = IF 1 <= at - 1 THEN at - 1 - 1 + 1 ELSE 0
          /\ \A i \in 1..at - 1 - 1 + 1 : a[i] = s[1 + i - 1]
      BY <2>1, <2>2, SubSeqProperties
    <2> HIDE DEF a
    <2> QED BY <1>1, <2>3
  <1>3. /\ b \in Seq(Nat) /\ Len(b) = n - at
        /\ \A i \in 1..n - at : b[i] = s[at + i]
    <2>1. \A i \in at + 1..n : s[i] \in Nat
      BY <1>1
    <2>2. at + 1 \in Int /\ n \in Int
      BY <1>1
    <2> DEFINE c == SubSeq(s, at + 1, n)
    <2>3. /\ c \in Seq(Nat) /\ Len(c) = IF at + 1 <= n THEN n - (at + 1) + 1 ELSE 0
          /\ \A i \in 1..n - (at + 1) + 1 : c[i] = s[at + 1 + i - 1]
      BY <2>1, <2>2, SubSeqProperties
    <2>4. b = c
      BY DEF n
    <2> HIDE DEF b, c
    <2> QED BY <1>1, <2>3, <2>4
  <1> HIDE DEF a, b
  <1>4. /\ r \in Seq(Nat) /\ Len(r) = Len(a) + Len(b)
        /\ \A i \in 1..Len(a) + Len(b) : r[i] = IF i <= Len(a) THEN a[i] ELSE b[i - Len(a)]
    BY <1>2, <1>3, ConcatProperties
  <1> HIDE DEF r
  <1>5. Len(r) = n - 1
    BY <1>1, <1>2, <1>3, <1>4
  <1>6. ASSUME NEW j \in 1..n, j # at PROVE \E i \in 1..Len(r) : r[i] = s[j]
    <2>1. CASE j < at
      <3>1. j \in 1..Len(a) + Len(b) /\ j <= Len(a) /\ j \in 1..at - 1 /\ j \in 1..Len(r)
        BY <1>1, <1>2, <1>3, <1>5, <2>1
      <3>2. r[j] = s[j]
        BY <1>2, <1>4, <3>1
      <3> QED BY <3>1, <3>2
    <2>2. CASE j > at
      <3>1. /\ j - 1 \in 1..Len(a) + Len(b) /\ ~(j - 1 <= Len(a)) /\ j - 1 - Len(a) = j - at
            /\ j - at \in 1..n - at /\ at + (j - at) = j /\ j - 1 \in 1..Len(r)
        BY <1>1, <1>2, <1>3, <1>5, <2>2
      <3>2. r[j - 1] = s[j]
        BY <1>3, <1>4, <3>1
      <3> QED BY <3>1, <3>2
    <2> QED BY <1>1, <1>6, <2>1, <2>2
  <1> QED BY <1>4, <1>5, <1>6 DEF r, a, b, n

LEMMA TemplateFilled ==
  ASSUME TemplateInv,
         \/ \E i \in 1..MaxTurns : FocusSheet(i) \/ AskDeleteSheet(i)
         \/ EditSheet \/ CancelDeleteSheet \/ SetTwoPagesPerSheet
  PROVE  TemplateInv'
  <1>1. page \in TemplatePage /\ Sheets(page) /\ UNCHANGED <<tasks, server, stale>>
    BY DEF TemplateInv, FocusSheet, AskDeleteSheet, EditSheet, CancelDeleteSheet,
           SetTwoPagesPerSheet
  <1>2. ASSUME page' \in TemplatePage, Sheets(page'), page'.loaded = page.loaded,
               page'.error = page.error, page'.saving = page.saving,
               page'.saved = page.saved
        PROVE  TemplateInv'
    BY <1>1, <1>2, TemplateTaps
  <1>3. Len(page.sheets) \in Nat /\ \A i \in 1..Len(page.sheets) : page.sheets[i] \in Nat
    BY <1>1, LenProperties, ElementOfSeq DEF TemplatePage
  <1>4. ASSUME NEW i \in 1..MaxTurns, FocusSheet(i) PROVE TemplateInv'
    <2>1. i \in 1..Len(page.sheets) /\ page.sheets[i] \in Nat
      BY <1>3, <1>4, TurnsAssumption DEF FocusSheet
    <2>2. page' = [page EXCEPT !.active = page.sheets[i]]
      BY <1>4 DEF FocusSheet
    <2> QED BY <1>1, <1>2, <2>1, <2>2 DEF TemplatePage, Sheets
  <1>5. ASSUME NEW i \in 1..MaxTurns, AskDeleteSheet(i) PROVE TemplateInv'
    <2>1. i \in 1..Len(page.sheets) /\ page.sheets[i] \in Nat
      BY <1>3, <1>5, TurnsAssumption DEF AskDeleteSheet
    <2>2. page' = [page EXCEPT !.delete = page.sheets[i]] /\ page.loaded /\ Len(page.sheets) > 1
      BY <1>5 DEF AskDeleteSheet, Editing
    <2> QED BY <1>1, <1>2, <2>1, <2>2 DEF TemplatePage, Sheets
  <1>6. CASE EditSheet
    <2> DEFINE times == page.edited + 1
    <2>1. page' = [page EXCEPT !.edited = times] /\ times \in Nat
      BY <1>1, <1>6 DEF EditSheet, TemplatePage
    <2> HIDE DEF times
    <2> QED BY <1>1, <1>2, <2>1 DEF TemplatePage, Sheets
  <1>7. CASE CancelDeleteSheet
    BY <1>1, <1>2, <1>7 DEF CancelDeleteSheet, TemplatePage, Sheets
  <1>8. CASE SetTwoPagesPerSheet
    <2> DEFINE turned == ~page.double
    <2>1. page' = [page EXCEPT !.double = turned] /\ turned \in BOOLEAN
      BY <1>8 DEF SetTwoPagesPerSheet
    <2> HIDE DEF turned
    <2> QED BY <1>1, <1>2, <2>1 DEF TemplatePage, Sheets
  <1> QED BY <1>4, <1>5, <1>6, <1>7, <1>8

LEMMA PlaceFound ==
  ASSUME NEW k, Holds(k)
  PROVE  PlaceOf(k) \in 1..Len(page.sheets) /\ page.sheets[PlaceOf(k)] = k
  BY DEF Holds, PlaceOf

LEMMA SheetAddedKeeps == ASSUME TemplateInv, HandleAddPage PROVE TemplateInv'
  <1> DEFINE s == page.sheets
             at == IF Holds(page.active) THEN PlaceOf(page.active) ELSE Len(s)
             r == SubSeq(s, 1, at) \o <<page.next>> \o SubSeq(s, at + 1, Len(s))
             more == page.next + 1
  <1>1. /\ page \in TemplatePage /\ Sheets(page) /\ UNCHANGED <<tasks, server, stale>>
        /\ page.loaded /\ page.delete = None
    BY DEF TemplateInv, HandleAddPage, Editing
  <1>2. s \in Seq(Nat) /\ Len(s) \in Nat /\ page.next \in Nat /\ more \in Nat
    BY <1>1, LenProperties DEF TemplatePage
  <1>3. at \in 0..Len(s)
    BY <1>2, PlaceFound
  <1>4. page' = [page EXCEPT !.active = page.next, !.next = more, !.sheets = r]
    BY DEF HandleAddPage
  <1> HIDE DEF at, s
  <1>5. r \in Seq(Nat) /\ at + 1 \in 1..Len(r) /\ r[at + 1] = page.next
    BY <1>2, <1>3, SheetAdded
  <1> HIDE DEF r, more
  <1>6. /\ page' \in TemplatePage /\ page'.sheets = r /\ page'.active = page.next
        /\ page'.delete = None /\ page'.loaded = page.loaded /\ page'.error = page.error
        /\ page'.saving = page.saving /\ page'.saved = page.saved
    BY <1>1, <1>2, <1>4, <1>5 DEF TemplatePage
  <1>7. Sheets(page')
    BY <1>5, <1>6 DEF Sheets
  <1> QED BY <1>1, <1>6, <1>7, TemplateTaps

LEMMA SheetRemovedKeeps == ASSUME TemplateInv, HandleDeletePage PROVE TemplateInv'
  <1> DEFINE s == page.sheets
             at == PlaceOf(page.delete)
             r == SubSeq(s, 1, at - 1) \o SubSeq(s, at + 1, Len(s))
             active == IF page.active # page.delete THEN page.active
                       ELSE IF r = <<>> THEN None ELSE Head(r)
  <1>1. /\ page \in TemplatePage /\ Sheets(page) /\ UNCHANGED <<tasks, server, stale>>
        /\ page.delete # None
    BY DEF TemplateInv, HandleDeletePage
  <1>2. /\ s \in Seq(Nat) /\ Len(s) \in Nat /\ Len(s) > 1 /\ page.loaded
        /\ Holds(page.delete) /\ Holds(page.active)
    BY <1>1, LenProperties DEF TemplatePage, Sheets, Holds
  <1>3. at \in 1..Len(s) /\ s[at] = page.delete
    BY <1>2, PlaceFound
  <1>4. page' = [page EXCEPT !.delete = None, !.sheets = r, !.active = active]
    BY DEF HandleDeletePage
  <1>5. PICK j \in 1..Len(s) : s[j] = page.active
    BY <1>2 DEF Holds
  <1> HIDE DEF at, s
  <1>6. /\ r \in Seq(Nat) /\ Len(r) = Len(s) - 1
        /\ \A i \in 1..Len(s) : i # at => \E k \in 1..Len(r) : r[k] = s[i]
    BY <1>2, <1>3, SheetRemoved
  <1> HIDE DEF r
  <1>7. active \in Nat \cup {None} /\ \E i \in 1..Len(r) : r[i] = active
    <2>1. CASE page.active # page.delete
      <3>1. j # at
        BY <1>3, <1>5, <2>1
      <3>2. \E k \in 1..Len(r) : r[k] = s[j]
        BY <1>5, <1>6, <3>1
      <3>3. active = page.active /\ page.active \in Nat \cup {None}
        BY <1>1, <2>1 DEF TemplatePage
      <3> QED BY <1>5, <3>2, <3>3
    <2>2. CASE page.active = page.delete
      <3>1. r # <<>> /\ 1 \in 1..Len(r)
        <4>1. Len(r) \in Nat /\ Len(r) >= 1
          BY <1>2, <1>6
        <4>2. r # <<>>
          BY <4>1, EmptySeq
        <4> QED BY <4>1, <4>2
      <3>2. active = r[1] /\ r[1] \in Nat
        BY <1>6, <2>2, <3>1, ElementOfSeq
      <3> QED BY <3>1, <3>2
    <2> QED BY <2>1, <2>2
  <1> HIDE DEF active
  <1>8. /\ page' \in TemplatePage /\ page'.sheets = r /\ page'.active = active
        /\ page'.delete = None /\ page'.loaded = page.loaded /\ page'.error = page.error
        /\ page'.saving = page.saving /\ page'.saved = page.saved
    BY <1>1, <1>4, <1>6, <1>7 DEF TemplatePage
  <1>9. Sheets(page')
    BY <1>7, <1>8 DEF Sheets
  <1> QED BY <1>1, <1>8, <1>9, TemplateTaps

LEMMA TemplateReread == ASSUME TemplateInv, SwitchTemplateLanguage PROVE TemplateInv'
  <1>1. PICK u : Fresh(u, "load", None) /\ tasks' = tasks \cup {u}
    BY TapStarts DEF SwitchTemplateLanguage
  <1>2. UNCHANGED <<page, server, stale>>
    BY DEF SwitchTemplateLanguage
  <1>3. (\A v \in tasks : TemplateTask(v))'
    BY <1>1, <1>2 DEF TemplateInv, TemplateTask, Fresh
  <1>4. TemplateAwaited' /\ TemplateDone' /\ Once({"save"})'
    BY <1>1, <1>2 DEF TemplateInv, TemplateAwaited, TemplateDone, Once, Runs, Fresh
  <1> QED BY <1>2, <1>3, <1>4 DEF TemplateInv, Sheets

LEMMA TemplateSaved == ASSUME TemplateInv, HandleSaveTemplate PROVE TemplateInv'
  <1> DEFINE arg == [text |-> page.edited, double |-> page.double]
  <1>1. page \in TemplatePage /\ UNCHANGED <<server, stale>> /\ ~page.saving
    BY DEF TemplateInv, HandleSaveTemplate
  <1>2. arg \in Contents
    BY <1>1 DEF TemplatePage, Contents
  <1>3. Start(New("save", arg))
    BY DEF HandleSaveTemplate
  <1> HIDE DEF arg
  <1>4. PICK u : Fresh(u, "save", arg) /\ tasks' = tasks \cup {u}
    BY <1>3, TapStarts
  <1>5. /\ page' \in TemplatePage /\ page'.sheets = page.sheets
        /\ page'.active = page.active /\ page'.delete = page.delete
        /\ page'.loaded = page.loaded /\ page'.error = page.error
        /\ page'.saving /\ page'.saved = None
    BY <1>1 DEF HandleSaveTemplate, TemplatePage
  <1>6. \A t \in tasks : t.fn # "save"
    BY <1>1 DEF TemplateInv, TemplateTask
  <1>7. (\A v \in tasks : TemplateTask(v))'
    BY <1>1, <1>2, <1>4, <1>5, <1>6 DEF TemplateInv, TemplateTask, Fresh
  <1>8. TemplateAwaited' /\ TemplateDone' /\ Once({"save"})'
    BY <1>4, <1>5, <1>6
       DEF TemplateInv, TemplateAwaited, TemplateDone, Once, Runs, Fresh
  <1>9. Sheets(page')
    BY <1>5 DEF TemplateInv, Sheets
  <1> QED BY <1>1, <1>5, <1>7, <1>8, <1>9 DEF TemplateInv

LEMMA ServeTemplateKeeps ==
  ASSUME TemplateInv, NEW t \in tasks, ServeTemplate(t)
  PROVE  TemplateInv'
  <1>1. TemplateTask(t) /\ t.wire = "sent" /\ server \in Contents /\ page \in TemplatePage
    BY DEF TemplateInv, ServeTemplate, Awaiting
  <1>2. PICK after, reply, u :
          /\ Ended(t, u, TRUE, after, reply) /\ UNCHANGED page
          /\ server' # server => server' = after
          /\ after \in Contents
          /\ t.fn = "load" => after = server /\ reply = server
          /\ t.fn = "save" => after = t.arg
    <2>1. CASE t.fn = "load" /\ Serve(t, TRUE, server, server)
      BY <1>1, <2>1, CallEnds DEF TemplateTask
    <2>2. CASE t.fn = "save" /\ Serve(t, TRUE, t.arg, None)
      BY <1>1, <2>2, CallEnds DEF TemplateTask
    <2> QED BY <2>1, <2>2 DEF ServeTemplate, Awaiting
  <1>3. /\ IsTask(u) /\ u.fn = t.fn /\ u.arg = t.arg /\ tasks' = (tasks \ {t}) \cup {u}
        /\ u.wire = "ok" => server' = after /\ u.reply = reply
        /\ server' \in Contents /\ (t.fn = "load" => server' = server)
    BY <1>1, <1>2 DEF Ended
  <1>4. \A v \in tasks \ {t} : v.fn = "save" => t.fn = "load"
    BY <1>1 DEF TemplateInv, TemplateTask, Once
  <1>5. \A v \in tasks \ {t} : TemplateTask(v)'
    BY <1>2, <1>3, <1>4 DEF TemplateInv, TemplateTask
  <1>6. TemplateTask(u)'
    BY <1>1, <1>2, <1>3 DEF TemplateTask
  <1>7. TemplateAwaited' /\ Once({"save"})'
    BY <1>2, <1>3 DEF TemplateInv, TemplateAwaited, Once, Runs
  <1>8. TemplateDone'
    <2>1. CASE t.fn = "load"
      BY <1>2, <1>3, <2>1 DEF TemplateInv, TemplateDone
    <2>2. CASE t.fn = "save"
      BY <1>1, <1>2, <2>2 DEF TemplateTask, TemplateDone
    <2> QED BY <1>1, <2>1, <2>2 DEF TemplateTask
  <1> QED BY <1>1, <1>2, <1>3, <1>5, <1>6, <1>7, <1>8 DEF TemplateInv, Sheets

LEMMA TemplateRead == ASSUME TemplateInv, NEW t \in tasks, TemplateReturns(t) PROVE TemplateInv'
  <1>1. /\ TemplateTask(t) /\ t.fn = "load" /\ tasks' = tasks \ {t}
        /\ UNCHANGED <<server, stale>> /\ page \in TemplatePage /\ Sheets(page)
        /\ t.wire # "sent"
    BY DEF TemplateInv, TemplateReturns, End
  <1>2. /\ page' \in TemplatePage /\ Sheets(page') /\ page'.saving = page.saving
        /\ page'.saved = page.saved /\ (page'.loaded \/ page'.error)
    <2>1. CASE t.wire = "failed"
      <3>1. page' = [page EXCEPT !.error = TRUE]
        BY <2>1 DEF TemplateReturns
      <3> QED BY <1>1, <3>1 DEF TemplatePage, Sheets
    <2>2. CASE t.wire # "failed"
      <3> DEFINE d == t.reply.double
                 sheets == IF page.loaded THEN page.sheets ELSE <<1>>
                 active == IF page.loaded THEN page.active ELSE 1
                 next == IF page.loaded THEN page.next ELSE 2
      <3>1. page' = [page EXCEPT !.loaded = TRUE, !.double = d, !.sheets = sheets,
                                 !.active = active, !.next = next]
        BY <2>2 DEF TemplateReturns
      <3>2. d \in BOOLEAN
        BY <1>1, <2>2 DEF TemplateTask, IsTask, Contents
      <3>3. /\ sheets \in Seq(Nat) /\ active \in Nat \cup {None} /\ next \in Nat
            /\ \E i \in 1..Len(sheets) : sheets[i] = active
        <4>1. CASE page.loaded
          BY <1>1, <4>1 DEF TemplatePage, Sheets
        <4>2. CASE ~page.loaded
          <5>1. sheets = <<1>> /\ active = 1 /\ next = 2
            BY <4>2
          <5> HIDE DEF sheets, active, next
          <5> QED BY <5>1
        <4> QED BY <4>1, <4>2
      <3>4. page.delete # None => page.loaded /\ sheets = page.sheets
        BY <1>1 DEF Sheets
      <3> HIDE DEF d, sheets, active, next
      <3>5. /\ page' \in TemplatePage /\ page'.loaded /\ page'.sheets = sheets
            /\ page'.active = active /\ page'.delete = page.delete
            /\ page'.saving = page.saving /\ page'.saved = page.saved
        <4> DEFINE half == [page EXCEPT !.loaded = TRUE, !.double = d]
        <4>1. /\ half \in TemplatePage /\ half.loaded /\ half.delete = page.delete
              /\ half.saving = page.saving /\ half.saved = page.saved
          BY <1>1, <3>2 DEF TemplatePage
        <4>2. page' = [half EXCEPT !.sheets = sheets, !.active = active, !.next = next]
          BY <3>1
        <4> HIDE DEF half
        <4> QED BY <3>3, <4>1, <4>2 DEF TemplatePage
      <3>6. Sheets(page')
        BY <1>1, <3>3, <3>4, <3>5 DEF Sheets
      <3> QED BY <3>5, <3>6
    <2> QED BY <2>1, <2>2
  <1>3. (\A v \in tasks : TemplateTask(v))'
    BY <1>1, <1>2 DEF TemplateInv, TemplateTask
  <1>4. TemplateAwaited' /\ TemplateDone' /\ Once({"save"})'
    BY <1>1, <1>2 DEF TemplateInv, TemplateAwaited, TemplateDone, Once, Runs
  <1> QED BY <1>1, <1>2, <1>3, <1>4 DEF TemplateInv

LEMMA TemplateSaveReturns ==
  ASSUME TemplateInv, NEW t \in tasks, SaveTemplateReturns(t)
  PROVE  TemplateInv'
  <1> DEFINE failed == t.wire = "failed"
             saved == IF t.wire = "ok" THEN t.arg ELSE None
  <1>1. /\ TemplateTask(t) /\ t.fn = "save" /\ tasks' = tasks \ {t}
        /\ UNCHANGED <<server, stale>> /\ page \in TemplatePage /\ Sheets(page)
    BY DEF TemplateInv, SaveTemplateReturns, End
  <1>2. failed \in BOOLEAN /\ saved \in Contents \cup {None} /\ (saved # None => server = saved)
    BY <1>1 DEF TemplateTask
  <1>3. page' = [page EXCEPT !.saving = FALSE, !.saveError = failed, !.saved = saved]
    BY DEF SaveTemplateReturns
  <1> HIDE DEF failed, saved
  <1>4. /\ page' \in TemplatePage /\ page'.sheets = page.sheets
        /\ page'.active = page.active /\ page'.delete = page.delete
        /\ page'.loaded = page.loaded /\ page'.error = page.error
        /\ page'.saving = FALSE /\ page'.saved = saved
    BY <1>1, <1>2, <1>3 DEF TemplatePage
  <1>5. \A v \in tasks' : v.fn # "save"
    BY <1>1 DEF TemplateInv, Once
  <1>6. (\A v \in tasks : TemplateTask(v))'
    BY <1>1, <1>5 DEF TemplateInv, TemplateTask
  <1>7. TemplateAwaited' /\ TemplateDone' /\ Once({"save"})'
    BY <1>1, <1>2, <1>4, <1>5 DEF TemplateInv, TemplateAwaited, TemplateDone, Once, Runs
  <1>8. Sheets(page')
    BY <1>1, <1>4 DEF Sheets
  <1> QED BY <1>1, <1>4, <1>6, <1>7, <1>8 DEF TemplateInv

LEMMA TemplateKept == TemplateInv /\ TemplateNext => TemplateInv'
  BY TemplateFilled, SheetAddedKeeps, SheetRemovedKeeps, TemplateReread, TemplateSaved,
     ServeTemplateKeeps, TemplateRead, TemplateSaveReturns DEF TemplateNext

LEMMA TemplateIdle == TemplateInv /\ UNCHANGED vars => TemplateInv'
  <1> SUFFICES ASSUME TemplateInv, UNCHANGED vars PROVE TemplateInv'
    OBVIOUS
  <1>1. UNCHANGED <<page, tasks, server, stale>>
    BY DEF vars
  <1> QED BY <1>1
      DEF TemplateInv, TemplateTask, TemplateAwaited, TemplateDone, Sheets, Once, Runs

LEMMA TemplateRest ==
  TemplateInv => TemplateDone /\ TemplateWhole /\ (tasks = {} => ~TemplateBusy)
  BY DEF TemplateInv, TemplateAwaited, TemplateWhole, TemplateBusy, Sheets, Holds, Runs

------------------------------------------------------------------------------
\* The page that is mounted, with what holds of it.  The routes and the badge
\* wait for nothing and report nothing.
MountedInv ==
  /\ page.at = "notices" => NoticesInv
  /\ page.at = "push" => PushInv
  /\ page.at = "register" => RegisterInv
  /\ page.at = "edit" => EditInv
  /\ page.at = "residence" => DeskInv
  /\ page.at = "contracts" => ContractsInv
  /\ page.at = "mine" => MineInv
  /\ page.at = "application" => DetailInv
  /\ page.at = "wizard" => WizardInv /\ Profiled
  /\ page.at = "queue" => QueueInv
  /\ page.at = "review" => ReviewInv
  /\ page.at = "residents" => ResidentsInv
  /\ page.at = "roomForm" => FormInv
  /\ page.at = "place" => PlaceInv
  /\ page.at = "users" => UsersInv
  /\ page.at = "roles" => RolesInv
  /\ page.at = "approvals" => ApprovalsInv
  /\ page.at = "newUser" => NewUserInv
  /\ page.at = "create" => CreateInv
  /\ page.at = "protocol" => ProtocolInv
  /\ page.at = "protocols" => ProtocolsInv
  /\ page.at = "houseForm" => HouseFormInv
  /\ page.at = "benefit" => BenefitInv
  /\ page.at = "papers" => PapersInv
  /\ page.at = "requests" => RequestsInv
  /\ page.at = "deskContracts" => DeskContractsInv
  /\ page.at = "chat" => ChatInv
  /\ page.at = "access" => AccessInv
  /\ page.at = "broadcast" => BroadcastInv
  /\ page.at = "template" => TemplateInv

LEMMA MountedBegins == Init => Named /\ MountedInv
  <1> SUFFICES ASSUME Init PROVE Named /\ MountedInv
    OBVIOUS
  <1>1. CASE PortalInit
    BY <1>1, PortalBegins, NoticesBegin, PushBegins, RegisterBegins, EditBegins, DeskBegins,
       ContractsBegin, MineBegins, DetailBegins, WizardBegins DEF MountedInv
  <1>2. CASE OfficeInit
    BY <1>2, OfficeBegins, QueueBegins, ReviewBegins, ResidentsBegin, FormBegins,
       PlaceBegins, UsersBegin, RolesBegin, ApprovalsBegin, NewUserBegins, CreateBegins,
       ProtocolBegins, ProtocolsBegin, HouseFormBegins, BenefitBegins, PapersBegin,
       RequestsBegin, DeskContractsBegin, ChatBegins, AccessBegins, BroadcastBegins,
       TemplateBegins DEF MountedInv
  <1> QED BY <1>1, <1>2 DEF Init

LEMMA MountedKept == Named /\ MountedInv /\ [Next]_vars => Named' /\ MountedInv'
  <1> SUFFICES ASSUME Named, MountedInv, [Next]_vars PROVE Named' /\ MountedInv'
    OBVIOUS
  <1>1. Named' /\ page'.at = page.at
    BY NextStays DEF Named, Stays
  <1>2. page.at = "notices" => NoticesInv'
    BY StepOfPage, NoticesKept, NoticesIdle DEF MountedInv
  <1>3. page.at = "push" => PushInv'
    BY StepOfPage, PushKept, PushIdle DEF MountedInv
  <1>4. page.at = "register" => RegisterInv'
    BY StepOfPage, RegisterKept, RegisterIdle DEF MountedInv
  <1>5. page.at = "edit" => EditInv'
    BY StepOfPage, EditKept, EditIdle DEF MountedInv
  <1>6. page.at = "residence" => DeskInv'
    BY StepOfPage, DeskKept, DeskIdle DEF MountedInv
  <1>7. page.at = "contracts" => ContractsInv'
    BY StepOfPage, ContractsKept, ContractsIdle DEF MountedInv
  <1>8. page.at = "mine" => MineInv'
    BY StepOfPage, MineKept, MineIdle DEF MountedInv
  <1>9. page.at = "application" => DetailInv'
    BY StepOfPage, DetailKept, DetailIdle DEF MountedInv
  <1>10. page.at = "wizard" => WizardInv' /\ Profiled'
    BY StepOfPage, WizardKept, ProfiledKept, WizardIdle DEF MountedInv
  <1>11. page.at = "queue" => QueueInv'
    BY StepOfPage, QueueKept, QueueIdle DEF MountedInv
  <1>12. page.at = "review" => ReviewInv'
    BY StepOfPage, ReviewKept, ReviewIdle DEF MountedInv
  <1>13. page.at = "residents" => ResidentsInv'
    BY StepOfPage, ResidentsKept, ResidentsIdle DEF MountedInv
  <1>14. page.at = "roomForm" => FormInv'
    BY StepOfPage, FormKept, FormIdle DEF MountedInv
  <1>15. page.at = "place" => PlaceInv'
    BY StepOfPage, PlaceKept, PlaceIdle DEF MountedInv
  <1>16. page.at = "users" => UsersInv'
    BY StepOfPage, UsersKept, UsersIdle DEF MountedInv
  <1>17. page.at = "roles" => RolesInv'
    BY StepOfPage, RolesKept, RolesIdle DEF MountedInv
  <1>18. page.at = "approvals" => ApprovalsInv'
    BY StepOfPage, ApprovalsKept, ApprovalsIdle DEF MountedInv
  <1>19. page.at = "newUser" => NewUserInv'
    BY StepOfPage, NewUserKept, NewUserIdle DEF MountedInv
  <1>20. page.at = "create" => CreateInv'
    BY StepOfPage, CreateKept, CreateIdle DEF MountedInv
  <1>21. page.at = "protocol" => ProtocolInv'
    BY StepOfPage, ProtocolKept, ProtocolIdle DEF MountedInv
  <1>22. page.at = "protocols" => ProtocolsInv'
    BY StepOfPage, ProtocolsKept, ProtocolsIdle DEF MountedInv
  <1>23. page.at = "houseForm" => HouseFormInv'
    BY StepOfPage, HouseFormKept, HouseFormIdle DEF MountedInv
  <1>24. page.at = "benefit" => BenefitInv'
    BY StepOfPage, BenefitKept, BenefitIdle DEF MountedInv
  <1>25. page.at = "papers" => PapersInv'
    BY StepOfPage, PapersKept, PapersIdle DEF MountedInv
  <1>26. page.at = "requests" => RequestsInv'
    BY StepOfPage, RequestsKept, RequestsIdle DEF MountedInv
  <1>27. page.at = "deskContracts" => DeskContractsInv'
    BY StepOfPage, DeskContractsKept, DeskContractsIdle DEF MountedInv
  <1>28. page.at = "chat" => ChatInv'
    BY StepOfPage, ChatKept, ChatIdle DEF MountedInv
  <1>29. page.at = "access" => AccessInv'
    BY StepOfPage, AccessKept, AccessIdle DEF MountedInv
  <1>30. page.at = "broadcast" => BroadcastInv'
    BY StepOfPage, BroadcastKept, BroadcastIdle DEF MountedInv
  <1>31. page.at = "template" => TemplateInv'
    BY StepOfPage, TemplateKept, TemplateIdle DEF MountedInv
  <1> QED BY <1>1, <1>2, <1>3, <1>4, <1>5, <1>6, <1>7, <1>8, <1>9, <1>10, <1>11, <1>12,
             <1>13, <1>14, <1>15, <1>16, <1>17, <1>18, <1>19, <1>20, <1>21, <1>22, <1>23,
             <1>24, <1>25, <1>26, <1>27, <1>28, <1>29, <1>30, <1>31 DEF MountedInv

LEMMA MountedAlways == Spec => [](Named /\ MountedInv)
  <1> DEFINE IInv == Named /\ MountedInv
  <1>1. Init => IInv
    BY MountedBegins
  <1>2. IInv /\ [Next]_vars => IInv'
    BY MountedKept
  <1> QED BY <1>1, <1>2, PTL DEF Spec

LEMMA PortalSettled == MountedInv => PortalSettles
  <1> SUFFICES ASSUME MountedInv, tasks = {} PROVE PortalSettles
    BY DEF PortalSettles
  <1>1. page.at = "notices" => ~NoticesBusy
    BY NoticesRest DEF MountedInv
  <1>2. page.at = "push" => (page.user # None => ~page.busy)
    BY DEF MountedInv, PushInv, PushAwaited
  <1>3. page.at = "register" => ~RegisterBusy
    BY RegisterRest DEF MountedInv
  <1>4. page.at = "edit" => ~EditBusy
    BY EditRest DEF MountedInv
  <1>5. page.at = "residence" => ~DeskBusy
    BY DeskRest DEF MountedInv
  <1>6. page.at = "contracts" => ~ContractsBusy
    BY ContractsRest DEF MountedInv
  <1>7. page.at = "mine" => ~MineBusy
    BY MineRest DEF MountedInv
  <1>8. page.at = "application" => ~DetailBusy
    BY DetailRest DEF MountedInv
  <1>9. page.at = "wizard" => (WizardBusy => WizardUnread)
    BY WizardRest DEF MountedInv
  <1> QED BY <1>1, <1>2, <1>3, <1>4, <1>5, <1>6, <1>7, <1>8, <1>9 DEF PortalSettles

LEMMA PortalReported == MountedInv => PortalReports
  <1> SUFFICES ASSUME MountedInv, tasks = {} PROVE PortalReports
    BY DEF PortalReports
  <1>1. page.at = "register" => RegisterDone
    BY RegisterRest DEF MountedInv
  <1>2. page.at = "edit" => EditDone
    BY EditRest DEF MountedInv
  <1>3. page.at = "wizard" => WizardDone
    BY WizardRest DEF MountedInv
  <1> QED BY <1>1, <1>2, <1>3 DEF PortalReports

LEMMA PortalAgreed == MountedInv => PortalAgrees
  <1> SUFFICES ASSUME MountedInv, tasks = {}, ~stale PROVE PortalAgrees
    BY DEF PortalAgrees, AtRest
  <1>1. page.at = "notices" => NoticesAgree
    BY NoticesRest DEF MountedInv, AtRest
  <1>2. page.at = "residence" => DeskAgree
    BY DeskRest DEF MountedInv
  <1>3. page.at = "contracts" => ContractsAgree
    BY ContractsRest DEF MountedInv
  <1>4. page.at = "mine" => MineAgree
    BY MineRest DEF MountedInv, AtRest
  <1>5. page.at = "application" => DetailAgree
    BY DetailRest DEF MountedInv
  <1> QED BY <1>1, <1>2, <1>3, <1>4, <1>5 DEF PortalAgrees

LEMMA OfficeSettled == MountedInv => OfficeSettles
  <1> SUFFICES ASSUME MountedInv, tasks = {} PROVE OfficeSettles
    BY DEF OfficeSettles
  <1>1. page.at = "queue" => ~QueueBusy
    BY QueueRest DEF MountedInv
  <1>2. page.at = "review" => ~ReviewBusy
    BY ReviewRest DEF MountedInv
  <1>3. page.at = "residents" => ~ResidentsBusy
    BY ResidentsRest DEF MountedInv
  <1>4. page.at = "roomForm" => ~page.submitting
    BY FormRest DEF MountedInv
  <1>5. page.at = "newUser" => ~page.submitting
    BY NewUserRest DEF MountedInv
  <1>6. page.at = "place" => (PlaceBusy => PlaceUnread)
    BY PlaceRest DEF MountedInv
  <1>7. page.at = "users" => ~UsersBusy
    BY UsersRest DEF MountedInv
  <1>8. page.at = "roles" => ~RolesBusy
    BY RolesRest DEF MountedInv
  <1>9. page.at = "approvals" => ~ApprovalsBusy
    BY ApprovalsRest DEF MountedInv
  <1>10. page.at = "create" => ~CreateBusy
    BY CreateRest DEF MountedInv
  <1>11. page.at = "protocol" => ~ProtocolBusy
    BY ProtocolRest DEF MountedInv
  <1>12. page.at = "protocols" => ~ProtocolsBusy
    BY ProtocolsRest DEF MountedInv
  <1>13. page.at = "houseForm" => ~HouseFormBusy
    BY HouseFormRest DEF MountedInv
  <1>14. page.at = "benefit" => ~BenefitBusy
    BY BenefitRest DEF MountedInv
  <1>15. page.at = "papers" => ~PapersBusy
    BY PapersRest DEF MountedInv
  <1>16. page.at = "requests" => ~RequestsBusy
    BY RequestsRest DEF MountedInv
  <1>17. page.at = "deskContracts" => (DeskContractsBusy => DeskContractsUnread)
    BY DeskContractsRest DEF MountedInv
  <1>18. page.at = "chat" => ~ChatBusy
    BY ChatRest DEF MountedInv
  <1>19. page.at = "access" => ~AccessBusy
    BY AccessRest DEF MountedInv
  <1>20. page.at = "broadcast" => ~BroadcastBusy
    BY BroadcastRest DEF MountedInv
  <1>21. page.at = "template" => ~TemplateBusy
    BY TemplateRest DEF MountedInv
  <1> QED BY <1>1, <1>2, <1>3, <1>4, <1>5, <1>6, <1>7, <1>8, <1>9, <1>10, <1>11, <1>12,
             <1>13, <1>14, <1>15, <1>16, <1>17, <1>18, <1>19, <1>20, <1>21 DEF OfficeSettles

LEMMA OfficeReported == MountedInv => OfficeReports
  <1> SUFFICES ASSUME MountedInv, tasks = {} PROVE OfficeReports
    BY DEF OfficeReports
  <1>1. page.at = "review" => ReviewDone
    BY ReviewRest DEF MountedInv
  <1>2. page.at = "roomForm" => FormDone
    BY FormRest DEF MountedInv
  <1>3. page.at = "place" => PlaceDone
    BY PlaceRest DEF MountedInv
  <1>4. page.at = "users" => UsersDone
    BY UsersRest DEF MountedInv
  <1>5. page.at = "roles" => RolesDone
    BY RolesRest DEF MountedInv
  <1>6. page.at = "newUser" => NewUserDone
    BY NewUserRest DEF MountedInv
  <1>7. page.at = "create" => CreateDone
    BY CreateRest DEF MountedInv
  <1>8. page.at = "protocol" => ProtocolDone
    BY ProtocolRest DEF MountedInv
  <1>9. page.at = "houseForm" => HouseFormDone
    BY HouseFormRest DEF MountedInv
  <1>10. page.at = "access" => AccessDone
    BY AccessRest DEF MountedInv
  <1>11. page.at = "broadcast" => BroadcastDone
    BY BroadcastRest DEF MountedInv
  <1>12. page.at = "chat" => ChatWhole
    BY ChatRest DEF MountedInv
  <1>13. page.at = "template" => (TemplateDone /\ TemplateWhole)
    BY TemplateRest DEF MountedInv
  <1> QED BY <1>1, <1>2, <1>3, <1>4, <1>5, <1>6, <1>7, <1>8, <1>9, <1>10, <1>11, <1>12,
             <1>13 DEF OfficeReports

LEMMA OfficeAgreed == MountedInv => OfficeAgrees
  <1> SUFFICES ASSUME MountedInv, tasks = {}, ~stale PROVE OfficeAgrees
    BY DEF OfficeAgrees, AtRest
  <1>1. page.at = "queue" => QueueAgree
    BY QueueRest DEF MountedInv
  <1>2. page.at = "review" => ReviewAgree
    BY ReviewRest DEF MountedInv
  <1>3. page.at = "residents" => ResidentsAgree
    BY ResidentsRest DEF MountedInv
  <1>4. page.at = "place" => PlaceAgree
    BY PlaceRest DEF MountedInv
  <1>5. page.at = "users" => UsersAgree
    BY UsersRest DEF MountedInv
  <1>6. page.at = "approvals" => ApprovalsAgree
    BY ApprovalsRest DEF MountedInv
  <1>7. page.at = "protocol" => ProtocolAgrees
    BY ProtocolRest DEF MountedInv
  <1>8. page.at = "protocols" => ProtocolsAgree
    BY ProtocolsRest DEF MountedInv
  <1>9. page.at = "houseForm" => HouseFormAgrees
    BY HouseFormRest DEF MountedInv
  <1>10. page.at = "benefit" => BenefitAgrees
    BY BenefitRest DEF MountedInv
  <1>11. page.at = "papers" => PapersAgree
    BY PapersRest DEF MountedInv
  <1>12. page.at = "requests" => RequestsAgree
    BY RequestsRest DEF MountedInv
  <1>13. page.at = "deskContracts" => DeskContractsAgree
    BY DeskContractsRest DEF MountedInv
  <1>14. page.at = "chat" => ChatAgrees
    BY ChatRest DEF MountedInv
  <1>15. page.at = "access" => AccessAgrees
    BY AccessRest DEF MountedInv
  <1> QED BY <1>1, <1>2, <1>3, <1>4, <1>5, <1>6, <1>7, <1>8, <1>9, <1>10, <1>11, <1>12,
             <1>13, <1>14, <1>15 DEF OfficeAgrees

\* A page never waits for what is not under way: with no function running, no
\* button stays disabled and no spinner turns, whichever calls failed and in
\* whatever order they returned (the finally blocks and the functional updates
\* of every page), but for the three pages of the code that say "loading" for
\* ever once a first reading has failed: there nothing else waits.
THEOREM PagesNeverStick == Spec => []NeverStuck
  <1>1. Named /\ MountedInv => NeverStuck
    BY PortalSettled, OfficeSettled DEF NeverStuck
  <1> QED BY <1>1, MountedAlways, PTL

\* What a page reports as done has been done, to the values that were sent, also
\* when it takes several calls or its fields were edited while one was under way
\* (the handlers of the forms, of the wizard and of the dialogs); SuccessIsTrue
\* names what is not claimed.
THEOREM SuccessIsTold == Spec => []SuccessIsTrue
  <1>1. Named /\ MountedInv => SuccessIsTrue
    BY PortalReported, OfficeReported DEF SuccessIsTrue
  <1> QED BY <1>1, MountedAlways, PTL

\* A page at rest shows the rows as they are after its own actions and their
\* failures (the reload after a mutation, the local updates that replace one),
\* as long as it can know of them: not once others changed the rows, the answer
\* of an own change was lost, or readings were overtaken (stale).
THEOREM RestIsTrue == Spec => []RestAgrees
  <1>1. Named /\ MountedInv => RestAgrees
    BY PortalAgreed, OfficeAgreed DEF RestAgrees
  <1> QED BY <1>1, MountedAlways, PTL
=============================================================================
