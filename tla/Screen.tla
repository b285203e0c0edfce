------------------------------- MODULE Screen -------------------------------
(***************************************************************************)
(* A page of the single-page application: the React state of the mounted   *)
(* component, the async functions it has started, and the rows of the      *)
(* server it is about.  An async function is a task; at every await of an  *)
(* API call its record says how far that call is.  The pages extend this   *)
(* module; one of them is mounted in a behaviour.                          *)
(***************************************************************************)
EXTENDS Naturals, FiniteSets, TLC

CONSTANTS None, MaxTasks

ASSUME ScreenAssumption == MaxTasks \in Nat \ {0}

VARIABLES
  page,    \* the state of the mounted component, page.at names it
  tasks,   \* the async functions under way
  server,  \* the rows behind the page
  stale    \* ghost: the rows may have changed in a way the page cannot know of:
           \* by somebody else, by a call whose answer was lost, or past a
           \* reading whose answer is still on its way; until they are read again

vars == <<page, tasks, server, stale>>

\* fn: the function; no: which activation of it; wire: the call it awaits;
\* arg: what it was started with; reply: what the call returned.
Task(fn, no, arg) ==
  [fn |-> fn, no |-> no, wire |-> "sent", arg |-> arg, reply |-> None]
New(fn, arg) ==
  Task(fn, CHOOSE n \in 1..(MaxTasks + 1) : \A t \in tasks : t.fn = fn => t.no # n, arg)

\* A bound: how many functions one tap may find under way.
MayTap == Cardinality(tasks) < MaxTasks
Awaiting(t, fns) == t.fn \in fns /\ t.wire = "sent"
Returned(t, fn) == t.fn = fn /\ t.wire = "ok"
Threw(t, fn) == t.fn = fn /\ t.wire = "failed"

Start(new) == tasks' = tasks \cup {new}
End(t) == tasks' = tasks \ {t}
\* The function goes on to another call (another fn names the place).
GoOn(t, next) == tasks' = (tasks \ {t}) \cup {next}
Answered(t, wire, reply) ==
  GoOn(t, [t EXCEPT !.wire = wire, !.reply = reply])

\* What was read is on its way to the page, perhaps by way of further calls
\* about each row.
OnItsWay(u) == u.wire = "ok" \/ u.fn = "enrich"
ReadUnderWay(except) ==
  \E u \in tasks \ {except} : u.fn \in {"load", "enrich"} /\ OnItsWay(u)

\* A call: it is carried out and answered, carried out and its answer lost, or
\* refused or lost itself.  A reading brings the page up to date unless another
\* answer is on its way, which may undo that.
Serve(t, accepts, after, reply) ==
  /\ UNCHANGED page
  /\ \/ /\ accepts /\ server' = after /\ Answered(t, "ok", reply)
        /\ stale' = IF t.fn = "load" THEN \E u \in tasks \ {t} : OnItsWay(u)
                     ELSE stale \/ (after # server /\ ReadUnderWay(t))
     \/ /\ accepts /\ after # server
        /\ server' = after /\ Answered(t, "failed", None) /\ stale' = TRUE
     \/ /\ Answered(t, "failed", None) /\ UNCHANGED <<server, stale>>

\* Somebody else changes the rows.
Elsewhere(after) ==
  /\ server' = after /\ server' # server /\ stale' = TRUE
  /\ UNCHANGED <<page, tasks>>

\* Nothing is under way, and nothing has changed the rows behind the page's back.
AtRest == tasks = {} /\ ~stale
=============================================================================
