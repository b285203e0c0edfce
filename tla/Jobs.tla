-------------------------------- MODULE Jobs --------------------------------
(***************************************************************************)
(* The background jobs that main starts beside the overdue checker (which  *)
(* is in Placement).  The yearly rollover and the document checks share no *)
(* row, so a behaviour is that of one of them.                             *)
(***************************************************************************)
EXTENDS AcademicYear, DocumentCheck

VARIABLE job

jobVars == <<job, yearVars, docVars>>

Init == job \in {"rollover", "documents"} /\ YearInit /\ DocInit

Rolling(A) == job = "rollover" /\ A /\ UNCHANGED <<job, docVars>>
Checking(A) == job = "documents" /\ A /\ UNCHANGED <<job, yearVars>>

Next == Rolling(YearNext) \/ Checking(DocNext)

\* The tickers tick, what is inside Run or RunOnce goes on, the process is
\* started again, and time passes.
Fairness ==
  /\ WF_jobVars(Rolling(CallRun(Ticker)))
  /\ WF_jobVars(Rolling(\E r \in Runs : RunStep(r)))
  /\ WF_jobVars(Checking(WorkerStep))
  /\ WF_jobVars(Checking(\E d \in Documents : TenMinutes(d)))

Spec == Init /\ [][Next]_jobVars /\ Fairness

------------------------------------------------------------------------------
\* A July 30 that has come is applied by the ticker's own calls, however many
\* of them were missed before (startAcademicYearChecker: "caught up on the
\* very next boot").
YearsCatchUp ==
  \A y \in 1 .. MaxYear : (job = "rollover" /\ year = y) ~> last >= y
=============================================================================
