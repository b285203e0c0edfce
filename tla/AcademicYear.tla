---------------------------- MODULE AcademicYear ----------------------------
(***************************************************************************)
(* AcademicYearService and what it works on: every July 30 the students    *)
(* who are at the last course of their degree graduate and the others move *)
(* up.  Run is called at startup, by a ticker and by an administrator, all *)
(* at any time; the statements of one transaction are steps, and accounts  *)
(* and profiles are written by other requests in between.                  *)
(*                                                                         *)
(* An UPDATE holds the rows it changed until the transaction ends; a       *)
(* statement of somebody else on such a row waits.  READ COMMITTED: every  *)
(* statement sees what is committed when it starts.                        *)
(***************************************************************************)
EXTENDS Naturals, FiniteSets

CONSTANTS
  Students,
  Degrees, MaxCourse,     \* domain.AcademicDegree.MaxCourse
  Bachelor,               \* what validateCourse assumes without a degree
  None,                   \* SQL NULL for a degree
  Runs, Ticker,           \* goroutines that may be inside Run; that of main
  MaxYear,                \* bound: July 30ths that pass
  MaxCalls,               \* bound: requests between two of their statements
  MaxRollbacks            \* bound: runs that end in an error or a crash

ASSUME DegreesAssumption ==
  /\ MaxCourse \in [Degrees -> Nat \ {0}]
  /\ Bachelor \in Degrees /\ None \notin Degrees
ASSUME RunsAssumption == Ticker \in Runs
ASSUME YearsAssumption == MaxYear \in Nat

VARIABLES
  account,        \* users.approval_status of a student, "none" without a row
  profile,        \* student_profiles; course 0 is NULL
  last,           \* academic_year_rollover_state, 0 is NULL
  year,           \* effectiveAcademicYear(now)
  runs,           \* calls of Run
  calls,          \* other requests between two of their statements
  since,          \* history: what was last recorded of an approved student
  rollbacks       \* runs that have ended in an error or a crash

yearVars == <<account, profile, last, year, runs, calls, since, rollbacks>>

Course(d) == 1 .. MaxCourse[IF d = None THEN Bachelor ELSE d]
Profile == [course : Nat, degree : Degrees \cup {None}]
NoProfile == [course |-> 0, degree |-> None]

Run == [at : {"idle", "called", "baseline", "loop", "locked", "graduated",
              "advanced"},
        next : Nat, until : Nat,
        graduated : SUBSET Students, advanced : SUBSET Students]
Idle == [at |-> "idle", next |-> 0, until |-> 0, graduated |-> {}, advanced |-> {}]

\* A request that has read or written a row and is still to write another.
Call == [op : {"create", "approve", "reject", "fill"}, student : Students,
         profile : Profile]

Since == [course : Nat, year : Nat, open : BOOLEAN]
Nothing == [course |-> 0, year |-> 0, open |-> FALSE]

YearTypeOK ==
  /\ account \in [Students -> {"none", "pending", "approved", "graduated"}]
  /\ profile \in [Students -> Profile]
  /\ last \in Nat /\ year \in Nat
  /\ runs \in [Runs -> Run]
  /\ calls \subseteq Call
  /\ since \in [Students -> Since]
  /\ rollbacks \in Nat

YearInit ==
  /\ account = [s \in Students |-> "none"]
  /\ profile = [s \in Students |-> NoProfile]
  /\ last = 0 /\ year = 1
  /\ runs = [r \in Runs |-> Idle]
  /\ calls = {}
  /\ since = [s \in Students |-> Nothing]
  /\ rollbacks = 0

------------------------------------------------------------------------------
\* Rows

\* The transaction that has the row of academic_year_rollover_state.
Holds(r) == runs[r].at \in {"locked", "graduated", "advanced"}
\* Its UPDATE of users, or that of student_profiles, has been made.
Underway == \E r \in Runs : runs[r].at \in {"graduated", "advanced"}

AccountFree(s) == \A r \in Runs : s \notin runs[r].graduated
ProfileFree(s) == \A r \in Runs : s \notin runs[r].advanced

Complete(p) == p.course # 0 /\ p.degree # None
Known(s) == Complete(profile[s])
Most(s) == MaxCourse[profile[s].degree]

\* What a statement leaves of student s: account a, profile p.
Record(s, a, p) ==
  /\ account' = [account EXCEPT ![s] = a]
  /\ profile' = [profile EXCEPT ![s] = p]
  /\ since' = [since EXCEPT ![s] =
       IF a = "approved" /\ Complete(p)
       THEN [course |-> p.course, year |-> last, open |-> Underway] ELSE Nothing]

Others == <<last, year, runs, rollbacks>>

------------------------------------------------------------------------------
\* The accounts of students

\* createStudentAccount: a registration, or a manager adds the student; the
\* profile is another statement.
CreateAccount(s) ==
  /\ account[s] = "none" /\ Cardinality(calls) < MaxCalls
  /\ \E a \in {"pending", "approved"}, d \in Degrees : \E c \in Course(d) :
       /\ Record(s, a, NoProfile)
       /\ calls' = calls \cup {[op |-> "create", student |-> s,
                                profile |-> [course |-> c, degree |-> d]]}
  /\ UNCHANGED Others

\* The statement is refused when the account has gone in the meantime.
UpsertProfile(k) ==
  /\ k.op \in {"create", "fill"} /\ ProfileFree(k.student)
  /\ calls' = calls \ {k}
  /\ IF account[k.student] = "none"
     THEN UNCHANGED <<account, profile, since>>
     ELSE Record(k.student, account[k.student], k.profile)
  /\ UNCHANGED Others

\* UpsertStudentProfile writes what the form has; a course is checked against
\* the degree of the form or, without one, against the recorded one.
UpsertStudentProfile(s) ==
  /\ account[s] # "none" /\ ProfileFree(s)
  /\ \E d \in Degrees \cup {None} :
       \E c \in {0} \cup Course(IF d = None THEN profile[s].degree ELSE d) :
          Record(s, account[s], [course |-> c, degree |-> d])
  /\ UNCHANGED <<calls, Others>>

\* UpdateStudentDetails: a student fills in the course that is not recorded.
FillCourse(s) ==
  /\ account[s] = "approved" /\ profile[s].course = 0 /\ Cardinality(calls) < MaxCalls
  /\ \E c \in Course(profile[s].degree) :
       calls' = calls \cup {[op |-> "fill", student |-> s,
                             profile |-> [profile[s] EXCEPT !.course = c]]}
  /\ UNCHANGED <<account, profile, since, Others>>

\* DecideStudentApproval reads that the registration is pending, ...
DecideStudentApproval(s) ==
  /\ account[s] = "pending" /\ Cardinality(calls) < MaxCalls
  /\ \E op \in {"approve", "reject"} :
       calls' = calls \cup {[op |-> op, student |-> s, profile |-> NoProfile]}
  /\ UNCHANGED <<account, profile, since, Others>>

\* ... and writes without looking again.
UpdateApprovalStatus(k) ==
  /\ k.op = "approve" /\ AccountFree(k.student)
  /\ calls' = calls \ {k}
  /\ IF account[k.student] = "none"
     THEN UNCHANGED <<account, profile, since>>
     ELSE Record(k.student, "approved", profile[k.student])
  /\ UNCHANGED Others

\* The row goes with its profile, by ON DELETE CASCADE.
DeleteRejected(k) ==
  /\ k.op = "reject" /\ AccountFree(k.student) /\ ProfileFree(k.student)
  /\ calls' = calls \ {k}
  /\ Record(k.student, "none", NoProfile)
  /\ UNCHANGED Others

DeleteUser(s) ==
  /\ account[s] # "none" /\ AccountFree(s) /\ ProfileFree(s)
  /\ Record(s, "none", NoProfile)
  /\ UNCHANGED <<calls, Others>>

\* The request ends between its two statements.
CallDies(k) ==
  /\ calls' = calls \ {k}
  /\ UNCHANGED <<account, profile, since, Others>>

------------------------------------------------------------------------------
\* Run

Step(r, f) ==
  /\ runs' = [runs EXCEPT ![r] = f]
  /\ UNCHANGED <<account, profile, year, calls, rollbacks>>

NewYear ==
  /\ year < MaxYear /\ year' = year + 1
  /\ UNCHANGED <<account, profile, last, runs, calls, since, rollbacks>>

CallRun(r) ==
  /\ runs[r].at = "idle"
  /\ Step(r, [Idle EXCEPT !.at = "called", !.until = year])
  /\ UNCHANGED <<last, since>>

\* Mutant: a service that has never run does nothing.
LastRolledOverYearMutant(r) ==
  /\ runs[r].at = "called"
  /\ Step(r, IF last = 0 THEN Idle
             ELSE [runs[r] EXCEPT !.at = "loop", !.next = last + 1])
  /\ UNCHANGED <<last, since>>

LastRolledOverYear(r) ==
  /\ runs[r].at = "called"
  /\ Step(r, IF last = 0 THEN [runs[r] EXCEPT !.at = "baseline"]
             ELSE [runs[r] EXCEPT !.at = "loop", !.next = last + 1])
  /\ UNCHANGED <<last, since>>

\* The first run ever only notes the year: who is recorded is as of it.
BaselineIfUnset(r) ==
  /\ runs[r].at = "baseline"
  /\ IF last = 0
     THEN /\ last' = runs[r].until
          /\ since' = [s \in Students |->
               IF since[s] = Nothing THEN Nothing
               ELSE [since[s] EXCEPT !.year = runs[r].until]]
     ELSE UNCHANGED <<last, since>>
  /\ Step(r, Idle)

\* Mutant: the transaction does not look whether the year has been applied.
BeginYearMutant(r) ==
  /\ runs[r].at = "loop" /\ runs[r].next <= runs[r].until
  /\ \A q \in Runs : ~Holds(q)
  /\ Step(r, [runs[r] EXCEPT !.at = "locked"])
  /\ UNCHANGED <<last, since>>

\* The loop over the years, and SELECT ... FOR UPDATE: a year that somebody
\* else has applied is skipped.
BeginYear(r) ==
  /\ runs[r].at = "loop" /\ runs[r].next <= runs[r].until
  /\ \A q \in Runs : ~Holds(q)
  /\ Step(r, IF last # 0 /\ last >= runs[r].next
             THEN [runs[r] EXCEPT !.next = @ + 1]
             ELSE [runs[r] EXCEPT !.at = "locked"])
  /\ UNCHANGED <<last, since>>

Return(r) ==
  /\ runs[r].at = "loop" /\ runs[r].next > runs[r].until
  /\ Step(r, Idle) /\ UNCHANGED <<last, since>>

Graduate(r) ==
  /\ runs[r].at = "locked"
  /\ Step(r, [runs[r] EXCEPT !.at = "graduated", !.graduated =
       {s \in Students : account[s] = "approved" /\ Known(s)
                           /\ profile[s].course >= Most(s)}])
  /\ UNCHANGED <<last, since>>

\* The second UPDATE sees what the first one did, and what has been committed
\* since by others.
Advance(r) ==
  /\ runs[r].at = "graduated"
  /\ Step(r, [runs[r] EXCEPT !.at = "advanced", !.advanced =
       {s \in Students : s \notin runs[r].graduated /\ account[s] = "approved"
                           /\ Known(s) /\ profile[s].course < Most(s)}])
  /\ UNCHANGED <<last, since>>

Commit(r) ==
  /\ runs[r].at = "advanced"
  /\ account' = [s \in Students |->
       IF s \in runs[r].graduated THEN "graduated" ELSE account[s]]
  /\ profile' = [s \in Students |->
       IF s \in runs[r].advanced
       THEN [profile[s] EXCEPT !.course = @ + 1] ELSE profile[s]]
  /\ last' = runs[r].next
  /\ runs' = [runs EXCEPT ![r] = [Idle EXCEPT !.at = "loop",
                 !.next = runs[r].next + 1, !.until = runs[r].until]]
  /\ UNCHANGED <<year, calls, since, rollbacks>>

\* An error or a crash, also of the whole process run by run: the transaction
\* is rolled back and Run returns.
RollBack(r) ==
  /\ runs[r].at # "idle" /\ rollbacks < MaxRollbacks
  /\ runs' = [runs EXCEPT ![r] = Idle] /\ rollbacks' = rollbacks + 1
  /\ UNCHANGED <<account, profile, last, year, calls, since>>

------------------------------------------------------------------------------
RunStep(r) ==
  \/ LastRolledOverYear(r) \/ BaselineIfUnset(r) \/ BeginYear(r) \/ Return(r)
  \/ Graduate(r) \/ Advance(r) \/ Commit(r)

YearNext ==
  \/ \E s \in Students : \/ CreateAccount(s) \/ UpsertStudentProfile(s)
                         \/ FillCourse(s) \/ DecideStudentApproval(s) \/ DeleteUser(s)
  \/ \E k \in calls : \/ UpsertProfile(k) \/ UpdateApprovalStatus(k)
                      \/ DeleteRejected(k) \/ CallDies(k)
  \/ \E r \in Runs : CallRun(r) \/ RunStep(r) \/ RollBack(r)
  \/ NewYear

YearSpec == YearInit /\ [][YearNext]_yearVars


------------------------------------------------------------------------------
\* The course of a student on the day, by what was last recorded.
Due(s) == since[s].course + (last - since[s].year)

\* A student moves up by one course for every July 30 since the last time that
\* the registration was decided or the profile written, whichever runs overlap,
\* fail half-way or are late, never beyond the degree, and graduates no
\* earlier than the degree takes.  Who was recorded between the statements of
\* a rollover may miss or gain that one year (AcademicYearService.Run,
\* RolloverCourses).
CourseKeepsPace ==
  \A s \in Students :
    /\ account[s] = "approved" /\ Known(s) =>
         /\ profile[s].course <= Most(s)
         /\ \/ profile[s].course = Due(s)
            \/ since[s].open /\ profile[s].course + 1 = Due(s)
    /\ account[s] = "graduated" /\ since[s] # Nothing =>
         Known(s) /\ (Due(s) > Most(s) \/ since[s].open)

\* The years are applied one by one: no step skips one, and none is applied
\* before it has come.
YearByYear == [][last' # last => last' <= year
                                 /\ (last = 0 \/ last' = last + 1)]_yearVars
=============================================================================
