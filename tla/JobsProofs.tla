----------------------------- MODULE JobsProofs -----------------------------
(***************************************************************************)
(* What holds of the background jobs for any number of students, degrees,  *)
(* callers of Run, years and documents: the rollover keeps every student's *)
(* course in pace with the years and applies these one by one, and the     *)
(* document checks are made of what has been claimed, no more often than   *)
(* their attempts and losses allow.                                        *)
(***************************************************************************)
EXTENDS Jobs, TLAPS

\* One transaction at a time, which is at the year after the last one.
Transactions ==
  /\ \A r, q \in Runs : Holds(r) /\ Holds(q) => r = q
  /\ \A r \in Runs :
       /\ runs[r].until <= year
       /\ runs[r].at \in {"called", "baseline"} => runs[r].until # 0
       /\ runs[r].at = "loop" \/ Holds(r) =>
            last # 0 /\ runs[r].next # 0 /\ runs[r].next <= last + 1
       /\ Holds(r) => runs[r].next = last + 1 /\ runs[r].next <= runs[r].until
       /\ runs[r].at \notin {"graduated", "advanced"} => runs[r].graduated = {}
       /\ runs[r].at # "advanced" => runs[r].advanced = {}
  /\ year # 0 /\ last <= year

\* A course that is recorded with its degree is one of the degree.
WithinDegree(p) == Complete(p) => p.course <= MaxCourse[p.degree]
Courses ==
  /\ \A s \in Students : WithinDegree(profile[s])
  /\ \A k \in calls : k.op \in {"create", "fill"} => WithinDegree(k.profile)

\* What is noted of a student is from an earlier year, or from this one.
Noted ==
  \A s \in Students :
    /\ account[s] = "approved" /\ Known(s) => since[s] # Nothing
    /\ since[s] # Nothing => /\ account[s] \in {"approved", "graduated"} /\ Known(s)
                             /\ since[s].course # 0 /\ since[s].year <= last
                             /\ last # 0 => since[s].year # 0

\* Recorded after the UPDATE that would have taken the student along.
Missed(s) ==
  since[s].open /\ since[s].year = last /\ since[s].course = profile[s].course

\* The rows of a transaction, and who is not among them.
Rows ==
  \A r \in Runs :
    /\ \A s \in runs[r].graduated :
         /\ account[s] = "approved"
         /\ since[s] # Nothing => since[s].open \/ profile[s].course >= Most(s)
    /\ \A s \in runs[r].advanced :
         /\ account[s] = "approved" /\ Known(s) /\ profile[s].course < Most(s)
         /\ s \notin runs[r].graduated
    /\ \A s \in Students :
         account[s] = "approved" /\ Known(s) /\ s \notin runs[r].graduated =>
           /\ runs[r].at = "graduated" /\ profile[s].course >= Most(s) => Missed(s)
           /\ runs[r].at = "advanced" /\ s \notin runs[r].advanced => Missed(s)

YearInv ==
  YearTypeOK /\ Transactions /\ Courses /\ Noted /\ Rows /\ CourseKeepsPace

-----------------------------------------------------------------------------
(* The rollover: one lemma for each kind of step. *)

LEMMA Pieces ==
  /\ NoProfile \in Profile /\ Idle \in Run /\ Nothing \in Since
  /\ WithinDegree(NoProfile)
  /\ \A d \in Degrees : MaxCourse[d] \in Nat \ {0}
  BY DegreesAssumption DEF NoProfile, Profile, Idle, Run, Nothing, Since, WithinDegree,
     Complete, DegreesAssumption

\* A statement on the rows of one student leaves the others alone.
LEMMA RecordOne ==
  ASSUME YearTypeOK, NEW s \in Students, NEW a, NEW p, Record(s, a, p)
  PROVE  /\ account'[s] = a /\ profile'[s] = p
         /\ since'[s] = IF a = "approved" /\ Complete(p)
                        THEN [course |-> p.course, year |-> last, open |-> Underway]
                        ELSE Nothing
         /\ \A t \in Students : t # s => /\ account'[t] = account[t]
                                         /\ profile'[t] = profile[t]
                                         /\ since'[t] = since[t]
  BY DEF YearTypeOK, Record

\* A statement on the rows of student s: who changes the account found it in no
\* transaction's hands, and so did who changes the profile.
LEMMA RecordKeeps ==
  ASSUME YearInv, NEW s \in Students,
         NEW a \in {"none", "pending", "approved", "graduated"}, NEW p \in Profile,
         Record(s, a, p), WithinDegree(p), a = "none" => p = NoProfile,
         AccountFree(s) \/ a = account[s],
         ProfileFree(s) \/ (a = "approved" /\ p = profile[s]),
         last' = last, year' = year, runs' = runs, rollbacks' = rollbacks,
         calls' \subseteq Call,
         \A k \in calls' : k.op \in {"create", "fill"} => WithinDegree(k.profile)
  PROVE  YearInv'
<1>1. /\ account'[s] = a /\ profile'[s] = p
      /\ since'[s] = IF a = "approved" /\ Complete(p)
                     THEN [course |-> p.course, year |-> last, open |-> Underway]
                     ELSE Nothing
      /\ \A t \in Students : t # s => /\ account'[t] = account[t]
                                      /\ profile'[t] = profile[t]
                                      /\ since'[t] = since[t]
  BY RecordOne DEF YearInv
<1>2. p.course \in Nat /\ p.degree \in Degrees \cup {None} /\ last \in Nat
  BY DEF YearInv, YearTypeOK, Profile
<1>3. Underway \in BOOLEAN
  BY DEF Underway
<1>4. YearTypeOK'
  <2>1. [course |-> p.course, year |-> last, open |-> Underway] \in Since
    BY <1>2, <1>3 DEF Since
  <2>2. Nothing \in Since
    BY Pieces
  <2>3. since' \in [Students -> Since]
    BY <2>1, <2>2 DEF YearInv, YearTypeOK, Record
  <2> QED BY <2>3 DEF YearInv, YearTypeOK, Record
<1>5. Transactions'
  BY DEF YearInv, Transactions, Holds
<1>6. Courses'
  BY <1>1 DEF YearInv, Courses, WithinDegree, Complete
<1>7. Noted'
  <2> SUFFICES ASSUME NEW t \in Students
               PROVE  /\ account'[t] = "approved" /\ Known(t)' => since'[t] # Nothing
                      /\ since'[t] # Nothing =>
                           /\ account'[t] \in {"approved", "graduated"} /\ Known(t)'
                           /\ since'[t].course # 0 /\ since'[t].year <= last
                           /\ last # 0 => since'[t].year # 0
    BY DEF Noted
  <2>1. CASE t # s
    BY <2>1, <1>1 DEF YearInv, Noted, Known, Complete
  <2>2. CASE t = s
    <3>1. CASE a = "approved" /\ Complete(p)
      BY <2>2, <3>1, <1>1, <1>2 DEF Known, Complete, Nothing
    <3>2. CASE ~(a = "approved" /\ Complete(p))
      BY <2>2, <3>2, <1>1 DEF Known, Complete
    <3> QED BY <3>1, <3>2
  <2> QED BY <2>1, <2>2
<1>8. Rows'
  <2> SUFFICES ASSUME NEW r \in Runs
               PROVE
    /\ \A t \in runs[r].graduated :
         /\ account'[t] = "approved"
         /\ since'[t] # Nothing => since'[t].open \/ profile'[t].course >= Most(t)'
    /\ \A t \in runs[r].advanced :
         /\ account'[t] = "approved" /\ Known(t)' /\ profile'[t].course < Most(t)'
         /\ t \notin runs[r].graduated
    /\ \A t \in Students :
         account'[t] = "approved" /\ Known(t)' /\ t \notin runs[r].graduated =>
           /\ runs[r].at = "graduated" /\ profile'[t].course >= Most(t)' => Missed(t)'
           /\ runs[r].at = "advanced" /\ t \notin runs[r].advanced => Missed(t)'
    BY DEF Rows
  <2>1. runs[r] \in Run /\ runs[r].graduated \subseteq Students
          /\ runs[r].advanced \subseteq Students
    BY DEF YearInv, YearTypeOK, Run
  <2>2. ASSUME NEW t \in Students, t # s
        PROVE  /\ Known(t)' = Known(t) /\ Most(t)' = Most(t) /\ Missed(t)' = Missed(t)
    BY <2>2, <1>1 DEF Known, Complete, Most, Missed
  <2>3. runs[r].at \in {"graduated", "advanced"} => Underway
    BY DEF Underway
  <2>4. ASSUME a = "approved", Complete(p)
        PROVE  /\ since'[s] = [course |-> p.course, year |-> last, open |-> Underway]
               /\ runs[r].at \in {"graduated", "advanced"} => Missed(s)' /\ since'[s].open
    BY <2>3, <2>4, <1>1 DEF Missed
  <2>5. \A t \in runs[r].graduated : runs[r].at \in {"graduated", "advanced"}
    BY DEF YearInv, Transactions
  <2>6. \A t \in runs[r].advanced : runs[r].at = "advanced"
    BY DEF YearInv, Transactions
  <2>7. ASSUME NEW t \in runs[r].graduated
        PROVE  /\ account'[t] = "approved"
               /\ since'[t] # Nothing => since'[t].open \/ profile'[t].course >= Most(t)'
    <3>1. CASE t # s
      BY <3>1, <2>1, <2>2, <1>1 DEF YearInv, Rows
    <3>2. CASE t = s
      <4>1. a = account[s] /\ account[s] = "approved"
        BY <3>2 DEF AccountFree, YearInv, Rows
      <4> QED BY <3>2, <4>1, <2>4, <2>5, <1>1
    <3> QED BY <3>1, <3>2
  <2>8. ASSUME NEW t \in runs[r].advanced
        PROVE  /\ account'[t] = "approved" /\ Known(t)' /\ profile'[t].course < Most(t)'
               /\ t \notin runs[r].graduated
    <3>1. CASE t # s
      BY <3>1, <2>1, <2>2, <1>1 DEF YearInv, Rows
    <3>2. CASE t = s
      <4>1. a = "approved" /\ p = profile[s]
        BY <3>2 DEF ProfileFree
      <4> QED BY <3>2, <4>1, <1>1 DEF YearInv, Rows, Known, Most
    <3> QED BY <3>1, <3>2
  <2>9. ASSUME NEW t \in Students,
               account'[t] = "approved", Known(t)', t \notin runs[r].graduated
        PROVE  /\ runs[r].at = "graduated" /\ profile'[t].course >= Most(t)' => Missed(t)'
               /\ runs[r].at = "advanced" /\ t \notin runs[r].advanced => Missed(t)'
    <3>1. CASE t # s
      BY <3>1, <2>2, <2>9, <1>1 DEF YearInv, Rows
    <3>2. CASE t = s
      BY <3>2, <2>4, <2>9, <1>1 DEF Known
    <3> QED BY <3>1, <3>2
  <2> QED BY <2>7, <2>8, <2>9
<1>9. CourseKeepsPace'
  <2> SUFFICES ASSUME NEW t \in Students
               PROVE
    /\ account'[t] = "approved" /\ Known(t)' =>
         /\ profile'[t].course <= Most(t)'
         /\ \/ profile'[t].course = Due(t)'
            \/ since'[t].open /\ profile'[t].course + 1 = Due(t)'
    /\ account'[t] = "graduated" /\ since'[t] # Nothing =>
         Known(t)' /\ (Due(t)' > Most(t)' \/ since'[t].open)
    BY DEF CourseKeepsPace
  <2>1. CASE t # s
    BY <2>1, <1>1 DEF YearInv, CourseKeepsPace, Known, Complete, Most, Due
  <2>2. CASE t = s
    <3>1. CASE a = "approved" /\ Complete(p)
      <4>1. Due(s)' = p.course + (last - last)
        BY <3>1, <1>1 DEF Due
      <4> QED BY <4>1, <2>2, <3>1, <1>1, <1>2 DEF WithinDegree, Most
    <3>2. CASE ~(a = "approved" /\ Complete(p))
      BY <2>2, <3>2, <1>1 DEF Known
    <3> QED BY <3>1, <3>2
  <2> QED BY <2>1, <2>2
<1> QED BY <1>4, <1>5, <1>6, <1>7, <1>8, <1>9 DEF YearInv

\* A request that is remembered or dropped touches no row.
LEMMA CallsKeep ==
  ASSUME YearInv, UNCHANGED <<account, profile, since, Others>>, calls' \subseteq Call,
         \A k \in calls' : k.op \in {"create", "fill"} => WithinDegree(k.profile)
  PROVE  YearInv'
<1> USE DEF Others
<1>1. YearTypeOK'
  BY DEF YearInv, YearTypeOK
<1>2. Transactions'
  BY DEF YearInv, Transactions, Holds
<1>3. Courses'
  BY DEF YearInv, Courses, WithinDegree, Complete
<1>4. Noted'
  BY DEF YearInv, Noted, Known, Complete
<1>5. Rows'
  BY DEF YearInv, Rows, Known, Complete, Most, Missed
<1>6. CourseKeepsPace'
  BY DEF YearInv, CourseKeepsPace, Known, Complete, Most, Due
<1> QED BY <1>1, <1>2, <1>3, <1>4, <1>5, <1>6 DEF YearInv

\* A run that moves outside of the two UPDATEs.
LEMMA MoveKeeps ==
  ASSUME YearInv, NEW r \in Runs, NEW f \in Run,
         f.at \notin {"graduated", "advanced"}, f.graduated = {}, f.advanced = {},
         f.until <= year, f.at \in {"called", "baseline"} => f.until # 0,
         f.at \in {"loop", "locked"} => last # 0 /\ f.next # 0 /\ f.next <= last + 1,
         f.at = "locked" => /\ f.next = last + 1 /\ f.next <= f.until
                            /\ \A q \in Runs \ {r} : ~Holds(q),
         runs' = [runs EXCEPT ![r] = f],
         UNCHANGED <<account, profile, since, last, year, calls>>, rollbacks' \in Nat
  PROVE  YearInv'
<1>1. /\ runs \in [Runs -> Run] /\ runs'[r] = f
      /\ \A q \in Runs : q # r => runs'[q] = runs[q]
  BY DEF YearInv, YearTypeOK
<1>2. YearTypeOK'
  BY DEF YearInv, YearTypeOK
<1>3. Transactions'
  <2>1. \A q \in Runs : q # r => Holds(q)' = Holds(q)
    BY <1>1 DEF Holds
  <2>2. Holds(r)' <=> f.at = "locked"
    BY <1>1 DEF Holds
  <2>3. \A q, p \in Runs : Holds(q)' /\ Holds(p)' => q = p
    BY <2>1, <2>2 DEF YearInv, Transactions
  <2>4. ASSUME NEW q \in Runs
        PROVE  /\ runs'[q].until <= year
               /\ runs'[q].at \in {"called", "baseline"} => runs'[q].until # 0
               /\ runs'[q].at = "loop" \/ Holds(q)' =>
                    last # 0 /\ runs'[q].next # 0 /\ runs'[q].next <= last + 1
               /\ Holds(q)' => runs'[q].next = last + 1 /\ runs'[q].next <= runs'[q].until
               /\ runs'[q].at \notin {"graduated", "advanced"} => runs'[q].graduated = {}
               /\ runs'[q].at # "advanced" => runs'[q].advanced = {}
    <3>1. CASE q = r
      BY <3>1, <2>2, <1>1
    <3>2. CASE q # r
      BY <3>2, <2>1, <1>1 DEF YearInv, Transactions
    <3> QED BY <3>1, <3>2
  <2> QED BY <2>3, <2>4 DEF YearInv, Transactions
<1>4. Courses' /\ Noted'
  BY DEF YearInv, Courses, WithinDegree, Noted, Known, Complete
<1>5. Rows'
  <2> SUFFICES ASSUME NEW q \in Runs
               PROVE
    /\ \A s \in runs'[q].graduated :
         /\ account[s] = "approved"
         /\ since[s] # Nothing => since[s].open \/ profile[s].course >= Most(s)
    /\ \A s \in runs'[q].advanced :
         /\ account[s] = "approved" /\ Known(s) /\ profile[s].course < Most(s)
         /\ s \notin runs'[q].graduated
    /\ \A s \in Students :
         account[s] = "approved" /\ Known(s) /\ s \notin runs'[q].graduated =>
           /\ runs'[q].at = "graduated" /\ profile[s].course >= Most(s) => Missed(s)
           /\ runs'[q].at = "advanced" /\ s \notin runs'[q].advanced => Missed(s)
    BY DEF Rows, Known, Complete, Most, Missed
  <2>1. CASE q = r
    BY <2>1, <1>1
  <2>2. CASE q # r
    BY <2>2, <1>1 DEF YearInv, Rows
  <2> QED BY <2>1, <2>2
<1>6. CourseKeepsPace'
  BY DEF YearInv, CourseKeepsPace, Known, Complete, Most, Due
<1> QED BY <1>2, <1>3, <1>4, <1>5, <1>6 DEF YearInv

\* The transaction holds the row alone: the others are outside of it.
LEMMA OneHolder ==
  ASSUME YearInv, NEW r \in Runs, Holds(r)
  PROVE  /\ runs \in [Runs -> Run] /\ last \in Nat
         /\ last # 0 /\ runs[r].next = last + 1 /\ runs[r].next <= runs[r].until
         /\ runs[r].until <= year
         /\ \A q \in Runs : q # r => /\ ~Holds(q)
                                     /\ runs[q].graduated = {} /\ runs[q].advanced = {}
  BY DEF YearInv, YearTypeOK, Transactions, Holds

\* The year is noted for the first time: nothing is under way.
LEMMA BaselineKeeps ==
  ASSUME YearInv, NEW r \in Runs, BaselineIfUnset(r)
  PROVE  YearInv'
<1>1. /\ runs \in [Runs -> Run] /\ runs' = [runs EXCEPT ![r] = Idle]
      /\ runs[r].until \in Nat \ {0} /\ runs[r].until <= year /\ year \in Nat
  BY DEF BaselineIfUnset, Step, YearInv, YearTypeOK, Run, Transactions
<1>2. /\ Idle \in Run /\ Idle.at = "idle" /\ Idle.graduated = {} /\ Idle.advanced = {}
      /\ Idle.until = 0
  BY Pieces DEF Idle
<1>3. CASE last # 0
  <2>1. rollbacks' \in Nat /\ 0 <= year
    BY <1>1 DEF BaselineIfUnset, Step, YearInv, YearTypeOK
  <2>2. UNCHANGED <<account, profile, since, last, year, calls>>
    BY <1>3 DEF BaselineIfUnset, Step
  <2> QED BY <2>1, <2>2, <1>1, <1>2, <1>3, MoveKeeps
<1>4. CASE last = 0
  <2> DEFINE u == runs[r].until
  <2>1. /\ last' = u /\ UNCHANGED <<account, profile, year, calls, rollbacks>>
        /\ since' = [s \in Students |-> IF since[s] = Nothing THEN Nothing
                                        ELSE [since[s] EXCEPT !.year = u]]
    BY <1>4 DEF BaselineIfUnset, Step
  <2> HIDE DEF u
  <2>0. u \in Nat \ {0} /\ u <= year
    BY <1>1 DEF u
  <2>2. \A q \in Runs : /\ ~Holds(q) /\ runs[q].at # "loop"
                        /\ runs[q].graduated = {} /\ runs[q].advanced = {}
    BY <1>4 DEF YearInv, Transactions, Holds
  <2>3. \A q \in Runs : /\ ~Holds(q)' /\ runs'[q].at # "loop"
                        /\ runs'[q].graduated = {} /\ runs'[q].advanced = {}
                        /\ runs'[q].until <= year
                        /\ runs'[q].at \in {"called", "baseline"} => runs'[q].until # 0
    BY <2>2, <1>1, <1>2 DEF YearInv, Transactions, Holds
  <2>4. \A s \in Students : since[s] \in Since /\ since[s].year = 0 /\ since[s].course \in Nat
    BY <1>4 DEF YearInv, YearTypeOK, Noted, Since, Nothing
  <2>5. \A s \in Students :
          /\ since[s] = Nothing => since'[s] = Nothing
          /\ since[s] # Nothing => since'[s] = [since[s] EXCEPT !.year = u]
    BY <2>1
  <2>6. \A s \in Students : since'[s] \in Since
    BY <2>4, <2>5, <2>0, Pieces DEF Since
  <2>7. YearTypeOK'
    <3>1. since' \in [Students -> Since]
      BY <2>6, <2>1
    <3> QED BY <3>1, <2>1, <2>0, <1>1, <1>2 DEF YearInv, YearTypeOK
  <2>8. Transactions'
    BY <2>1, <2>3, <2>0, <1>1 DEF Transactions, YearInv
  <2>9. Courses'
    BY <2>1 DEF YearInv, Courses, WithinDegree, Complete
  <2>10. \A s \in Students :
           since[s] # Nothing => /\ since'[s].course = since[s].course /\ since'[s].year = u
                                 /\ since'[s].open = since[s].open
                                 /\ since'[s] # Nothing /\ since[s].course # 0
    <3> SUFFICES ASSUME NEW s \in Students, since[s] # Nothing
                 PROVE  /\ since'[s].course = since[s].course /\ since'[s].year = u
                        /\ since'[s].open = since[s].open
                        /\ since'[s] # Nothing /\ since[s].course # 0
      OBVIOUS
    <3>1. /\ since'[s].course = since[s].course /\ since'[s].year = u
          /\ since'[s].open = since[s].open
      BY <2>4, <2>5 DEF Since
    <3>2. Nothing.year = 0
      BY DEF Nothing
    <3> QED BY <3>1, <3>2, <2>0 DEF YearInv, Noted
  <2>11. Noted'
    BY <2>1, <2>5, <2>10, <2>0 DEF YearInv, Noted, Known, Complete
  <2>12. Rows'
    <3>1. \A q \in Runs : runs'[q].at \notin {"graduated", "advanced"}
      BY <2>3 DEF Holds
    <3> QED BY <2>3, <3>1 DEF Rows
  <2>13. CourseKeepsPace'
    <3>1. \A s \in Students : since[s] # Nothing => Due(s)' = Due(s)
      BY <2>10, <2>4, <2>1, <2>0, <1>4 DEF Due
    <3>2. \A s \in Students : /\ Known(s)' = Known(s) /\ Most(s)' = Most(s)
                              /\ since'[s] # Nothing => since[s] # Nothing
      BY <2>1, <2>5 DEF Known, Complete, Most
    <3> QED BY <3>1, <3>2, <2>1, <2>10 DEF YearInv, CourseKeepsPace, Noted
  <2> QED BY <2>7, <2>8, <2>9, <2>11, <2>12, <2>13 DEF YearInv
<1> QED BY <1>3, <1>4

LEMMA NewYearKeeps ==
  ASSUME YearInv, NewYear
  PROVE  YearInv'
<1> USE DEF NewYear
<1>1. YearTypeOK'
  BY DEF YearInv, YearTypeOK
<1>2. Transactions'
  <2>1. \A r \in Runs : runs[r].until \in Nat
    BY DEF YearInv, YearTypeOK, Run
  <2> QED BY <2>1 DEF YearInv, YearTypeOK, Transactions, Holds
<1>3. Courses' /\ Noted'
  BY DEF YearInv, Courses, WithinDegree, Noted, Known, Complete
<1>4. Rows'
  BY DEF YearInv, Rows, Known, Complete, Most, Missed
<1>5. CourseKeepsPace'
  BY DEF YearInv, CourseKeepsPace, Known, Complete, Most, Due
<1> QED BY <1>1, <1>2, <1>3, <1>4, <1>5 DEF YearInv

\* The first UPDATE: who is at the last course of the degree.
LEMMA GraduateKeeps ==
  ASSUME YearInv, NEW r \in Runs, Graduate(r)
  PROVE  YearInv'
<1> DEFINE G == {s \in Students : account[s] = "approved" /\ Known(s)
                                  /\ profile[s].course >= Most(s)}
           f == [runs[r] EXCEPT !.at = "graduated", !.graduated = G]
<1>1. /\ runs[r].at = "locked" /\ runs' = [runs EXCEPT ![r] = f]
      /\ UNCHANGED <<account, profile, last, year, calls, since, rollbacks>>
  BY DEF Graduate, Step
<1>2. Holds(r) /\ runs[r] \in Run /\ runs[r].advanced = {}
  BY <1>1 DEF Holds, YearInv, YearTypeOK, Transactions
<1>3. /\ f \in Run /\ f.at = "graduated" /\ f.graduated = G /\ f.advanced = {}
      /\ f.next = runs[r].next /\ f.until = runs[r].until
  BY <1>2 DEF Run
<1> HIDE DEF f
<1>4. /\ runs'[r] = f
      /\ \A q \in Runs : q # r => /\ runs'[q] = runs[q] /\ ~Holds(q) /\ ~Holds(q)'
                                  /\ runs'[q].graduated = {} /\ runs'[q].advanced = {}
                                  /\ runs'[q].at \notin {"graduated", "advanced"}
  BY <1>1, <1>2, OneHolder DEF Holds
<1>5. YearTypeOK'
  BY <1>1, <1>3 DEF YearInv, YearTypeOK
<1>6. Transactions'
  <2>1. \A q, p \in Runs : Holds(q)' /\ Holds(p)' => q = p
    BY <1>4
  <2>2. ASSUME NEW q \in Runs
        PROVE  /\ runs'[q].until <= year
               /\ runs'[q].at \in {"called", "baseline"} => runs'[q].until # 0
               /\ runs'[q].at = "loop" \/ Holds(q)' =>
                    last # 0 /\ runs'[q].next # 0 /\ runs'[q].next <= last + 1
               /\ Holds(q)' => runs'[q].next = last + 1 /\ runs'[q].next <= runs'[q].until
               /\ runs'[q].at \notin {"graduated", "advanced"} => runs'[q].graduated = {}
               /\ runs'[q].at # "advanced" => runs'[q].advanced = {}
    <3>1. CASE q = r
      BY <3>1, <1>2, <1>3, <1>4, OneHolder
    <3>2. CASE q # r
      BY <3>2, <1>4 DEF YearInv, Transactions
    <3> QED BY <3>1, <3>2
  <2> QED BY <2>1, <2>2, <1>1 DEF YearInv, Transactions
<1>7. Courses' /\ Noted'
  BY <1>1 DEF YearInv, Courses, WithinDegree, Noted, Known, Complete
<1>8. Rows'
  <2> SUFFICES ASSUME NEW q \in Runs
               PROVE
    /\ \A s \in runs'[q].graduated :
         /\ account[s] = "approved"
         /\ since[s] # Nothing => since[s].open \/ profile[s].course >= Most(s)
    /\ \A s \in runs'[q].advanced :
         /\ account[s] = "approved" /\ Known(s) /\ profile[s].course < Most(s)
         /\ s \notin runs'[q].graduated
    /\ \A s \in Students :
         account[s] = "approved" /\ Known(s) /\ s \notin runs'[q].graduated =>
           /\ runs'[q].at = "graduated" /\ profile[s].course >= Most(s) => Missed(s)
           /\ runs'[q].at = "advanced" /\ s \notin runs'[q].advanced => Missed(s)
    BY <1>1 DEF Rows, Known, Complete, Most, Missed
  <2>1. CASE q = r
    BY <2>1, <1>3, <1>4
  <2>2. CASE q # r
    BY <2>2, <1>4
  <2> QED BY <2>1, <2>2
<1>9. CourseKeepsPace'
  BY <1>1 DEF YearInv, CourseKeepsPace, Known, Complete, Most, Due
<1> QED BY <1>5, <1>6, <1>7, <1>8, <1>9 DEF YearInv

\* The second UPDATE: who is below it, and not among the first.
LEMMA AdvanceKeeps ==
  ASSUME YearInv, NEW r \in Runs, Advance(r)
  PROVE  YearInv'
<1> DEFINE A == {s \in Students : s \notin runs[r].graduated /\ account[s] = "approved"
                                  /\ Known(s) /\ profile[s].course < Most(s)}
           f == [runs[r] EXCEPT !.at = "advanced", !.advanced = A]
<1>1. /\ runs[r].at = "graduated" /\ runs' = [runs EXCEPT ![r] = f]
      /\ UNCHANGED <<account, profile, last, year, calls, since, rollbacks>>
  BY DEF Advance, Step
<1>2. Holds(r) /\ runs[r] \in Run
  BY <1>1 DEF Holds, YearInv, YearTypeOK
<1>3. /\ f \in Run /\ f.at = "advanced" /\ f.graduated = runs[r].graduated /\ f.advanced = A
      /\ f.next = runs[r].next /\ f.until = runs[r].until
  BY <1>2 DEF Run
<1> HIDE DEF f
<1>4. /\ runs'[r] = f
      /\ \A q \in Runs : q # r => /\ runs'[q] = runs[q] /\ ~Holds(q) /\ ~Holds(q)'
                                  /\ runs'[q].graduated = {} /\ runs'[q].advanced = {}
                                  /\ runs'[q].at \notin {"graduated", "advanced"}
  BY <1>1, <1>2, OneHolder DEF Holds
<1>5. YearTypeOK'
  BY <1>1, <1>3 DEF YearInv, YearTypeOK
<1>6. Transactions'
  <2>1. \A q, p \in Runs : Holds(q)' /\ Holds(p)' => q = p
    BY <1>4
  <2>2. ASSUME NEW q \in Runs
        PROVE  /\ runs'[q].until <= year
               /\ runs'[q].at \in {"called", "baseline"} => runs'[q].until # 0
               /\ runs'[q].at = "loop" \/ Holds(q)' =>
                    last # 0 /\ runs'[q].next # 0 /\ runs'[q].next <= last + 1
               /\ Holds(q)' => runs'[q].next = last + 1 /\ runs'[q].next <= runs'[q].until
               /\ runs'[q].at \notin {"graduated", "advanced"} => runs'[q].graduated = {}
               /\ runs'[q].at # "advanced" => runs'[q].advanced = {}
    <3>1. CASE q = r
      BY <3>1, <1>2, <1>3, <1>4, OneHolder
    <3>2. CASE q # r
      BY <3>2, <1>4 DEF YearInv, Transactions
    <3> QED BY <3>1, <3>2
  <2> QED BY <2>1, <2>2, <1>1 DEF YearInv, Transactions
<1>7. Courses' /\ Noted'
  BY <1>1 DEF YearInv, Courses, WithinDegree, Noted, Known, Complete
<1>8. Rows'
  <2> SUFFICES ASSUME NEW q \in Runs
               PROVE
    /\ \A s \in runs'[q].graduated :
         /\ account[s] = "approved"
         /\ since[s] # Nothing => since[s].open \/ profile[s].course >= Most(s)
    /\ \A s \in runs'[q].advanced :
         /\ account[s] = "approved" /\ Known(s) /\ profile[s].course < Most(s)
         /\ s \notin runs'[q].graduated
    /\ \A s \in Students :
         account[s] = "approved" /\ Known(s) /\ s \notin runs'[q].graduated =>
           /\ runs'[q].at = "graduated" /\ profile[s].course >= Most(s) => Missed(s)
           /\ runs'[q].at = "advanced" /\ s \notin runs'[q].advanced => Missed(s)
    BY <1>1 DEF Rows, Known, Complete, Most, Missed
  <2>1. CASE q = r
    <3>1. \A s \in Students : Known(s) => profile[s].course \in Nat /\ Most(s) \in Nat
      BY Pieces DEF YearInv, YearTypeOK, Profile, Known, Complete, Most
    <3>2. \A s \in runs[r].graduated :
           /\ account[s] = "approved"
           /\ since[s] # Nothing => since[s].open \/ profile[s].course >= Most(s)
      BY DEF YearInv, Rows
    <3>3. \A s \in Students :
           account[s] = "approved" /\ Known(s) /\ s \notin runs[r].graduated
             /\ profile[s].course >= Most(s) => Missed(s)
      BY <1>1 DEF YearInv, Rows
    <3> QED BY <2>1, <3>1, <3>2, <3>3, <1>3, <1>4
  <2>2. CASE q # r
    BY <2>2, <1>4
  <2> QED BY <2>1, <2>2
<1>9. CourseKeepsPace'
  BY <1>1 DEF YearInv, CourseKeepsPace, Known, Complete, Most, Due
<1> QED BY <1>5, <1>6, <1>7, <1>8, <1>9 DEF YearInv

\* The year becomes the last one together with what its UPDATEs did.
LEMMA CommitKeeps ==
  ASSUME YearInv, NEW r \in Runs, Commit(r)
  PROVE  YearInv'
<1> DEFINE f == [Idle EXCEPT !.at = "loop", !.next = runs[r].next + 1,
                            !.until = runs[r].until]
           G == runs[r].graduated
           A == runs[r].advanced
<1>1. /\ runs[r].at = "advanced" /\ runs' = [runs EXCEPT ![r] = f] /\ last' = runs[r].next
      /\ UNCHANGED <<year, calls, since, rollbacks>>
  BY DEF Commit
<1>2. /\ account' = [s \in Students |-> IF s \in G THEN "graduated" ELSE account[s]]
      /\ profile' = [s \in Students |->
           IF s \in A THEN [profile[s] EXCEPT !.course = @ + 1] ELSE profile[s]]
  BY DEF Commit
<1>3. Holds(r) /\ runs[r] \in Run
  BY <1>1 DEF Holds, YearInv, YearTypeOK
<1>4. /\ last \in Nat /\ last # 0 /\ last' = last + 1 /\ last' <= year
      /\ runs[r].until <= year /\ runs[r].until \in Nat /\ runs[r].next = last + 1
  BY <1>1, <1>3, OneHolder DEF Run, YearInv, YearTypeOK
<1>5. /\ f \in Run /\ f.at = "loop" /\ f.graduated = {} /\ f.advanced = {}
      /\ f.next = last' + 1 /\ f.until = runs[r].until
  <2>1. Idle \in Run /\ Idle.graduated = {} /\ Idle.advanced = {}
    BY Pieces DEF Idle
  <2>2. runs[r].next + 1 \in Nat /\ runs[r].next + 1 = last' + 1
    BY <1>1, <1>4
  <2> QED BY <2>1, <2>2, <1>4 DEF Run
<1> HIDE DEF f
<1>6. /\ runs'[r] = f
      /\ \A q \in Runs : q # r => runs'[q] = runs[q] /\ ~Holds(q)
      /\ \A q \in Runs : /\ ~Holds(q)' /\ runs'[q].graduated = {} /\ runs'[q].advanced = {}
                         /\ runs'[q].at \notin {"graduated", "advanced"}
  BY <1>1, <1>3, <1>5, OneHolder DEF Holds
<1>7. ASSUME NEW s \in Students
      PROVE  /\ profile[s] \in Profile /\ profile[s].course \in Nat
             /\ profile'[s].degree = profile[s].degree
             /\ profile'[s].course = IF s \in A THEN profile[s].course + 1
                                     ELSE profile[s].course
             /\ profile'[s] \in Profile
  BY <1>2 DEF YearInv, YearTypeOK, Profile
<1>8. ASSUME NEW s \in Students
      PROVE  Known(s)' = Known(s) /\ Most(s)' = Most(s)
  <2>1. s \in A => Known(s)
    BY DEF YearInv, Rows
  <2>2. profile[s].course # 0 => profile'[s].course # 0
    BY <1>7
  <2> QED BY <2>1, <2>2, <1>7 DEF Known, Complete, Most
<1>9. YearTypeOK'
  <2>1. profile' \in [Students -> Profile]
    BY <1>7, <1>2
  <2>2. account' \in [Students -> {"none", "pending", "approved", "graduated"}]
    BY <1>2 DEF YearInv, YearTypeOK
  <2>3. runs' \in [Runs -> Run] /\ last' \in Nat
    BY <1>1, <1>4, <1>5 DEF YearInv, YearTypeOK
  <2> QED BY <2>1, <2>2, <2>3, <1>1 DEF YearInv, YearTypeOK
<1>10. Transactions'
  <2>1. ASSUME NEW q \in Runs
        PROVE  /\ runs'[q].until <= year
               /\ runs'[q].at \in {"called", "baseline"} => runs'[q].until # 0
               /\ runs'[q].at = "loop" =>
                    last' # 0 /\ runs'[q].next # 0 /\ runs'[q].next <= last' + 1
    <3>1. CASE q = r
      BY <3>1, <1>4, <1>5, <1>6
    <3>2. CASE q # r
      <4>1. runs[q].next \in Nat
        BY DEF YearInv, YearTypeOK, Run
      <4> QED BY <4>1, <3>2, <1>4, <1>6 DEF YearInv, Transactions
    <3> QED BY <3>1, <3>2
  <2>2. year' # 0 /\ last' <= year'
    BY <1>1, <1>4 DEF YearInv, Transactions
  <2> QED BY <2>1, <2>2, <1>1, <1>6 DEF Transactions
<1>11. Courses'
  <2>1. ASSUME NEW s \in Students PROVE WithinDegree(profile[s])'
    <3>1. Known(s) => Most(s) \in Nat
      BY Pieces, <1>7 DEF Known, Complete, Most, Profile
    <3>2. CASE s \in A
      <4>1. Known(s) /\ profile[s].course < Most(s)
        BY <3>2 DEF YearInv, Rows
      <4> QED BY <4>1, <3>1, <3>2, <1>7 DEF WithinDegree, Most
    <3>3. CASE s \notin A
      BY <3>3, <1>7 DEF WithinDegree, Complete, YearInv, Courses
    <3> QED BY <3>2, <3>3
  <2>2. \A k \in calls' : k.op \in {"create", "fill"} => WithinDegree(k.profile)'
    BY <1>1 DEF YearInv, Courses, WithinDegree, Complete
  <2> QED BY <2>1, <2>2 DEF Courses
<1>12. Noted'
  <2> SUFFICES ASSUME NEW s \in Students
               PROVE  /\ account'[s] = "approved" /\ Known(s)' => since[s] # Nothing
                      /\ since[s] # Nothing =>
                           /\ account'[s] \in {"approved", "graduated"} /\ Known(s)'
                           /\ since[s].course # 0 /\ since[s].year <= last'
                           /\ last' # 0 => since[s].year # 0
    BY <1>1 DEF Noted
  <2>1. since[s].year \in Nat
    BY DEF YearInv, YearTypeOK, Since
  <2>2. account'[s] = account[s] \/ account'[s] = "graduated"
    BY <1>2
  <2> QED BY <2>1, <2>2, <1>4, <1>8 DEF YearInv, Noted
<1>13. Rows'
  BY <1>6 DEF Rows
<1>14. CourseKeepsPace'
  <2> SUFFICES ASSUME NEW s \in Students
               PROVE
    /\ account'[s] = "approved" /\ Known(s)' =>
         /\ profile'[s].course <= Most(s)'
         /\ \/ profile'[s].course = Due(s)'
            \/ since'[s].open /\ profile'[s].course + 1 = Due(s)'
    /\ account'[s] = "graduated" /\ since'[s] # Nothing =>
         Known(s)' /\ (Due(s)' > Most(s)' \/ since'[s].open)
    BY DEF CourseKeepsPace
  <2>1. /\ since[s].course \in Nat /\ since[s].year \in Nat
        /\ Known(s) => Most(s) \in Nat
    BY Pieces, <1>7 DEF YearInv, YearTypeOK, Since, Known, Complete, Most, Profile
  <2>2. since[s] # Nothing => since[s].year <= last /\ Known(s)
    BY DEF YearInv, Noted
  <2>3. since[s] # Nothing => /\ Due(s) \in Nat /\ Due(s)' = Due(s) + 1
    BY <2>1, <2>2, <1>1, <1>4 DEF Due
  <2>4. CASE s \in G
    <3>1. /\ account[s] = "approved" /\ account'[s] = "graduated"
          /\ since[s] # Nothing => since[s].open \/ profile[s].course >= Most(s)
      BY <2>4, <1>2 DEF YearInv, Rows
    <3>2. since[s] # Nothing /\ ~since[s].open => profile[s].course = Due(s)
      BY <3>1, <2>2 DEF YearInv, CourseKeepsPace
    <3> QED BY <3>1, <3>2, <2>1, <2>2, <2>3, <1>1, <1>8
  <2>5. CASE s \in A
    <3>1. /\ account[s] = "approved" /\ Known(s) /\ profile[s].course < Most(s) /\ s \notin G
      BY <2>5 DEF YearInv, Rows
    <3>2. account'[s] = "approved" /\ since[s] # Nothing
      BY <3>1, <1>2 DEF YearInv, Noted
    <3>3. \/ profile[s].course = Due(s)
          \/ since[s].open /\ profile[s].course + 1 = Due(s)
      BY <3>1 DEF YearInv, CourseKeepsPace
    <3> QED BY <3>1, <3>2, <3>3, <2>1, <2>3, <2>5, <1>1, <1>7, <1>8
  <2>6. CASE s \notin G /\ s \notin A
    <3>1. account'[s] = account[s] /\ profile'[s].course = profile[s].course
      BY <2>6, <1>2, <1>7
    <3>2. CASE account[s] = "approved" /\ Known(s)
      <4>1. /\ since[s] # Nothing /\ since[s].open /\ since[s].year = last
            /\ since[s].course = profile[s].course
        BY <3>2, <2>6, <1>1 DEF YearInv, Rows, Missed, Noted
      <4>2. Due(s)' = profile[s].course + 1
        BY <4>1, <2>3, <2>1, <1>4 DEF Due
      <4>3. profile[s].course <= Most(s)
        BY <3>2 DEF YearInv, CourseKeepsPace
      <4> QED BY <4>1, <4>2, <4>3, <3>1, <3>2, <1>1, <1>8
    <3>3. CASE account[s] = "graduated" /\ since[s] # Nothing
      <4>1. Known(s) /\ (Due(s) > Most(s) \/ since[s].open)
        BY <3>3 DEF YearInv, CourseKeepsPace
      <4> QED BY <4>1, <3>1, <3>3, <2>1, <2>3, <1>1, <1>8
    <3> QED BY <3>1, <3>2, <3>3, <1>1, <1>8
  <2> QED BY <2>4, <2>5, <2>6
<1> QED BY <1>9, <1>10, <1>11, <1>12, <1>13, <1>14 DEF YearInv

\* Nobody without an approved account is among the rows of a transaction.
LEMMA FreeRows ==
  ASSUME YearInv, NEW s \in Students
  PROVE  /\ account[s] # "approved" => AccountFree(s) /\ ProfileFree(s)
         /\ account[s] \in {"none", "pending", "approved", "graduated"}
         /\ profile[s] \in Profile /\ WithinDegree(profile[s])
  BY DEF YearInv, YearTypeOK, Rows, Courses, AccountFree, ProfileFree

\* A request of another handler.
LEMMA StudentKeeps ==
  ASSUME YearInv, NEW s \in Students,
         CreateAccount(s) \/ UpsertStudentProfile(s) \/ FillCourse(s)
           \/ DecideStudentApproval(s) \/ DeleteUser(s)
  PROVE  YearInv'
<1>1. /\ calls \subseteq Call
      /\ \A k \in calls : k.op \in {"create", "fill"} => WithinDegree(k.profile)
  BY DEF YearInv, YearTypeOK, Courses
<1>2. \A d \in Degrees \cup {None} : \A c \in Course(d) :
        c \in Nat /\ (d # None => c <= MaxCourse[d])
  BY DegreesAssumption DEF Course
<1>3. CASE CreateAccount(s)
  <2>1. PICK a \in {"pending", "approved"}, d \in Degrees : \E c \in Course(d) :
          /\ Record(s, a, NoProfile)
          /\ calls' = calls \cup {[op |-> "create", student |-> s,
                                   profile |-> [course |-> c, degree |-> d]]}
    BY <1>3 DEF CreateAccount
  <2>2. PICK c \in Course(d) :
          /\ Record(s, a, NoProfile)
          /\ calls' = calls \cup {[op |-> "create", student |-> s,
                                   profile |-> [course |-> c, degree |-> d]]}
    BY <2>1
  <2> DEFINE p == [course |-> c, degree |-> d]
             k == [op |-> "create", student |-> s, profile |-> p]
  <2>3. c \in Nat /\ d # None /\ c <= MaxCourse[d]
    BY <1>2, DegreesAssumption
  <2>4. p \in Profile /\ p.course = c /\ p.degree = d
    BY <2>3 DEF Profile
  <2> HIDE DEF p
  <2>5. k \in Call /\ k.profile = p
    BY <2>4 DEF Call
  <2>6. WithinDegree(p)
    BY <2>3, <2>4 DEF WithinDegree
  <2> HIDE DEF k
  <2>7. calls' = calls \cup {k}
    BY <2>2 DEF k, p
  <2>8. /\ calls' \subseteq Call
        /\ \A x \in calls' : x.op \in {"create", "fill"} => WithinDegree(x.profile)
    BY <1>1, <2>5, <2>6, <2>7
  <2>9. AccountFree(s) /\ ProfileFree(s) /\ UNCHANGED Others
    BY <1>3, FreeRows DEF CreateAccount
  <2> QED BY <2>2, <2>8, <2>9, Pieces, RecordKeeps DEF Others
<1>4. CASE UpsertStudentProfile(s)
  <2>1. PICK d \in Degrees \cup {None} :
          \E c \in {0} \cup Course(IF d = None THEN profile[s].degree ELSE d) :
             Record(s, account[s], [course |-> c, degree |-> d])
    BY <1>4 DEF UpsertStudentProfile
  <2>2. PICK c \in {0} \cup Course(IF d = None THEN profile[s].degree ELSE d) :
          Record(s, account[s], [course |-> c, degree |-> d])
    BY <2>1
  <2> DEFINE p == [course |-> c, degree |-> d]
  <2>3. profile[s].degree \in Degrees \cup {None}
    BY FreeRows DEF Profile
  <2>4. c \in Nat /\ (c # 0 /\ d # None => c <= MaxCourse[d])
    BY <1>2, <2>3
  <2>5. p \in Profile /\ p.course = c /\ p.degree = d
    BY <2>4 DEF Profile
  <2> HIDE DEF p
  <2>6. WithinDegree(p)
    BY <2>4, <2>5 DEF WithinDegree, Complete
  <2>7. Record(s, account[s], p)
    BY <2>2 DEF p
  <2>8. /\ account[s] # "none" /\ ProfileFree(s) /\ UNCHANGED <<calls, Others>>
    BY <1>4 DEF UpsertStudentProfile
  <2> QED BY <1>1, <2>5, <2>6, <2>7, <2>8, FreeRows, RecordKeeps DEF Others
<1>5. CASE FillCourse(s)
  <2>1. PICK c \in Course(profile[s].degree) :
          calls' = calls \cup {[op |-> "fill", student |-> s,
                                profile |-> [profile[s] EXCEPT !.course = c]]}
    BY <1>5 DEF FillCourse
  <2> DEFINE p == [profile[s] EXCEPT !.course = c]
             k == [op |-> "fill", student |-> s, profile |-> p]
  <2>2. profile[s] \in Profile /\ profile[s].degree \in Degrees \cup {None}
    BY FreeRows DEF Profile
  <2>3. c \in Nat /\ (profile[s].degree # None => c <= MaxCourse[profile[s].degree])
    BY <1>2, <2>2
  <2>4. p \in Profile /\ p.course = c /\ p.degree = profile[s].degree
    BY <2>2, <2>3 DEF Profile
  <2> HIDE DEF p
  <2>5. k \in Call /\ k.profile = p
    BY <2>4 DEF Call
  <2>6. WithinDegree(p)
    BY <2>3, <2>4 DEF WithinDegree, Complete
  <2> HIDE DEF k
  <2>7. calls' = calls \cup {k}
    BY <2>1 DEF k, p
  <2>8. /\ calls' \subseteq Call
        /\ \A x \in calls' : x.op \in {"create", "fill"} => WithinDegree(x.profile)
    BY <1>1, <2>5, <2>6, <2>7
  <2>9. UNCHANGED <<account, profile, since, Others>>
    BY <1>5 DEF FillCourse
  <2> QED BY <2>8, <2>9, CallsKeep
<1>6. CASE DecideStudentApproval(s)
  <2>1. PICK op \in {"approve", "reject"} :
          calls' = calls \cup {[op |-> op, student |-> s, profile |-> NoProfile]}
    BY <1>6 DEF DecideStudentApproval
  <2> DEFINE k == [op |-> op, student |-> s, profile |-> NoProfile]
  <2>2. k \in Call /\ k.op = op
    BY Pieces DEF Call
  <2> HIDE DEF k
  <2>3. calls' = calls \cup {k}
    BY <2>1 DEF k
  <2>4. /\ calls' \subseteq Call
        /\ \A x \in calls' : x.op \in {"create", "fill"} => WithinDegree(x.profile)
    BY <1>1, <2>2, <2>3
  <2>5. UNCHANGED <<account, profile, since, Others>>
    BY <1>6 DEF DecideStudentApproval
  <2> QED BY <2>4, <2>5, CallsKeep
<1>7. CASE DeleteUser(s)
  <2>1. /\ AccountFree(s) /\ ProfileFree(s) /\ Record(s, "none", NoProfile)
        /\ UNCHANGED <<calls, Others>>
    BY <1>7 DEF DeleteUser
  <2> QED BY <1>1, <2>1, Pieces, RecordKeeps DEF Others
<1> QED BY <1>3, <1>4, <1>5, <1>6, <1>7

\* The second statement of such a request, or none.
LEMMA CallKeeps ==
  ASSUME YearInv, NEW k \in calls,
         UpsertProfile(k) \/ UpdateApprovalStatus(k) \/ DeleteRejected(k) \/ CallDies(k)
  PROVE  YearInv'
<1> DEFINE s == k.student
<1>1. /\ k \in Call /\ calls \ {k} \subseteq Call
      /\ \A x \in calls : x.op \in {"create", "fill"} => WithinDegree(x.profile)
  BY DEF YearInv, YearTypeOK, Courses
<1>2. s \in Students /\ k.profile \in Profile
  BY <1>1 DEF Call
<1>3. \A x \in calls \ {k} : x.op \in {"create", "fill"} => WithinDegree(x.profile)
  BY <1>1
<1> HIDE DEF s
<1>4. CASE UpsertProfile(k)
  <2>1. /\ k.op \in {"create", "fill"} /\ ProfileFree(s) /\ calls' = calls \ {k}
        /\ UNCHANGED Others
    BY <1>4 DEF UpsertProfile, s
  <2>2. CASE account[s] = "none"
    BY <1>1, <1>3, <1>4, <2>1, <2>2, CallsKeep DEF UpsertProfile, s
  <2>3. CASE account[s] # "none"
    <3>1. Record(s, account[s], k.profile)
      BY <1>4, <2>3 DEF UpsertProfile, s
    <3> QED BY <1>1, <1>2, <1>3, <2>1, <2>3, <3>1, FreeRows, RecordKeeps DEF Others
  <2> QED BY <2>2, <2>3
<1>5. CASE UpdateApprovalStatus(k)
  <2>1. AccountFree(s) /\ calls' = calls \ {k} /\ UNCHANGED Others
    BY <1>5 DEF UpdateApprovalStatus, s
  <2>2. CASE account[s] = "none"
    BY <1>1, <1>3, <1>5, <2>1, <2>2, CallsKeep DEF UpdateApprovalStatus, s
  <2>3. CASE account[s] # "none"
    <3>1. Record(s, "approved", profile[s])
      BY <1>5, <2>3 DEF UpdateApprovalStatus, s
    <3> QED BY <1>1, <1>2, <1>3, <2>1, <3>1, FreeRows, RecordKeeps DEF Others
  <2> QED BY <2>2, <2>3
<1>6. CASE DeleteRejected(k)
  <2>1. /\ AccountFree(s) /\ ProfileFree(s) /\ calls' = calls \ {k} /\ UNCHANGED Others
        /\ Record(s, "none", NoProfile)
    BY <1>6 DEF DeleteRejected, s
  <2> QED BY <1>1, <1>2, <1>3, <2>1, Pieces, RecordKeeps DEF Others
<1>7. CASE CallDies(k)
  BY <1>1, <1>3, <1>7, CallsKeep DEF CallDies
<1> QED BY <1>4, <1>5, <1>6, <1>7

\* A step of Run outside of its UPDATEs, and a run that is broken off.
LEMMA RunMoves ==
  ASSUME YearInv, NEW r \in Runs,
         CallRun(r) \/ LastRolledOverYear(r) \/ BeginYear(r) \/ Return(r) \/ RollBack(r)
  PROVE  YearInv'
<1>1. /\ runs[r] \in Run /\ year \in Nat \ {0} /\ last \in Nat /\ rollbacks \in Nat
      /\ runs[r].until <= year /\ runs[r].until \in Nat /\ runs[r].next \in Nat
  BY DEF YearInv, YearTypeOK, Transactions, Run
<1>2. /\ Idle \in Run /\ Idle.at = "idle" /\ Idle.graduated = {} /\ Idle.advanced = {}
      /\ Idle.until = 0
  BY Pieces DEF Idle
<1>3. CASE CallRun(r)
  <2> DEFINE f == [Idle EXCEPT !.at = "called", !.until = year]
  <2>1. f \in Run /\ f.at = "called" /\ f.graduated = {} /\ f.advanced = {} /\ f.until = year
    BY <1>1, <1>2 DEF Run
  <2>2. /\ runs' = [runs EXCEPT ![r] = f]
        /\ UNCHANGED <<account, profile, since, last, year, calls, rollbacks>>
    BY <1>3 DEF CallRun, Step
  <2> HIDE DEF f
  <2>3. f.until <= year /\ f.until # 0 /\ rollbacks' \in Nat
    BY <1>1, <2>1, <2>2
  <2> QED BY <2>1, <2>2, <2>3, MoveKeeps
<1>4. CASE LastRolledOverYear(r)
  <2>1. /\ runs[r].at = "called" /\ runs[r].graduated = {} /\ runs[r].advanced = {}
        /\ runs[r].until # 0
    BY <1>4 DEF LastRolledOverYear, YearInv, Transactions
  <2>2. UNCHANGED <<account, profile, since, last, year, calls, rollbacks>>
    BY <1>4 DEF LastRolledOverYear, Step
  <2>3. CASE last = 0
    <3> DEFINE f == [runs[r] EXCEPT !.at = "baseline"]
    <3>1. /\ f \in Run /\ f.at = "baseline" /\ f.graduated = {} /\ f.advanced = {}
          /\ f.until = runs[r].until
      BY <1>1, <2>1 DEF Run
    <3>2. runs' = [runs EXCEPT ![r] = f]
      BY <1>4, <2>3 DEF LastRolledOverYear, Step
    <3> HIDE DEF f
    <3> QED BY <1>1, <2>1, <2>2, <3>1, <3>2, MoveKeeps
  <2>4. CASE last # 0
    <3> DEFINE f == [runs[r] EXCEPT !.at = "loop", !.next = last + 1]
    <3>1. /\ f \in Run /\ f.at = "loop" /\ f.graduated = {} /\ f.advanced = {}
          /\ f.until = runs[r].until /\ f.next = last + 1
      <4>1. last + 1 \in Nat
        BY <1>1
      <4> QED BY <4>1, <1>1, <2>1 DEF Run
    <3>2. runs' = [runs EXCEPT ![r] = f]
      BY <1>4, <2>4 DEF LastRolledOverYear, Step
    <3> HIDE DEF f
    <3>3. f.until <= year /\ f.next # 0 /\ f.next <= last + 1 /\ rollbacks' \in Nat
      BY <1>1, <2>2, <3>1
    <3> QED BY <2>2, <2>4, <3>1, <3>2, <3>3, MoveKeeps
  <2> QED BY <2>3, <2>4
<1>5. CASE BeginYear(r)
  <2>1. /\ runs[r].at = "loop" /\ runs[r].graduated = {} /\ runs[r].advanced = {}
        /\ last # 0 /\ runs[r].next # 0 /\ runs[r].next <= last + 1
        /\ runs[r].next <= runs[r].until
        /\ \A q \in Runs : ~Holds(q)
    BY <1>5 DEF BeginYear, YearInv, Transactions
  <2>2. UNCHANGED <<account, profile, since, last, year, calls, rollbacks>>
    BY <1>5 DEF BeginYear, Step
  <2>3. CASE last >= runs[r].next
    <3> DEFINE f == [runs[r] EXCEPT !.next = @ + 1]
    <3>1. /\ f \in Run /\ f.at = "loop" /\ f.graduated = {} /\ f.advanced = {}
          /\ f.until = runs[r].until /\ f.next = runs[r].next + 1
      BY <1>1, <2>1 DEF Run
    <3>2. runs' = [runs EXCEPT ![r] = f]
      BY <1>5, <2>1, <2>3 DEF BeginYear, Step
    <3> HIDE DEF f
    <3>3. f.until <= year /\ f.next # 0 /\ f.next <= last + 1 /\ rollbacks' \in Nat
      BY <1>1, <2>2, <2>3, <3>1
    <3> QED BY <2>1, <2>2, <3>1, <3>2, <3>3, MoveKeeps
  <2>4. CASE ~(last >= runs[r].next)
    <3> DEFINE f == [runs[r] EXCEPT !.at = "locked"]
    <3>1. /\ f \in Run /\ f.at = "locked" /\ f.graduated = {} /\ f.advanced = {}
          /\ f.until = runs[r].until /\ f.next = runs[r].next
      BY <1>1, <2>1 DEF Run
    <3>2. runs' = [runs EXCEPT ![r] = f]
      BY <1>5, <2>4 DEF BeginYear, Step
    <3>3. runs[r].next = last + 1
      BY <1>1, <2>1, <2>4
    <3> HIDE DEF f
    <3> QED BY <1>1, <2>1, <2>2, <3>1, <3>2, <3>3, MoveKeeps
  <2> QED BY <2>3, <2>4
<1>6. CASE Return(r)
  <2>1. /\ runs' = [runs EXCEPT ![r] = Idle]
        /\ UNCHANGED <<account, profile, since, last, year, calls, rollbacks>>
    BY <1>6 DEF Return, Step
  <2>2. 0 <= year /\ rollbacks' \in Nat
    BY <1>1, <2>1
  <2> QED BY <1>2, <2>1, <2>2, MoveKeeps
<1>7. CASE RollBack(r)
  <2>1. /\ runs' = [runs EXCEPT ![r] = Idle] /\ rollbacks' = rollbacks + 1
        /\ UNCHANGED <<account, profile, since, last, year, calls>>
    BY <1>7 DEF RollBack
  <2>2. 0 <= year /\ rollbacks' \in Nat
    BY <1>1, <2>1
  <2> QED BY <1>2, <2>1, <2>2, MoveKeeps
<1> QED BY <1>3, <1>4, <1>5, <1>6, <1>7

-----------------------------------------------------------------------------
(* The rollover: the theorems. *)

LEMMA YearStart == YearInit => YearInv
<1> SUFFICES ASSUME YearInit PROVE YearInv
  OBVIOUS
<1> USE DEF YearInit
<1>1. YearTypeOK
  BY Pieces DEF YearTypeOK
<1>2. \A r \in Runs : /\ runs[r].at = "idle" /\ runs[r].until = 0
                      /\ runs[r].graduated = {} /\ runs[r].advanced = {}
  BY DEF Idle
<1>3. Transactions
  BY <1>2 DEF Transactions, Holds
<1>4. \A s \in Students : ~Known(s)
  BY DEF Known, Complete, NoProfile
<1>5. Courses
  BY Pieces DEF Courses
<1>6. Noted
  BY <1>4 DEF Noted
<1>7. Rows
  BY <1>2 DEF Rows
<1>8. CourseKeepsPace
  BY <1>4 DEF CourseKeepsPace
<1> QED BY <1>1, <1>3, <1>5, <1>6, <1>7, <1>8 DEF YearInv

LEMMA YearStutter ==
  ASSUME YearInv, UNCHANGED yearVars
  PROVE  YearInv'
<1>1. UNCHANGED <<account, profile, since, Others>> /\ calls' = calls
  BY DEF yearVars, Others
<1>2. /\ calls \subseteq Call
      /\ \A k \in calls : k.op \in {"create", "fill"} => WithinDegree(k.profile)
  BY DEF YearInv, YearTypeOK, Courses
<1> QED BY <1>1, <1>2, CallsKeep

LEMMA YearStep == YearInv /\ [YearNext]_yearVars => YearInv'
<1> SUFFICES ASSUME YearInv, [YearNext]_yearVars PROVE YearInv'
  OBVIOUS
<1>1. ASSUME NEW s \in Students,
             CreateAccount(s) \/ UpsertStudentProfile(s) \/ FillCourse(s)
               \/ DecideStudentApproval(s) \/ DeleteUser(s)
      PROVE  YearInv'
  BY <1>1, StudentKeeps
<1>2. ASSUME NEW k \in calls,
             UpsertProfile(k) \/ UpdateApprovalStatus(k) \/ DeleteRejected(k) \/ CallDies(k)
      PROVE  YearInv'
  BY <1>2, CallKeeps
<1>3. ASSUME NEW r \in Runs, CallRun(r) \/ RunStep(r) \/ RollBack(r)
      PROVE  YearInv'
  BY <1>3, RunMoves, BaselineKeeps, GraduateKeeps, AdvanceKeeps, CommitKeeps DEF RunStep
<1>4. CASE NewYear
  BY <1>4, NewYearKeeps
<1>5. CASE UNCHANGED yearVars
  BY <1>5, YearStutter
<1> QED BY <1>1, <1>2, <1>3, <1>4, <1>5 DEF YearNext

LEMMA RollingYears == Next => (YearNext \/ UNCHANGED yearVars)
  BY DEF Next, Rolling, Checking

LEMMA YearInvAlways == Spec => []YearInv
<1>1. Init => YearInv
  BY YearStart DEF Init
<1>2. YearInv /\ [Next]_jobVars => YearInv'
  <2>1. [Next]_jobVars => [YearNext]_yearVars
    BY RollingYears DEF jobVars
  <2> QED BY <2>1, YearStep
<1> QED BY <1>1, <1>2, PTL DEF Spec

\* Students move up by one course a year and graduate from the last one,
\* whatever calls of Run overlap, fail or are late, and whatever is written to
\* accounts and profiles meanwhile (AcademicYearService.Run).
THEOREM PaceHolds == Spec => []CourseKeepsPace
<1>1. YearInv => CourseKeepsPace
  BY DEF YearInv
<1> QED BY <1>1, YearInvAlways, PTL

\* The variables of the rollover keep to their types.
THEOREM YearTypesHold == Spec => []YearTypeOK
<1>1. YearInv => YearTypeOK
  BY DEF YearInv
<1> QED BY <1>1, YearInvAlways, PTL

\* No year is skipped, applied twice or ahead of its July 30: the transaction
\* that moves the students is the one that looked at the last year
\* (RolloverCourses).
THEOREM YearsOneByOne == Spec => YearByYear
<1> DEFINE Ordered == last' # last => last' <= year /\ (last = 0 \/ last' = last + 1)
<1>1. YearInv /\ [Next]_jobVars => [Ordered]_yearVars
  <2> SUFFICES ASSUME YearInv, Next, last' # last PROVE Ordered
    BY DEF jobVars
  <2>1. YearNext
    BY RollingYears DEF yearVars
  <2>2. PICK r \in Runs : BaselineIfUnset(r) \/ Commit(r)
    BY <2>1 DEF YearNext, CreateAccount, UpsertStudentProfile, FillCourse,
       DecideStudentApproval, DeleteUser, UpsertProfile, UpdateApprovalStatus,
       DeleteRejected, CallDies, CallRun, RunStep, LastRolledOverYear, BeginYear, Return,
       Graduate, Advance, RollBack, NewYear, Others
  <2>3. CASE BaselineIfUnset(r)
    <3>1. last = 0 /\ last' = runs[r].until
      BY <2>3 DEF BaselineIfUnset
    <3> QED BY <3>1 DEF YearInv, Transactions
  <2>4. CASE Commit(r)
    <3>1. runs[r].at = "advanced" /\ last' = runs[r].next
      BY <2>4 DEF Commit
    <3>2. /\ Holds(r) /\ runs[r].next \in Nat /\ runs[r].until \in Nat /\ year \in Nat
      BY <3>1 DEF Holds, YearInv, YearTypeOK, Run
    <3> QED BY <3>1, <3>2, OneHolder
  <2> QED BY <2>2, <2>3, <2>4
<1> QED BY <1>1, YearInvAlways, PTL DEF Spec, YearByYear

-----------------------------------------------------------------------------
(* The document checks. *)

\* What is not in hand can be claimed once more.
Spare ==
  \A d \in Documents :
    /\ attempts[d] <= MaxAttempts + lost[d]
    /\ check[d] \in {"none", "pending"} \/ (check[d] = "processing" /\ d \notin worker.batch)
         => attempts[d] < MaxAttempts + lost[d]

DocInv == DocTypeOK /\ ClaimHeld /\ Spare

LEMMA DocStart == DocInit => DocInv
<1> SUFFICES ASSUME DocInit PROVE DocInv
  OBVIOUS
<1> USE DEF DocInit
<1>1. DocTypeOK
  BY DEF DocTypeOK, Down, Status, Answered
<1>2. ClaimHeld
  BY DEF ClaimHeld, Down
<1>3. Spare
  BY QueueAssumption DEF Spare, QueueAssumption
<1> QED BY <1>1, <1>2, <1>3 DEF DocInv

\* Uploads, deletions, and time.
LEMMA RowKeeps ==
  ASSUME DocInv, NEW d \in Documents, AddDocument(d) \/ DeleteApplication(d) \/ TenMinutes(d)
  PROVE  DocInv'
<1>1. /\ UNCHANGED <<attempts, worker, key, lost, losses>>
      /\ \A e \in Documents : \/ check'[e] = check[e]
                              \/ check[e] = "none" /\ check'[e] \in {"pending", "skipped"}
                              \/ check'[e] = "gone"
      /\ check' \in [Documents -> Status] /\ stale' \subseteq Documents
  BY DEF AddDocument, DeleteApplication, TenMinutes, DocInv, DocTypeOK, Status, Answered
<1>2. DocTypeOK'
  BY <1>1 DEF DocInv, DocTypeOK
<1>3. ClaimHeld'
  <2>1. \A e \in worker.batch : e \in Documents
    BY DEF DocInv, DocTypeOK
  <2> QED BY <1>1, <2>1 DEF DocInv, ClaimHeld
<1>4. Spare'
  BY <1>1 DEF DocInv, Spare
<1> QED BY <1>2, <1>3, <1>4 DEF DocInv

\* The goroutine with empty hands.
LEMMA LoopKeeps ==
  ASSUME DocInv,
         StartWorker \/ Tick \/ RequeueStaleChecks \/ RunOnceFails
  PROVE  DocInv'
<1>1. /\ worker.at # "check" /\ worker.batch = {} /\ worker.asked = {}
      /\ worker \in [at : {"down", "asleep", "requeue", "claim", "check"},
                     batch : SUBSET Documents, asked : SUBSET Documents]
  BY DEF StartWorker, Tick, RequeueStaleChecks, RunOnceFails, DocInv, DocTypeOK, ClaimHeld
<1>2. \E at \in {"asleep", "requeue", "claim"} : worker' = [worker EXCEPT !.at = at]
  BY DEF StartWorker, Tick, RequeueStaleChecks, RunOnceFails, Goto
<1>3. /\ worker'.batch = {} /\ worker'.asked = {}
      /\ worker' \in [at : {"down", "asleep", "requeue", "claim", "check"},
                      batch : SUBSET Documents, asked : SUBSET Documents]
  BY <1>1, <1>2
<1>4. /\ attempts' = attempts /\ key' \in BOOLEAN /\ stale' \subseteq Documents
      /\ check' \in [Documents -> Status] /\ lost' \in [Documents -> Nat] /\ losses' \in Nat
      /\ \A d \in Documents : /\ lost'[d] = lost[d]
                              /\ \/ check'[d] = check[d]
                                 \/ check[d] = "processing" /\ check'[d] = "pending"
  <2>1. CASE StartWorker \/ Tick
    BY <2>1 DEF StartWorker, Tick, DocInv, DocTypeOK
  <2>2. CASE RequeueStaleChecks
    BY <2>2 DEF RequeueStaleChecks, DocInv, DocTypeOK, Status
  <2>3. CASE RunOnceFails
    BY <2>3 DEF RunOnceFails, Lose, DocInv, DocTypeOK
  <2> QED BY <2>1, <2>2, <2>3
<1>5. DocTypeOK'
  BY <1>3, <1>4 DEF DocInv, DocTypeOK
<1>6. ClaimHeld'
  BY <1>3 DEF ClaimHeld
<1>7. Spare'
  BY <1>1, <1>3, <1>4 DEF DocInv, Spare
<1> QED BY <1>5, <1>6, <1>7 DEF DocInv

LEMMA ClaimKeeps ==
  ASSUME DocInv, ClaimPendingChecks
  PROVE  DocInv'
<1> DEFINE pending == {d \in Documents : check[d] = "pending"}
<1>1. PICK batch \in SUBSET pending :
        /\ check' = [d \in Documents |-> IF d \in batch THEN "processing" ELSE check[d]]
        /\ attempts' = [d \in Documents |->
                          IF d \in batch THEN attempts[d] + 1 ELSE attempts[d]]
        /\ worker' = [worker EXCEPT !.at = IF batch = {} THEN "asleep" ELSE "check",
                                    !.batch = batch]
  BY DEF ClaimPendingChecks
<1>2. /\ worker.batch = {} /\ worker.asked = {}
      /\ worker \in [at : {"down", "asleep", "requeue", "claim", "check"},
                     batch : SUBSET Documents, asked : SUBSET Documents]
      /\ UNCHANGED <<stale, key, lost, losses>>
  BY DEF ClaimPendingChecks, DocInv, DocTypeOK, ClaimHeld
<1>3. /\ worker'.batch = batch /\ worker'.asked = {}
      /\ batch # {} => worker'.at = "check"
      /\ worker' \in [at : {"down", "asleep", "requeue", "claim", "check"},
                      batch : SUBSET Documents, asked : SUBSET Documents]
  BY <1>1, <1>2
<1>4. \A d \in batch : d \in Documents /\ check[d] = "pending"
  OBVIOUS
<1>5. DocTypeOK'
  <2>1. /\ check \in [Documents -> Status] /\ attempts \in [Documents -> Nat]
        /\ stale \subseteq Documents /\ key \in BOOLEAN
        /\ lost \in [Documents -> Nat] /\ losses \in Nat
    BY DEF DocInv, DocTypeOK
  <2>2. check' \in [Documents -> Status]
    BY <1>1, <2>1 DEF Status
  <2>3. attempts' \in [Documents -> Nat]
    BY <1>1, <2>1
  <2> QED BY <1>2, <1>3, <2>1, <2>2, <2>3 DEF DocTypeOK
<1>6. ClaimHeld'
  BY <1>1, <1>3, <1>4 DEF ClaimHeld
<1>7. Spare'
  <2>1. \A d \in Documents : attempts[d] \in Nat /\ lost[d] \in Nat /\ MaxAttempts \in Nat
    BY QueueAssumption DEF DocInv, DocTypeOK
  <2> SUFFICES ASSUME NEW d \in Documents
               PROVE  /\ attempts'[d] <= MaxAttempts + lost[d]
                      /\ check'[d] \in {"none", "pending"}
                           \/ (check'[d] = "processing" /\ d \notin worker'.batch)
                         => attempts'[d] < MaxAttempts + lost[d]
    BY <1>2 DEF Spare
  <2>2. CASE d \in batch
    <3>1. /\ check'[d] = "processing" /\ attempts'[d] = attempts[d] + 1
          /\ attempts[d] < MaxAttempts + lost[d]
      BY <1>1, <1>4, <2>2 DEF DocInv, Spare
    <3> QED BY <3>1, <2>1, <2>2, <1>3
  <2>3. CASE d \notin batch
    <3>1. check'[d] = check[d] /\ attempts'[d] = attempts[d]
      BY <1>1, <2>3
    <3> QED BY <3>1, <2>3, <1>2, <1>3 DEF DocInv, Spare
  <2> QED BY <2>2, <2>3
<1> QED BY <1>5, <1>6, <1>7 DEF DocInv

\* One document after the other, and the loss of what is in hand.
LEMMA HandKeeps ==
  ASSUME DocInv,
         StopWorker \/ (\E d \in Documents : Ask(d) \/ CheckOne(d) \/ FinishFails(d))
  PROVE  DocInv'
<1>1. /\ worker \in [at : {"down", "asleep", "requeue", "claim", "check"},
                     batch : SUBSET Documents, asked : SUBSET Documents]
      /\ check \in [Documents -> Status] /\ attempts \in [Documents -> Nat]
      /\ stale \subseteq Documents /\ key \in BOOLEAN
      /\ lost \in [Documents -> Nat] /\ losses \in Nat /\ MaxAttempts \in Nat
  BY QueueAssumption DEF DocInv, DocTypeOK
<1>2. CASE StopWorker
  <2>1. /\ worker'.batch = {} /\ worker'.asked = {} /\ UNCHANGED <<check, attempts, stale, key>>
        /\ worker' \in [at : {"down", "asleep", "requeue", "claim", "check"},
                        batch : SUBSET Documents, asked : SUBSET Documents]
        /\ lost' = [d \in Documents |-> IF d \in worker.batch THEN lost[d] + 1 ELSE lost[d]]
        /\ losses' = losses + 1
    BY <1>2 DEF StopWorker, Lose, Down
  <2>2. DocTypeOK'
    BY <2>1, <1>1 DEF DocTypeOK
  <2>3. ClaimHeld'
    BY <2>1 DEF ClaimHeld
  <2>4. ASSUME NEW d \in Documents
        PROVE  /\ attempts[d] <= MaxAttempts + lost'[d]
               /\ check[d] \in {"none", "pending"} \/ check[d] = "processing"
                    => attempts[d] < MaxAttempts + lost'[d]
    <3>1. attempts[d] \in Nat /\ lost[d] \in Nat
      BY <1>1
    <3>2. d \in worker.batch => lost'[d] = lost[d] + 1 /\ check[d] \in {"processing", "gone"}
      BY <2>1 DEF DocInv, ClaimHeld
    <3>3. d \notin worker.batch => lost'[d] = lost[d]
      BY <2>1
    <3> QED BY <3>1, <3>2, <3>3, <1>1 DEF DocInv, Spare
  <2>5. Spare'
    BY <2>1, <2>4 DEF Spare
  <2> QED BY <2>2, <2>3, <2>5 DEF DocInv
<1>3. ASSUME NEW d \in Documents, Ask(d)
      PROVE  DocInv'
  <2>1. /\ worker.at = "check" /\ d \in worker.batch /\ worker' = [worker EXCEPT !.asked = {d}]
        /\ UNCHANGED <<check, attempts, stale, key, lost, losses>>
    BY <1>3 DEF Ask
  <2>2. /\ worker'.batch = worker.batch /\ worker'.at = "check" /\ worker'.asked = {d}
        /\ worker' \in [at : {"down", "asleep", "requeue", "claim", "check"},
                        batch : SUBSET Documents, asked : SUBSET Documents]
    BY <2>1, <1>1
  <2>3. DocTypeOK'
    BY <2>1, <2>2, <1>1 DEF DocTypeOK
  <2>4. ClaimHeld' /\ Spare'
    BY <2>1, <2>2 DEF DocInv, ClaimHeld, Spare
  <2> QED BY <2>3, <2>4 DEF DocInv
<1>4. ASSUME NEW d \in Documents, CheckOne(d) \/ FinishFails(d)
      PROVE  DocInv'
  <2>1. /\ d \in worker.batch /\ worker.at = "check"
        /\ worker' = [at |-> IF worker.batch = {d} THEN "claim" ELSE "check",
                      batch |-> worker.batch \ {d}, asked |-> {}]
        /\ attempts' = attempts /\ key' = key
    BY <1>4 DEF CheckOne, FinishFails, PutDown, DocInv, ClaimHeld
  <2>2. /\ worker'.batch = worker.batch \ {d} /\ worker'.asked = {}
        /\ worker'.batch # {} => worker'.at = "check"
        /\ worker' \in [at : {"down", "asleep", "requeue", "claim", "check"},
                        batch : SUBSET Documents, asked : SUBSET Documents]
    BY <2>1, <1>1
  <2>3. CASE CheckOne(d)
    <3>1. PICK status \in {"done", "unsupported", "failed", "pending"} :
            /\ Finish(d, status)
            /\ status = "pending" => ~(attempts[d] >= MaxAttempts)
      BY <2>3 DEF CheckOne
    <3>2. lost' = lost /\ losses' = losses
      BY <2>3 DEF CheckOne
    <3>3. /\ check' \in [Documents -> Status] /\ stale' \subseteq Documents
          /\ \A e \in Documents : e # d => check'[e] = check[e]
          /\ check'[d] \in {"gone", status}
      BY <3>1, <1>1 DEF Finish, Status, Answered
    <3>4. DocTypeOK'
      BY <3>2, <3>3, <2>1, <2>2, <1>1 DEF DocTypeOK
    <3>5. ClaimHeld'
      BY <3>3, <2>2, <1>1 DEF DocInv, ClaimHeld
    <3>6. ASSUME NEW e \in Documents
          PROVE  /\ attempts[e] <= MaxAttempts + lost[e]
                 /\ check'[e] \in {"none", "pending"}
                      \/ (check'[e] = "processing" /\ e \notin worker'.batch)
                    => attempts[e] < MaxAttempts + lost[e]
      <4>1. attempts[e] \in Nat /\ lost[e] \in Nat /\ attempts[e] <= MaxAttempts + lost[e]
        BY <1>1 DEF DocInv, Spare
      <4>2. CASE e = d
        BY <4>1, <4>2, <3>1, <3>3, <1>1
      <4>3. CASE e # d
        BY <4>3, <3>3, <2>2 DEF DocInv, Spare
      <4> QED BY <4>2, <4>3
    <3>7. Spare'
      BY <3>2, <3>6, <2>1 DEF Spare
    <3> QED BY <3>4, <3>5, <3>7 DEF DocInv
  <2>4. CASE FinishFails(d)
    <3>1. /\ UNCHANGED <<check, stale>> /\ losses' = losses + 1
          /\ lost' = [e \in Documents |-> IF e = d THEN lost[e] + 1 ELSE lost[e]]
      BY <2>4 DEF FinishFails, Lose
    <3>2. DocTypeOK'
      BY <3>1, <2>1, <2>2, <1>1 DEF DocTypeOK
    <3>3. ClaimHeld'
      BY <3>1, <2>2 DEF DocInv, ClaimHeld
    <3>4. ASSUME NEW e \in Documents
          PROVE  /\ attempts[e] <= MaxAttempts + lost'[e]
                 /\ check[e] \in {"none", "pending"}
                      \/ (check[e] = "processing" /\ e \notin worker'.batch)
                    => attempts[e] < MaxAttempts + lost'[e]
      <4>1. attempts[e] \in Nat /\ lost[e] \in Nat /\ attempts[e] <= MaxAttempts + lost[e]
        BY <1>1 DEF DocInv, Spare
      <4>2. CASE e = d
        BY <4>1, <4>2, <3>1, <1>1
      <4>3. CASE e # d
        BY <4>3, <3>1, <2>2 DEF DocInv, Spare
      <4> QED BY <4>2, <4>3
    <3>5. Spare'
      BY <3>1, <3>4, <2>1 DEF Spare
    <3> QED BY <3>2, <3>3, <3>5 DEF DocInv
  <2> QED BY <1>4, <2>3, <2>4
<1> QED BY <1>2, <1>3, <1>4

LEMMA DocStep == DocInv /\ [DocNext]_docVars => DocInv'
<1> SUFFICES ASSUME DocInv, [DocNext]_docVars PROVE DocInv'
  OBVIOUS
<1>1. CASE StartWorker \/ Tick \/ RequeueStaleChecks \/ RunOnceFails
  BY <1>1, LoopKeeps
<1>2. CASE ClaimPendingChecks
  BY <1>2, ClaimKeeps
<1>3. CASE StopWorker \/ (\E d \in Documents : Ask(d) \/ CheckOne(d) \/ FinishFails(d))
  BY <1>3, HandKeeps
<1>4. CASE \E d \in Documents : AddDocument(d) \/ DeleteApplication(d) \/ TenMinutes(d)
  BY <1>4, RowKeeps
<1>5. CASE UNCHANGED docVars
  BY <1>5 DEF docVars, DocInv, DocTypeOK, ClaimHeld, Spare
<1> QED BY <1>1, <1>2, <1>3, <1>4, <1>5 DEF DocNext, WorkerStep

LEMMA DocInvAlways == Spec => []DocInv
<1>1. Init => DocInv
  BY DocStart DEF Init
<1>2. DocInv /\ [Next]_jobVars => DocInv'
  <2>1. [Next]_jobVars => [DocNext]_docVars
    BY DEF Next, Rolling, Checking, jobVars
  <2> QED BY <2>1, DocStep
<1> QED BY <1>1, <1>2, PTL DEF Spec

\* What the goroutine has in hand is claimed by it alone, for any number of
\* documents and any batch (DocumentCheckService.RunOnce).
THEOREM ClaimsAreHeld == Spec => []ClaimHeld
<1>1. DocInv => ClaimHeld
  BY DEF DocInv
<1> QED BY <1>1, DocInvAlways, PTL

\* A document is sent to the model as often as its attempts allow and once more
\* for every claim that was lost (ClaimPendingChecks, checkOne).
THEOREM AttemptsAreBounded == Spec => []AttemptsBounded
<1>1. DocInv => AttemptsBounded
  BY DEF DocInv, Spare, AttemptsBounded
<1> QED BY <1>1, DocInvAlways, PTL

\* The variables of the queue keep to their types.
THEOREM DocTypesHold == Spec => []DocTypeOK
<1>1. DocInv => DocTypeOK
  BY DEF DocInv
<1> QED BY <1>1, DocInvAlways, PTL
=============================================================================
