--------------------------- MODULE DocumentCheck ---------------------------
(***************************************************************************)
(* DocumentCheckService: a queue in the table application_documents, and   *)
(* the goroutine that works it off, four documents at a time, with one     *)
(* call of the model for each.  The goroutine may stop at any place, with  *)
(* the process or because a statement fails; what it had claimed is found  *)
(* again by its age.                                                       *)
(***************************************************************************)
EXTENDS Naturals, FiniteSets

CONSTANTS
  Documents,
  Batch,          \* documentCheckBatch
  MaxAttempts,    \* documentCheckMaxAttempts
  MaxLosses       \* bound: statements that fail, and crashes

ASSUME QueueAssumption ==
  Batch \in Nat \ {0} /\ MaxAttempts \in Nat \ {0} /\ MaxLosses \in Nat

VARIABLES
  check,          \* application_documents.ai_status, "none" before the upload
  attempts,       \* ai_attempts
  stale,          \* processing rows with ai_claimed_at older than 10 minutes
  worker,         \* the goroutine of Start, and the documents it has in hand
  key,            \* the process was started with an API key
  lost,           \* history: claims of a document that brought no answer
  losses

docVars == <<check, attempts, stale, worker, key, lost, losses>>

Answered == {"done", "unsupported", "failed"}
Status == {"none", "skipped", "pending", "processing", "gone"} \cup Answered
Down == [at |-> "down", batch |-> {}, asked |-> {}]

DocTypeOK ==
  /\ check \in [Documents -> Status]
  /\ attempts \in [Documents -> Nat]
  /\ stale \subseteq Documents
  /\ worker \in [at : {"down", "asleep", "requeue", "claim", "check"},
                 batch : SUBSET Documents, asked : SUBSET Documents]
  /\ key \in BOOLEAN
  /\ lost \in [Documents -> Nat] /\ losses \in Nat

DocInit ==
  /\ check = [d \in Documents |-> "none"]
  /\ attempts = [d \in Documents |-> 0]
  /\ stale = {} /\ worker = Down /\ key \in BOOLEAN
  /\ lost = [d \in Documents |-> 0] /\ losses = 0

------------------------------------------------------------------------------
\* ApplicationService.AddDocument queues the check when there is a key; a file
\* that is not for a required document is not checked.
AddDocument(d) ==
  /\ check[d] = "none" /\ worker.at # "down"
  /\ \E named \in BOOLEAN :
       check' = [check EXCEPT ![d] = IF key /\ ~named THEN "pending" ELSE "skipped"]
  /\ UNCHANGED <<attempts, stale, worker, key, lost, losses>>

\* The application is deleted with its documents.
DeleteApplication(d) ==
  /\ check[d] \notin {"none", "gone"} /\ worker.at # "down"
  /\ check' = [check EXCEPT ![d] = "gone"] /\ stale' = stale \ {d}
  /\ UNCHANGED <<attempts, worker, key, lost, losses>>

\* A claim gets older than documentCheckStaleAfter.
TenMinutes(d) ==
  /\ check[d] = "processing" /\ stale' = stale \cup {d} /\ d \notin stale
  /\ UNCHANGED <<check, attempts, worker, key, lost, losses>>

------------------------------------------------------------------------------
\* The goroutine

Goto(at) == worker' = [worker EXCEPT !.at = at]

\* Start: the first RunOnce begins with the process.
StartWorker ==
  /\ worker.at = "down" /\ key' \in BOOLEAN /\ Goto("requeue")
  /\ UNCHANGED <<check, attempts, stale, lost, losses>>

\* Mutant: the tick is for stale claims only, and there is no Wake.
TickForStale ==
  /\ worker.at = "asleep" /\ stale # {} /\ Goto("requeue")
  /\ UNCHANGED <<check, attempts, stale, key, lost, losses>>

\* The tick of the minute, or Wake.
Tick ==
  /\ worker.at = "asleep" /\ Goto("requeue")
  /\ UNCHANGED <<check, attempts, stale, key, lost, losses>>

\* Mutant: a timer of its own requeues what is stale.
RequeueAnyTime ==
  /\ key /\ worker.at # "down"
  /\ check' = [d \in Documents |->
       IF d \in stale /\ check[d] = "processing" THEN "pending" ELSE check[d]]
  /\ stale' = {}
  /\ worker' = [worker EXCEPT !.at = IF @ = "requeue" THEN "claim" ELSE @]
  /\ UNCHANGED <<attempts, key, lost, losses>>

\* RunOnce, Enabled and RequeueStaleChecks.
RequeueStaleChecks ==
  /\ worker.at = "requeue"
  /\ IF key
     THEN /\ check' = [d \in Documents |->
               IF d \in stale /\ check[d] = "processing" THEN "pending" ELSE check[d]]
          /\ stale' = {}
          /\ Goto("claim")
     ELSE Goto("asleep") /\ UNCHANGED <<check, stale>>
  /\ UNCHANGED <<attempts, key, lost, losses>>

\* ClaimPendingChecks: the oldest ones, up to the limit; which ones these are
\* makes no difference here.
ClaimPendingChecks ==
  /\ worker.at = "claim"
  /\ LET pending == {d \in Documents : check[d] = "pending"}
     IN  \E batch \in SUBSET pending :
           /\ Cardinality(batch) <= Batch
           /\ batch # pending => Cardinality(batch) = Batch
           /\ check' = [d \in Documents |->
                          IF d \in batch THEN "processing" ELSE check[d]]
           /\ attempts' = [d \in Documents |->
                             IF d \in batch THEN attempts[d] + 1 ELSE attempts[d]]
           /\ worker' = [worker EXCEPT !.at = IF batch = {} THEN "asleep" ELSE "check",
                                       !.batch = batch]
  /\ UNCHANGED <<stale, key, lost, losses>>

\* check: the file and the call of the model.
Ask(d) ==
  /\ worker.at = "check" /\ d \in worker.batch /\ worker.asked = {}
  /\ worker' = [worker EXCEPT !.asked = {d}]
  /\ UNCHANGED <<check, attempts, stale, key, lost, losses>>

\* finish: the batch goes on, and after it the queue.
PutDown(d) ==
  worker' = [at |-> IF worker.batch = {d} THEN "claim" ELSE "check",
             batch |-> worker.batch \ {d}, asked |-> {}]

\* FinishCheck names the row by its id alone; it may be gone.
Finish(d, status) ==
  /\ check' = [check EXCEPT ![d] = IF @ = "gone" THEN @ ELSE status]
  /\ stale' = stale \ {d}

\* checkOne: what cannot be read is not tried again, an error of the call is,
\* until the claim was the last that is allowed.
CheckOne(d) ==
  /\ d \in worker.asked /\ PutDown(d)
  /\ \/ \E status \in {"done", "unsupported"} : Finish(d, status)
     \/ Finish(d, IF attempts[d] >= MaxAttempts THEN "failed" ELSE "pending")
  /\ UNCHANGED <<attempts, key, lost, losses>>

\* A loss is counted for every document that had been claimed for nothing.
Lose(ds) ==
  /\ losses < MaxLosses /\ losses' = losses + 1
  /\ lost' = [d \in Documents |-> IF d \in ds THEN lost[d] + 1 ELSE lost[d]]

\* FinishCheck fails, which is only logged.
FinishFails(d) ==
  /\ d \in worker.asked /\ PutDown(d) /\ Lose({d})
  /\ UNCHANGED <<check, attempts, stale, key>>

\* RequeueStaleChecks or ClaimPendingChecks fails: RunOnce ends.
RunOnceFails ==
  /\ worker.at \in {"requeue", "claim"} /\ Goto("asleep") /\ Lose({})
  /\ UNCHANGED <<check, attempts, stale, key>>

\* The process stops, with what it had in hand.
StopWorker ==
  /\ worker.at # "down" /\ worker' = Down /\ Lose(worker.batch)
  /\ UNCHANGED <<check, attempts, stale, key>>

------------------------------------------------------------------------------
WorkerStep ==
  \/ StartWorker \/ Tick \/ RequeueStaleChecks \/ ClaimPendingChecks
  \/ \E d \in Documents : Ask(d) \/ CheckOne(d)

DocNext ==
  \/ WorkerStep \/ RunOnceFails \/ StopWorker
  \/ \E d \in Documents : \/ AddDocument(d) \/ DeleteApplication(d) \/ TenMinutes(d)
                          \/ FinishFails(d)

DocSpec == DocInit /\ [][DocNext]_docVars

------------------------------------------------------------------------------
\* What the goroutine has in hand is claimed, by it alone: nothing puts a
\* document back into the queue that is still to be checked, however long the
\* documents before it took, and every claim is one call at most.  That there
\* is one goroutine, which looks for stale claims only with empty hands, is
\* what makes the unguarded FinishCheck right.
ClaimHeld ==
  /\ \A d \in worker.batch : check[d] \in {"processing", "gone"}
  /\ worker.asked \subseteq worker.batch
  /\ worker.batch # {} => worker.at = "check"

\* The model is asked about a document documentCheckMaxAttempts times, and
\* once more for every claim that brought no answer, which nothing limits.
AttemptsBounded ==
  \A d \in Documents : attempts[d] <= MaxAttempts + lost[d]

\* An upload that was queued gets its answer, or its application goes, in
\* spite of crashes, failed statements and calls, as long as there is a key.
EveryUploadAnswered ==
  \A d \in Documents : (check[d] \in {"pending", "processing"}) ~>
                         (check[d] \in Answered \cup {"gone"} \/ ~key)
=============================================================================
