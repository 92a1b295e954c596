-------------------------- MODULE AnalysisExecution --------------------------
(***************************************************************************)
(* One execution of analyses, from the batch that submits its work units   *)
(* to Risk Modeler to the stored loss results: the three workers of        *)
(* app/workers/analysis_jobs.py, the poller's tracking and submission      *)
(* retry (app/poller/run.py), and the deletion and the retrieval retry an  *)
(* analyst asks for (app/services/analysis_service.py).                    *)
(*                                                                         *)
(* A step is one SQL statement, one transaction or one Risk Modeler call.  *)
(* The work queue is reduced to what RwbQueue shows of it: a pending job   *)
(* is claimed by one thread at a time, a lost or stalled thread's job goes *)
(* back to pending, and the first completion to find the row running wins. *)
(***************************************************************************)
EXTENDS Naturals, Sequences, FiniteSets

CONSTANTS NumUnits,    \* work units (portfolio, item) of the approved plan
          Workers,     \* worker threads
          Deleters,    \* delete requests being served
          NoTask,      \* a thread that runs nothing
          MaxRetries,  \* irp_submission_max_retries
          MaxRequests, \* bound: retries an analyst asks for
          MaxCrashes,  \* bound: processes lost between two steps, bodies that raise
          MaxStalls,   \* bound: jobs taken back from a thread that is alive
          MaxLost      \* bound: submits Risk Modeler accepts without an answer

ASSUME AnalysisExecutionAssumption ==
    /\ {NumUnits, MaxRetries} \subseteq Nat \ {0}
    /\ {MaxRequests, MaxCrashes, MaxStalls, MaxLost} \subseteq Nat

VARIABLES analysis, \* the irp_analysis row of each unit
          irpJobs,  \* the irp_job rows of each unit, oldest first
          task,     \* the status of every rwb_job
          worker,   \* each thread's place in the body it runs
          poller,   \* the poller's place in _submission_retry
          deleter,  \* each delete request's place in _delete_analyses
          rmLive,   \* analyses Risk Modeler holds: <<unit, index of the irp_job>>
          runs,     \* history: runs of each unit Risk Modeler has accepted
          spent     \* how much of each bound has been used

vars == <<analysis, irpJobs, task, worker, poller, deleter, rmLive, runs, spent>>

Units == 1..NumUnits

\* More irp_jobs than this per unit would need more stalls than there are.
JobIndex == 1..(MaxStalls + 1)

Batch          == <<"batch", 0, 0>>
Finalize(u, i) == <<"finalize", u, i>>
Retrieve(u)    == <<"retrieve", u, 0>>
Tasks          == {Batch} \cup {Finalize(u, i) : u \in Units, i \in JobIndex}
                          \cup {Retrieve(u) : u \in Units}

ASSUME ThreadAssumption == IsFiniteSet(Workers) /\ NoTask \notin Tasks

\* "raised" is failed as run_job writes it, the body having raised where nothing
\* catches it, or reached its time limit.
Outcome    == {"succeeded", "failed", "raised"}
TaskStatus == {"absent", "pending", "running"} \cup Outcome

\* "none": the row is not inserted yet.  irpId 0: irp_id IS NULL.
Analysis == [status : {"none", "pending", "ready", "error"}, deleted : BOOLEAN,
             irpId : Nat, results : BOOLEAN]

\* "FAILED" stands for CANCELLED too, "RUNNING" for every status under way; the
\* code writes "SUBMISSION FAILED" and "SUBMISSION RETRYING" with a blank.
\* named: the completion body carries the analysisId.
JobStatus == {"QUEUED", "RUNNING", "FINISHED", "FAILED",
              "SUBMISSION_FAILED", "SUBMISSION_RETRYING"}
IrpJob    == [status : JobStatus, attempts : Nat, named : BOOLEAN]

SubmitAt == {"count", "select", "insert", "submit", "record", "record_failure",
             "record_rejection", "mark_error"}
WorkerAt == SubmitAt \cup {"idle", "resolve", "metadata", "ready", "chain",
                           "read", "fetch", "store"} \cup Outcome
Thread   == [at : WorkerAt, task : Tasks \cup {NoTask}, unit : Nat, good : BOOLEAN,
             irpId : Nat]
Idle     == [at |-> "idle", task |-> NoTask, unit |-> 0, good |-> FALSE, irpId |-> 0]

RetryAt  == {"idle", "batch", "submit", "record", "record_failure", "record_rejection"}
Resting  == [at |-> "idle", todo |-> {}, unit |-> 0, job |-> 0]

DeleteAt == {"idle", "remote", "local"}
Unasked  == [at |-> "idle", unit |-> 0, irpId |-> 0, lock |-> 0]

-----------------------------------------------------------------------------
(* Reading the state *)

Latest(u)    == irpJobs[u][Len(irpJobs[u])]
JobIs(u, st) == irpJobs[u] # <<>> /\ Latest(u).status = st

\* Mutant: a run that is over in Risk Modeler is taken for a finished one.
DeletableOnceFinished(u) ==
    /\ analysis[u].status # "none" /\ ~ analysis[u].deleted
    /\ ~ JobIs(u, "SUBMISSION_RETRYING")
    /\ \/ analysis[u].status \in {"ready", "error"}
       \/ JobIs(u, "SUBMISSION_FAILED") \/ JobIs(u, "FINISHED")

\* ExecutedAnalysis.is_deletable, over the latest irp_job.
Deletable(u) ==
    /\ analysis[u].status # "none" /\ ~ analysis[u].deleted
    /\ ~ JobIs(u, "SUBMISSION_RETRYING")
    /\ analysis[u].status \in {"ready", "error"} \/ JobIs(u, "SUBMISSION_FAILED")

\* The newest SUBMISSION FAILED row of a live pending analysis, with attempts
\* left.  Its back-off (two minutes at least) outlasts the statement by which
\* the worker that recorded the failure marks a rejected analysis.
Candidates ==
    {c \in Units \X JobIndex :
        LET u == c[1]  i == c[2] IN
        /\ i \in DOMAIN irpJobs[u]
        /\ irpJobs[u][i].status = "SUBMISSION_FAILED"
        /\ \A k \in DOMAIN irpJobs[u] : k > i => irpJobs[u][k].status # "SUBMISSION_FAILED"
        /\ analysis[u].status = "pending" /\ ~ analysis[u].deleted
        /\ irpJobs[u][i].attempts < MaxRetries
        /\ ~ \E w \in Workers : worker[w].at = "mark_error" /\ worker[w].unit = u}

Spend(what) == spent' = [spent EXCEPT ![what] = @ + 1]

AddJob(u, st, n) ==
    irpJobs' = [irpJobs EXCEPT ![u] = Append(@,
                    [status |-> st, attempts |-> n, named |-> FALSE])]

-----------------------------------------------------------------------------
Init ==
    /\ analysis = [u \in Units |-> [status |-> "none", deleted |-> FALSE,
                                    irpId |-> 0, results |-> FALSE]]
    /\ irpJobs  = [u \in Units |-> <<>>]
    /\ task     = [t \in Tasks |-> IF t = Batch THEN "pending" ELSE "absent"]
    /\ worker   = [w \in Workers |-> Idle]
    /\ poller   = Resting
    /\ deleter  = [d \in Deleters |-> Unasked]
    /\ rmLive   = {}
    /\ runs     = [u \in Units |-> 0]
    /\ spent    = [requests |-> 0, crashes |-> 0, stalls |-> 0, lost |-> 0]

-----------------------------------------------------------------------------
(* The work queue *)

FirstStep(t) == CASE t[1] = "batch"    -> "count"
                  [] t[1] = "finalize" -> "resolve"
                  [] t[1] = "retrieve" -> "read"

Claim(w, t) ==
    /\ worker[w] = Idle /\ task[t] = "pending"
    /\ task' = [task EXCEPT ![t] = "running"]
    /\ worker' = [worker EXCEPT ![w] =
                     [at |-> FirstStep(t), task |-> t,
                      unit |-> IF t = Batch THEN 1 ELSE t[2], good |-> FALSE, irpId |-> 0]]
    /\ UNCHANGED <<analysis, irpJobs, poller, deleter, rmLive, runs, spent>>

\* complete_rwb_job writes only over running.
Complete(w) ==
    /\ worker[w].at \in Outcome
    /\ task' = [task EXCEPT ![worker[w].task] = IF @ = "running" THEN worker[w].at ELSE @]
    /\ worker' = [worker EXCEPT ![w] = Idle]
    /\ UNCHANGED <<analysis, irpJobs, poller, deleter, rmLive, runs, spent>>

\* The reconciler.  The job of a live thread goes back only after a stall.
Reclaim(t) ==
    /\ task[t] = "running"
    /\ task' = [task EXCEPT ![t] = "pending"]
    /\ IF \E w \in Workers : worker[w].task = t
         THEN spent.stalls < MaxStalls /\ Spend("stalls")
         ELSE UNCHANGED spent
    /\ UNCHANGED <<analysis, irpJobs, worker, poller, deleter, rmLive, runs>>

\* A thread is lost, and with it what it had not written yet.
Crash(w) ==
    /\ worker[w] # Idle
    /\ spent.crashes < MaxCrashes /\ Spend("crashes")
    /\ worker' = [worker EXCEPT ![w] = Idle]
    /\ UNCHANGED <<analysis, irpJobs, task, poller, deleter, rmLive, runs>>

\* A body that raises, or is at its time limit: run_job completes the job as
\* failed, which nobody runs again, and what it was about stays as it is.
Raises(w) ==
    /\ worker[w].at \notin Outcome \cup {"idle"}
    /\ spent.crashes < MaxCrashes /\ Spend("crashes")
    /\ worker' = [worker EXCEPT ![w].at = "raised"]
    /\ UNCHANGED <<analysis, irpJobs, task, poller, deleter, rmLive, runs>>

\* resubmit_rwb_job: Retry on any failed job of the queue page.
Resubmit(t) ==
    /\ task[t] \in {"failed", "raised"}
    /\ spent.requests < MaxRequests /\ Spend("requests")
    /\ task' = [task EXCEPT ![t] = "pending"]
    /\ UNCHANGED <<analysis, irpJobs, worker, poller, deleter, rmLive, runs>>

\* retry_results_retrieval: Retry on the analysis row.
RetryRetrieval(u) ==
    /\ analysis[u].status # "none" /\ ~ analysis[u].deleted /\ ~ analysis[u].results
    /\ task[Retrieve(u)] \notin {"pending", "running"}
    /\ spent.requests < MaxRequests /\ Spend("requests")
    /\ task' = [task EXCEPT ![Retrieve(u)] = "pending"]
    /\ UNCHANGED <<analysis, irpJobs, worker, poller, deleter, rmLive, runs>>

-----------------------------------------------------------------------------
(* execute_analysis_batch: the units of the plan, in order *)

Go(w, at) == worker' = [worker EXCEPT ![w].at = at]

\* On to the next unit.  The batch fails only if every item failed to submit.
NextUnit(w, good) ==
    worker' = [worker EXCEPT
        ![w].good = @ \/ good,
        ![w].unit = IF @ < NumUnits THEN @ + 1 ELSE @,
        ![w].at   = IF worker[w].unit < NumUnits    THEN "count"
                    ELSE IF worker[w].good \/ good  THEN "succeeded"
                                                    ELSE "failed"]

\* Mutant: only an accepted submit counts.
CountAccepted(w) ==
    /\ worker[w].at = "count"
    /\ IF \E i \in DOMAIN irpJobs[worker[w].unit] :
              irpJobs[worker[w].unit][i].status \notin {"SUBMISSION_FAILED", "SUBMISSION_RETRYING"}
         THEN NextUnit(w, TRUE) ELSE Go(w, "select")
    /\ UNCHANGED <<analysis, irpJobs, task, poller, deleter, rmLive, runs, spent>>

\* A unit that has an irp_job is done already.
CountJobs(w) ==
    /\ worker[w].at = "count"
    /\ IF irpJobs[worker[w].unit] # <<>> THEN NextUnit(w, TRUE) ELSE Go(w, "select")
    /\ UNCHANGED <<analysis, irpJobs, task, poller, deleter, rmLive, runs, spent>>

\* _claim_analysis: resume the row of an interrupted run.
SelectAnalysis(w) ==
    /\ worker[w].at = "select"
    /\ Go(w, IF analysis[worker[w].unit].status = "none" THEN "insert" ELSE "submit")
    /\ UNCHANGED <<analysis, irpJobs, task, poller, deleter, rmLive, runs, spent>>

\* A row inserted since the SELECT violates uq_irp_analysis_execution_item
\* whatever the suffix: the names run out and the body raises.
InsertAnalysis(w) ==
    /\ worker[w].at = "insert"
    /\ IF analysis[worker[w].unit].status = "none"
         THEN /\ analysis' = [analysis EXCEPT ![worker[w].unit].status = "pending"]
              /\ Go(w, "submit")
         ELSE Go(w, "raised") /\ UNCHANGED analysis
    /\ UNCHANGED <<irpJobs, task, poller, deleter, rmLive, runs, spent>>

Outcomes == {"record", "record_failure", "record_rejection"}

\* One submit to Risk Modeler, and the outcome that is heard.  The client repeats
\* an attempt whose answer it did not get: a run may be there that nobody heard of,
\* next to any outcome.
Submits(u, at) ==
    LET heard == IF at = "record" THEN 1 ELSE 0 IN
    \/ runs' = [runs EXCEPT ![u] = @ + heard] /\ UNCHANGED spent
    \/ /\ runs' = [runs EXCEPT ![u] = @ + heard + 1]
       /\ spent.lost < MaxLost /\ Spend("lost")

\* submit_portfolio_analysis: accepted, failed, or rejected for good.
SubmitUnit(w) ==
    /\ worker[w].at = "submit"
    /\ \E at \in Outcomes : Go(w, at) /\ Submits(worker[w].unit, at)
    /\ UNCHANGED <<analysis, irpJobs, task, poller, deleter, rmLive>>

RecordSubmit(w) ==
    LET u == worker[w].unit IN
    /\ \/ /\ worker[w].at = "record"
          /\ AddJob(u, "QUEUED", 0) /\ NextUnit(w, TRUE)
       \/ /\ worker[w].at = "record_failure"
          /\ AddJob(u, "SUBMISSION_FAILED", 1) /\ NextUnit(w, FALSE)
       \/ /\ worker[w].at = "record_rejection"
          /\ AddJob(u, "SUBMISSION_FAILED", 1) /\ Go(w, "mark_error")
    /\ UNCHANGED <<analysis, task, poller, deleter, rmLive, runs, spent>>

\* The second statement after a rejected submit.
MarkError(w) ==
    /\ worker[w].at = "mark_error"
    /\ analysis' = [analysis EXCEPT ![worker[w].unit].status = "error"]
    /\ NextUnit(w, FALSE)
    /\ UNCHANGED <<irpJobs, task, poller, deleter, rmLive, runs, spent>>

-----------------------------------------------------------------------------
(* finalize_analysis, for the irp_job worker[w].task[3] of its analysis *)

FailAnalysis(w) ==
    /\ analysis' = [analysis EXCEPT ![worker[w].unit].status = "error"]
    /\ Go(w, "failed")

\* The pointer is written before the metadata is fetched.
ResolveAnalysis(w) ==
    LET u == worker[w].unit  i == worker[w].task[3] IN
    /\ worker[w].at = "resolve"
    /\ IF irpJobs[u][i].named
         THEN analysis' = [analysis EXCEPT ![u].irpId = i] /\ Go(w, "metadata")
         ELSE FailAnalysis(w)
    /\ UNCHANGED <<irpJobs, task, poller, deleter, rmLive, runs, spent>>

FetchMetadata(w) ==
    /\ worker[w].at = "metadata"
    /\ \/ /\ <<worker[w].unit, worker[w].task[3]>> \in rmLive
          /\ Go(w, "ready") /\ UNCHANGED analysis
       \/ FailAnalysis(w)
    /\ UNCHANGED <<irpJobs, task, poller, deleter, rmLive, runs, spent>>

StoreMetadata(w) ==
    /\ worker[w].at = "ready"
    /\ analysis' = [analysis EXCEPT ![worker[w].unit].status = "ready"]
    /\ Go(w, "chain")
    /\ UNCHANGED <<irpJobs, task, poller, deleter, rmLive, runs, spent>>

\* The UNIQUE key makes the insert a no-op for a job that exists.
ChainRetrieval(w) ==
    /\ worker[w].at = "chain"
    /\ task' = [task EXCEPT ![Retrieve(worker[w].unit)] =
                   IF @ = "absent" THEN "pending" ELSE @]
    /\ Go(w, "succeeded")
    /\ UNCHANGED <<analysis, irpJobs, poller, deleter, rmLive, runs, spent>>

-----------------------------------------------------------------------------
(* retrieve_analysis_results *)

ReadAnalysis(w) ==
    LET a == analysis[worker[w].unit] IN
    /\ worker[w].at = "read"
    /\ worker' = [worker EXCEPT
                     ![w].at = IF a.results THEN "succeeded"
                               ELSE IF a.irpId = 0 THEN "failed" ELSE "fetch",
                     ![w].irpId = a.irpId]
    /\ UNCHANGED <<analysis, irpJobs, task, poller, deleter, rmLive, runs, spent>>

\* Any failed read of Risk Modeler fails the job and stores nothing.
FetchResults(w) ==
    /\ worker[w].at = "fetch"
    /\ \/ <<worker[w].unit, worker[w].irpId>> \in rmLive /\ Go(w, "store")
       \/ Go(w, "failed")
    /\ UNCHANGED <<analysis, irpJobs, task, poller, deleter, rmLive, runs, spent>>

StoreResults(w) ==
    /\ worker[w].at = "store"
    /\ analysis' = [analysis EXCEPT ![worker[w].unit].results = TRUE]
    /\ Go(w, "succeeded")
    /\ UNCHANGED <<irpJobs, task, poller, deleter, rmLive, runs, spent>>

-----------------------------------------------------------------------------
(* The poller: _track_irp_jobs.  One single-status read, then one           *)
(* transaction that mirrors it and runs the terminal handler.               *)

SetJob(u, i, st) == irpJobs' = [irpJobs EXCEPT ![u][i].status = st]

Track(u, i) ==
    /\ poller.at = "idle" /\ i \in DOMAIN irpJobs[u]
    /\ irpJobs[u][i].status \in {"QUEUED", "RUNNING"}
    /\ UNCHANGED <<worker, poller, deleter, runs, spent>>

TrackRunning(u, i) ==
    /\ Track(u, i)
    /\ irpJobs[u][i].status = "QUEUED" /\ SetJob(u, i, "RUNNING")
    /\ UNCHANGED <<analysis, task, rmLive>>

\* FINISHED: Risk Modeler holds the analysis and finalize_analysis is enqueued.
TrackFinished(u, i) ==
    /\ Track(u, i)
    /\ \E named \in BOOLEAN :
          irpJobs' = [irpJobs EXCEPT ![u][i].status = "FINISHED", ![u][i].named = named]
    /\ rmLive' = rmLive \cup {<<u, i>>}
    /\ task' = [task EXCEPT ![Finalize(u, i)] = IF @ = "absent" THEN "pending" ELSE @]
    /\ UNCHANGED analysis

\* Mutant: a failed run leaves its analysis alone.
TrackFailedOnlyJob(u, i) ==
    /\ Track(u, i)
    /\ SetJob(u, i, "FAILED")
    /\ UNCHANGED <<analysis, task, rmLive>>

\* FAILED or CANCELLED: the analysis ends with its run.
TrackFailed(u, i) ==
    /\ Track(u, i)
    /\ SetJob(u, i, "FAILED")
    /\ analysis' = [analysis EXCEPT ![u].status = "error"]
    /\ UNCHANGED <<task, rmLive>>

-----------------------------------------------------------------------------
(* The poller: _submission_retry, one candidate after the other *)

RetrySelect ==
    /\ poller.at = "idle" /\ Candidates # {}
    /\ poller' = [Resting EXCEPT !.at = "batch", !.todo = Candidates]
    /\ UNCHANGED <<analysis, irpJobs, task, worker, deleter, rmLive, runs, spent>>

BatchDone(todo) == [Resting EXCEPT !.at = IF todo = {} THEN "idle" ELSE "batch",
                                   !.todo = todo]

\* The claim holds only while the submit is failed and the analysis is live.
Claimable(u, i) ==
    irpJobs[u][i].status = "SUBMISSION_FAILED" /\ ~ analysis[u].deleted

RetryClaim ==
    /\ poller.at = "batch"
    /\ \E c \in poller.todo :
          LET todo == poller.todo \ {c} IN
          IF Claimable(c[1], c[2])
            THEN /\ SetJob(c[1], c[2], "SUBMISSION_RETRYING")
                 /\ poller' = [at |-> "submit", todo |-> todo, unit |-> c[1], job |-> c[2]]
            ELSE poller' = BatchDone(todo) /\ UNCHANGED irpJobs
    /\ UNCHANGED <<analysis, task, worker, deleter, rmLive, runs, spent>>

RetryTo(at) == poller' = [poller EXCEPT !.at = at]

RetrySubmit ==
    /\ poller.at = "submit"
    /\ \E at \in Outcomes : RetryTo(at) /\ Submits(poller.unit, at)
    /\ UNCHANGED <<analysis, irpJobs, task, worker, deleter, rmLive>>

\* Mutant: an accepted retry stays a failed submit.
RetryKeepsStatus ==
    /\ poller.at = "record"
    /\ irpJobs' = [irpJobs EXCEPT ![poller.unit][poller.job].status = "SUBMISSION_FAILED",
                                  ![poller.unit][poller.job].attempts = @ + 1]
    /\ poller' = BatchDone(poller.todo)
    /\ UNCHANGED <<analysis, task, worker, deleter, rmLive, runs, spent>>

RetryAccepted ==
    /\ poller.at = "record"
    /\ irpJobs' = [irpJobs EXCEPT ![poller.unit][poller.job].status = "QUEUED",
                                  ![poller.unit][poller.job].attempts = @ + 1]
    /\ poller' = BatchDone(poller.todo)
    /\ UNCHANGED <<analysis, task, worker, deleter, rmLive, runs, spent>>

\* At the ceiling, or on a rejection, the analysis ends with its last submit.
RetryFailed ==
    LET u == poller.unit  i == poller.job  no == poller.at = "record_rejection" IN
    /\ poller.at \in {"record_failure", "record_rejection"}
    /\ irpJobs' = [irpJobs EXCEPT ![u][i].status = "SUBMISSION_FAILED",
                                  ![u][i].attempts = @ + 1]
    /\ IF no \/ irpJobs[u][i].attempts + 1 >= MaxRetries
         THEN analysis' = [analysis EXCEPT ![u].status = "error"]
         ELSE UNCHANGED analysis
    /\ poller' = BatchDone(poller.todo)
    /\ UNCHANGED <<task, worker, deleter, rmLive, runs, spent>>

\* The poller is lost, or cannot write the outcome: the claim is left behind.
RetryAbandoned ==
    /\ poller.at # "idle"
    /\ spent.crashes < MaxCrashes /\ Spend("crashes")
    /\ poller' = Resting
    /\ UNCHANGED <<analysis, irpJobs, task, worker, deleter, rmLive, runs>>

\* _reclaim_stale_retrying runs between two batches of the only poller, so it
\* never meets a claim in use.
ReclaimRetrying(u, i) ==
    /\ poller.at = "idle" /\ i \in DOMAIN irpJobs[u]
    /\ irpJobs[u][i].status = "SUBMISSION_RETRYING"
    /\ irpJobs' = [irpJobs EXCEPT ![u][i].status = "SUBMISSION_FAILED",
                                  ![u][i].attempts = @ + 1]
    /\ UNCHANGED <<analysis, task, worker, poller, deleter, rmLive, runs, spent>>

-----------------------------------------------------------------------------
(* _delete_analyses, for one selected analysis *)

\* The grid is read once; the rest of the request works on that copy.
DeleteRead(d, u) ==
    /\ deleter[d] = Unasked /\ Deletable(u)
    /\ deleter' = [deleter EXCEPT ![d] =
          [at    |-> IF analysis[u].irpId = 0 THEN "local" ELSE "remote",
           unit  |-> u,
           irpId |-> analysis[u].irpId,
           lock  |-> IF JobIs(u, "SUBMISSION_FAILED") THEN Len(irpJobs[u]) ELSE 0]]
    /\ UNCHANGED <<analysis, irpJobs, task, worker, poller, rmLive, runs, spent>>

\* Risk Modeler first.  The row stays when this fails.
DeleteRemote(d) ==
    LET a == <<deleter[d].unit, deleter[d].irpId>> IN
    /\ deleter[d].at = "remote"
    /\ \/ rmLive' = rmLive \ {a} /\ deleter' = [deleter EXCEPT ![d].at = "local"]
       \/ deleter' = [deleter EXCEPT ![d] = Unasked] /\ UNCHANGED rmLive
    /\ UNCHANGED <<analysis, irpJobs, task, worker, poller, runs, spent>>

\* Mutant: the failed submit is not locked against the retry.
DeleteUnlocked(d) ==
    /\ deleter[d].at = "local"
    /\ deleter' = [deleter EXCEPT ![d] = Unasked]
    /\ analysis' = [analysis EXCEPT ![deleter[d].unit].deleted = TRUE]
    /\ UNCHANGED <<irpJobs, task, worker, poller, rmLive, runs, spent>>

\* The row is kept when a retry took the failed submit, or another request
\* deleted the analysis, since the grid was read.
DeleteLocal(d) ==
    LET u == deleter[d].unit  i == deleter[d].lock IN
    /\ deleter[d].at = "local"
    /\ deleter' = [deleter EXCEPT ![d] = Unasked]
    /\ IF i = 0 \/ Claimable(u, i)
         THEN analysis' = [analysis EXCEPT ![u].deleted = TRUE]
         ELSE UNCHANGED analysis
    /\ UNCHANGED <<irpJobs, task, worker, poller, rmLive, runs, spent>>

DeleteAbandoned(d) ==
    /\ deleter[d] # Unasked
    /\ spent.crashes < MaxCrashes /\ Spend("crashes")
    /\ deleter' = [deleter EXCEPT ![d] = Unasked]
    /\ UNCHANGED <<analysis, irpJobs, task, worker, poller, rmLive, runs>>

-----------------------------------------------------------------------------
BatchStep(w)  == \/ CountJobs(w) \/ SelectAnalysis(w) \/ InsertAnalysis(w)
                 \/ SubmitUnit(w) \/ RecordSubmit(w) \/ MarkError(w)
ResultStep(w) == \/ ResolveAnalysis(w) \/ FetchMetadata(w) \/ StoreMetadata(w)
                 \/ ChainRetrieval(w)
                 \/ ReadAnalysis(w) \/ FetchResults(w) \/ StoreResults(w)
ThreadStep(w) == \/ \E t \in Tasks : Claim(w, t)
                 \/ BatchStep(w) \/ ResultStep(w) \/ Complete(w)
RetryStep     == RetrySelect \/ RetryClaim \/ RetrySubmit \/ RetryAccepted \/ RetryFailed
TrackStep(u, i)  == TrackRunning(u, i) \/ TrackFinished(u, i) \/ TrackFailed(u, i)
DeleteStep(d) == (\E u \in Units : DeleteRead(d, u)) \/ DeleteRemote(d) \/ DeleteLocal(d)

Next ==
    \/ \E w \in Workers : ThreadStep(w) \/ Crash(w) \/ Raises(w)
    \/ \E t \in Tasks : Reclaim(t) \/ Resubmit(t)
    \/ \E u \in Units : RetryRetrieval(u)
    \/ \E u \in Units, i \in JobIndex : TrackStep(u, i) \/ ReclaimRetrying(u, i)
    \/ RetryStep \/ RetryAbandoned
    \/ \E d \in Deleters : DeleteStep(d) \/ DeleteAbandoned(d)

Spec == Init /\ [][Next]_vars

\* A live thread and the poller make their next step; Risk Modeler's runs end;
\* a job no live thread holds, and an abandoned retry, go stale.  No fairness
\* for what an analyst asks, for crashes and raises, or for a stall.
Fairness ==
    /\ \A w \in Workers : WF_vars(ThreadStep(w))
    /\ \A t \in Tasks : WF_vars(Reclaim(t) /\ \A w \in Workers : worker[w].task # t)
    /\ \A u \in Units, i \in JobIndex :
          /\ WF_vars(TrackFinished(u, i) \/ TrackFailed(u, i))
          /\ WF_vars(ReclaimRetrying(u, i))
    /\ WF_vars(RetryStep)

FairSpec == Spec /\ Fairness

-----------------------------------------------------------------------------
(* Safety *)

Retry    == [at : RetryAt, todo : SUBSET (Units \X JobIndex), unit : Nat, job : Nat]
Deletion == [at : DeleteAt, unit : Nat, irpId : Nat, lock : Nat]
Budget   == [requests : Nat, crashes : Nat, stalls : Nat, lost : Nat]

(* Every variable keeps its type, and every irp_job of an analysis has an    *)
(* index in JobIndex: the rows written by _submit_one stay within it.        *)
(* irp_id names one of them.                                                 *)
TypeOK ==
    /\ analysis \in [Units -> Analysis]
    /\ \A u \in Units : analysis[u].irpId \in DOMAIN irpJobs[u] \cup {0}
    /\ irpJobs \in [Units -> Seq(IrpJob)]
    /\ \A u \in Units : DOMAIN irpJobs[u] \subseteq JobIndex
    /\ task \in [Tasks -> TaskStatus]
    /\ worker \in [Workers -> Thread]
    /\ poller \in Retry
    /\ deleter \in [Deleters -> Deletion]
    /\ rmLive \subseteq Units \X JobIndex
    /\ runs \in [Units -> Nat]
    /\ spent \in Budget

(* Risk Modeler runs a unit once, and once more at most for every process    *)
(* lost, every answer lost and every stall, however the batch, its resume    *)
(* and the poller's retries follow each other.                               *)
RmRunsAccounted ==
    \A u \in Units : runs[u] <= 1 + spent.stalls + spent.crashes + spent.lost

(* The poller never resubmits a deleted analysis: of the delete's lock on    *)
(* the failed irp_job and the claim of the retry, one excludes the other.    *)
(* (Two irp_jobs of one analysis, after a stall, are not covered by either.) *)
DeletedNeverResubmitted ==
    poller.at \notin {"idle", "batch"} /\ Len(irpJobs[poller.unit]) = 1
        => ~ analysis[poller.unit].deleted

(* A deleted analysis leaves nothing in Risk Modeler: if its one run was     *)
(* recorded and the completion body named its analysis, deletion waited for  *)
(* the pointer and used it.                                                  *)
DeletionLeavesNoOrphan ==
    \A u \in Units :
        /\ analysis[u].deleted /\ Len(irpJobs[u]) = 1
        /\ irpJobs[u][1].named
        => <<u, 1>> \notin rmLive

-----------------------------------------------------------------------------
(* Liveness *)

\* The retry at the ceiling marks the analysis, a reclaim of a lost one does not.
OutOfAttempts(u) ==
    /\ JobIs(u, "SUBMISSION_FAILED") /\ Latest(u).attempts >= MaxRetries
    /\ spent.crashes > 0 \/ MaxRetries = 1

(* An analysis does not stay pending for ever: it becomes ready, error or    *)
(* deleted, or a job raised (or was at its time limit) and left it behind:   *)
(* its batch before it was submitted, or a finalize, jobs that only the      *)
(* queue page runs again.  Or the poller lost the last retry of its submit.  *)
(* A ready one gets its loss results, or a failed job says it has none: the  *)
(* retrieval, or a finalize that raised or was taken from a stalled thread.  *)
EveryAnalysisSettles ==
    \A u \in Units :
        /\ analysis[u].status = "pending" ~>
             \/ analysis[u].status # "pending" \/ analysis[u].deleted
             \/ OutOfAttempts(u)
             \/ irpJobs[u] = <<>> /\ task[Batch] = "raised"
             \/ \E i \in JobIndex : task[Finalize(u, i)] = "raised"
        /\ analysis[u].status = "ready" ~>
             \/ analysis[u].results
             \/ task[Retrieve(u)] \in {"failed", "raised"}
             \/ \E i \in JobIndex : task[Finalize(u, i)] \in {"failed", "raised"}

=============================================================================
