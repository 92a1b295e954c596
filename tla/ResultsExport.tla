---------------------------- MODULE ResultsExport ----------------------------
(***************************************************************************)
(* The export of one analysis's loss results into the loss repository: the *)
(* three workers of app/workers/export_jobs.py, the Retry and Close of the *)
(* exports table (app/services/export_service.py) and the load procedure   *)
(* (db/bootstrap/loss_schema.sql).  An analysis has one manifest row, or   *)
(* one per treaty the analyst ticked.  The analyses of an export share     *)
(* only its submit job, and one of them is modelled.                       *)
(*                                                                         *)
(* A step is one SQL statement, one transaction or one Risk Modeler call.  *)
(* The work queue is reduced as in AnalysisExecution.                      *)
(***************************************************************************)
EXTENDS Naturals, Sequences, FiniteSets

CONSTANTS NumRows,     \* manifest rows of the analysis
          Workers,     \* worker threads
          Analysts,    \* Retry and Close requests being served
          Nobody,      \* not a thread, and the task of a thread that runs nothing
          MaxExports,  \* bound: exports Risk Modeler accepts
          MaxRequests, \* bound: Retry, Close, and Retry of the queue page
          MaxCrashes,  \* bound: processes lost between two steps, bodies that raise,
                       \* and stamps that could not be written
          MaxStalls    \* bound: jobs taken back from a thread that is alive

ASSUME ResultsExportAssumption ==
    /\ {NumRows, MaxExports} \subseteq Nat \ {0}
    /\ {MaxRequests, MaxCrashes, MaxStalls} \subseteq Nat
    /\ IsFiniteSet(Workers) /\ Nobody \notin Workers \cup ({"submit", "stage", "load"} \X Nat)

VARIABLES held,    \* the rows Risk Modeler's loss table has losses for; never changes
          row,     \* the manifest rows
          elt,     \* each row's staged losses: its file record, and its data
          loads,   \* history: see History
          exports, \* the status of the export irp_jobs, oldest first
          task,    \* the status of every rwb_job
          worker,  \* each thread's place in the body it runs
          request, \* each request's place in apply_retry or apply_close
          form,    \* where create_export is
          spent    \* how much of each bound has been used

vars == <<held, row, elt, loads, exports, task, worker, request, form, spent>>

Rows    == 1..NumRows
Exports == 1..MaxExports

\* A stage job is keyed by its irp_job, a load job by its stage job.
Submit   == <<"submit", 0>>
Stage(i) == <<"stage", i>>
Load(i)  == <<"load", i>>
Tasks    == {Submit} \cup {Stage(i) : i \in Exports} \cup {Load(i) : i \in Exports}

\* "raised" is failed as run_job writes it, the body having raised where nothing
\* catches it, or reached its time limit.
Outcome    == {"succeeded", "failed", "raised"}
TaskStatus == {"absent", "pending", "running"} \cup Outcome

\* job 0: irp_export_job_id IS NULL.  "loading" is never committed.
Manifest == [stage : {"pending", "failed", "staged"}, load : {"pending", "loaded", "failed"},
             job : Exports \cup {0}, zip : BOOLEAN, closed : BOOLEAN]

\* file: the thread whose result_file record the row has.  The files of a row
\* are one; upload_parquet commits its data at once.
Losses   == [file : Workers \cup {Nobody}, full : BOOLEAN]
NoLosses == [file |-> Nobody, full |-> FALSE]

\* took: for every load of a row, whether it took all its data.  forgotten: the
\* loaded rows that were stamped failed for a load that could not be queued.
\* late: a load job was asked for while it ran, and may have read its rows before.
History == [took : [Rows -> Seq(BOOLEAN)], forgotten : SUBSET Rows, late : BOOLEAN]

WorkerAt == {"idle", "select", "find", "ask", "record", "stamp", "reject",
             "stage", "discard", "check", "facts", "open", "upload", "staged", "missing",
             "unstage", "fail", "reread", "enqueue", "no_load",
             "list", "load", "catch", "refused"} \cup Outcome

\* What an exception finds inside the try of the stage job (see StageFails).
InTry == {"discard", "check", "facts", "open", "upload", "staged", "missing"}

\* rows: what the body read; todo: the rows its loop has still to visit;
\* bad: the rows that failed by themselves; job: the export it is about.
Thread == [at : WorkerAt, task : Tasks \cup {Nobody}, rows : SUBSET Rows,
           todo : SUBSET Rows, bad : SUBSET Rows, job : Exports \cup {0}]
Idle   == [at |-> "idle", task |-> Nobody, rows |-> {}, todo |-> {}, bad |-> {}, job |-> 0]

RequestAt == {"idle", "close", "reset", "ensure"}
Branch    == {"none", "load", "stage", "submit"}
Unasked   == [at |-> "idle", row |-> 0, branch |-> "none", job |-> 0]

-----------------------------------------------------------------------------
(* Reading the state *)

First(S) == CHOOSE m \in S : \A n \in S : m <= n

\* derive_status.
Failed(m)     == /\ ~ row[m].closed /\ row[m].load # "loaded"
                 /\ row[m].stage = "failed" \/ row[m].load = "failed"
InProgress(m) == ~ row[m].closed /\ row[m].load # "loaded" /\ ~ Failed(m)

StageEligible == {m \in Rows : /\ row[m].stage # "staged" /\ row[m].load # "loaded"
                               /\ ~ row[m].closed}
Claimable(m)  == row[m].stage = "staged" /\ row[m].load \in {"pending", "failed"}
LoadEligible  == {m \in Rows : Claimable(m) /\ ~ row[m].closed}
AllLoaded     == \A m \in Rows : row[m].load = "loaded"

Spend(what) == spent' = [spent EXCEPT ![what] = @ + 1]

\* ensure_pending_rwb_job: a job that is pending or running is left alone.
Rearm(t) == task' = [task EXCEPT ![t] = IF @ \in {"pending", "running"} THEN @ ELSE "pending"]

-----------------------------------------------------------------------------
(* create_export: the rows are committed, then the submit job is queued *)

Init ==
    /\ held \in SUBSET Rows
    /\ row     = [m \in Rows |-> [stage |-> "pending", load |-> "pending", job |-> 0,
                                  zip |-> FALSE, closed |-> FALSE]]
    /\ elt     = [m \in Rows |-> NoLosses]
    /\ loads   = [took |-> [m \in Rows |-> <<>>], forgotten |-> {}, late |-> FALSE]
    /\ exports = <<>>
    /\ task    = [t \in Tasks |-> "absent"]
    /\ worker  = [w \in Workers |-> Idle]
    /\ request = [a \in Analysts |-> Unasked]
    /\ form    = "enqueue"
    /\ spent   = [requests |-> 0, crashes |-> 0, stalls |-> 0]

EnqueueSubmit ==
    /\ form = "enqueue" /\ form' = "done"
    /\ task' = [task EXCEPT ![Submit] = "pending"]
    /\ UNCHANGED <<held, row, elt, loads, exports, worker, request, spent>>

\* The manifest stands, so its rows are failed for Retry to apply.
EnqueueFails ==
    /\ form = "enqueue" /\ form' = "done"
    /\ row' = [m \in Rows |-> [row[m] EXCEPT !.stage = "failed"]]
    /\ UNCHANGED <<held, elt, loads, exports, task, worker, request, spent>>

FormDies ==
    /\ form = "enqueue" /\ form' = "died"
    /\ spent.crashes < MaxCrashes /\ Spend("crashes")
    /\ UNCHANGED <<held, row, elt, loads, exports, task, worker, request>>

-----------------------------------------------------------------------------
(* The work queue *)

FirstStep(t) == CASE t[1] = "submit" -> "select"
                  [] t[1] = "stage"  -> "stage"
                  [] t[1] = "load"   -> "list"

Claim(w, t) ==
    /\ worker[w] = Idle /\ task[t] = "pending"
    /\ task' = [task EXCEPT ![t] = "running"]
    /\ worker' = [worker EXCEPT ![w] = [Idle EXCEPT !.at = FirstStep(t), !.task = t,
                                                    !.job = t[2]]]
    /\ UNCHANGED <<held, row, elt, loads, exports, request, form, spent>>

Complete(w) ==
    /\ worker[w].at \in Outcome
    /\ task' = [task EXCEPT ![worker[w].task] = IF @ = "running" THEN worker[w].at ELSE @]
    /\ worker' = [worker EXCEPT ![w] = Idle]
    /\ UNCHANGED <<held, row, elt, loads, exports, request, form, spent>>

\* The reconciler.  The job of a live thread goes back only after a stall.
Reclaim(t) ==
    /\ task[t] = "running"
    /\ task' = [task EXCEPT ![t] = "pending"]
    /\ IF \E w \in Workers : worker[w].task = t
         THEN spent.stalls < MaxStalls /\ Spend("stalls")
         ELSE UNCHANGED spent
    /\ UNCHANGED <<held, row, elt, loads, exports, worker, request, form>>

\* resubmit_rwb_job: Retry on any failed job of the queue page.
Resubmit(t) ==
    /\ task[t] \in {"failed", "raised"}
    /\ spent.requests < MaxRequests /\ Spend("requests")
    /\ task' = [task EXCEPT ![t] = "pending"]
    /\ UNCHANGED <<held, row, elt, loads, exports, worker, request, form>>

\* A thread is lost; an open transaction of the procedure is rolled back.
Crash(w) ==
    /\ worker[w] # Idle
    /\ spent.crashes < MaxCrashes /\ Spend("crashes")
    /\ worker' = [worker EXCEPT ![w] = Idle]
    /\ UNCHANGED <<held, row, elt, loads, exports, task, request, form>>

Go(w, at) == worker' = [worker EXCEPT ![w].at = at]

\* A body that raises, or is at its time limit: run_job completes the job as
\* failed, and the rows stay as they are.  CATCH runs in the server.
Raises(w) ==
    /\ worker[w].at \notin InTry \cup {"idle", "catch", "raised"}
    /\ spent.crashes < MaxCrashes /\ Spend("crashes")
    /\ Go(w, "raised")
    /\ UNCHANGED <<held, row, elt, loads, exports, task, request, form>>

-----------------------------------------------------------------------------
(* submit_results_export *)

\* Over to a loop on S, or past it when there is nothing to visit.
Visit(w, S, at, past) ==
    worker' = [worker EXCEPT ![w].todo = S, ![w].at = IF S = {} THEN past ELSE at]

\* One row of the loop is done.
Visited(w, past) ==
    LET rest == worker[w].todo \ {First(worker[w].todo)} IN
    worker' = [worker EXCEPT ![w].todo = rest, ![w].at = IF rest = {} THEN past ELSE @]

SelectRows(w) ==
    LET S == {m \in Rows : row[m].stage = "pending" /\ row[m].job = 0} IN
    /\ worker[w].at = "select"
    /\ Visit(w, S, "find", "succeeded")
    /\ UNCHANGED <<held, row, elt, loads, exports, task, request, form, spent>>

Running == {i \in DOMAIN exports : exports[i] = "RUNNING"}

\* find_export_job: an export recorded by a run that died, still running.
FindExport(w) ==
    /\ worker[w].at = "find"
    /\ IF Running = {}
         THEN Go(w, "ask")
         ELSE \E i \in Running : worker' = [worker EXCEPT ![w].at = "stamp", ![w].job = i]
    /\ UNCHANGED <<held, row, elt, loads, exports, task, request, form, spent>>

Accepted == Len(exports) + Cardinality({w \in Workers : worker[w].at = "record"})

\* Mutant: the rows are stamped with an export that is not recorded yet.
AskThenStamp(w) ==
    /\ worker[w].at = "ask"
    /\ \/ /\ Accepted < MaxExports
          /\ worker' = [worker EXCEPT ![w].at = "stamp", ![w].job = Len(exports) + 1]
       \/ Go(w, "reject")
       \/ Go(w, "failed")
    /\ UNCHANGED <<held, row, elt, loads, exports, task, request, form, spent>>

\* submit_analysis_export_job: accepted, refused, or out of reach.
AskExport(w) ==
    /\ worker[w].at = "ask"
    /\ \/ Accepted < MaxExports /\ Go(w, "record")
       \/ Go(w, "reject")
       \/ Go(w, "failed")
    /\ UNCHANGED <<held, row, elt, loads, exports, task, request, form, spent>>

RecordExport(w) ==
    /\ worker[w].at = "record"
    /\ exports' = Append(exports, "RUNNING")
    /\ worker' = [worker EXCEPT ![w].at = "stamp", ![w].job = Len(exports) + 1]
    /\ UNCHANGED <<held, row, elt, loads, task, request, form, spent>>

StampRow(w) ==
    LET m == First(worker[w].todo) IN
    /\ \/ worker[w].at = "stamp"  /\ row' = [row EXCEPT ![m].job = worker[w].job]
       \/ worker[w].at = "reject" /\ row' = [row EXCEPT ![m].stage = "failed"]
    /\ Visited(w, "succeeded")
    /\ UNCHANGED <<held, elt, loads, exports, task, request, form, spent>>

-----------------------------------------------------------------------------
(* The poller: a terminal export gets its stage job in the same transaction *)

TrackExport(i, status) ==
    /\ i \in Running /\ status \in {"FINISHED", "FAILED"}
    /\ exports' = [exports EXCEPT ![i] = status]
    /\ task' = [task EXCEPT ![Stage(i)] = IF @ = "absent" THEN "pending" ELSE @]
    /\ UNCHANGED <<held, row, elt, loads, worker, request, form, spent>>

-----------------------------------------------------------------------------
(* stage_results_export, for the irp_job worker[w].job *)

\* Mutant: what is staged already is staged again.
ReadEverything(w) ==
    /\ worker[w].at = "stage"
    /\ IF AllLoaded
         THEN Go(w, "succeeded")
         ELSE worker' = [worker EXCEPT ![w].rows = Rows, ![w].todo = Rows, ![w].at = "discard"]
    /\ UNCHANGED <<held, row, elt, loads, exports, task, request, form, spent>>

\* The targets are read once.
ReadTargets(w) ==
    /\ worker[w].at = "stage"
    /\ IF AllLoaded
         THEN Go(w, "succeeded")
         ELSE worker' = [worker EXCEPT
                 ![w].rows = StageEligible, ![w].todo = StageEligible,
                 ![w].at   = IF StageEligible = {} THEN "reread" ELSE "discard"]
    /\ UNCHANGED <<held, row, elt, loads, exports, task, request, form, spent>>

\* _discard_partial_stage: a file record is not deleted under the data of an
\* upload, so the two DELETEs are one step.
Discard(w) ==
    /\ worker[w].at = "discard"
    /\ elt' = [elt EXCEPT ![First(worker[w].todo)] = NoLosses]
    /\ Visited(w, "check")
    /\ UNCHANGED <<held, row, loads, exports, task, request, form, spent>>

\* The export must have finished.  The archive is the one a row names, if it
\* is on the share, or a new download.
FetchArchive(w) ==
    LET anchor == First(worker[w].rows) IN
    /\ worker[w].at = "check"
    /\ exports[worker[w].job] = "FINISHED"
    /\ \/ row' = [row EXCEPT ![anchor].zip = TRUE]
       \/ (\E m \in worker[w].rows : row[m].zip) /\ UNCHANGED row
    /\ worker' = [worker EXCEPT ![w].at = "facts", ![w].todo = worker[w].rows]
    /\ UNCHANGED <<held, elt, loads, exports, task, request, form, spent>>

\* A bad archive is forgotten, for Retry to download it again.
ForgetArchive(w) ==
    /\ worker[w].at = "facts" /\ worker[w].todo = worker[w].rows
    /\ row' = [m \in Rows |-> [row[m] EXCEPT !.zip = @ /\ m \notin worker[w].rows]]
    /\ Go(w, "unstage")
    /\ UNCHANGED <<held, elt, loads, exports, task, request, form, spent>>

StampFacts(w) ==
    LET m == First(worker[w].todo)  rest == worker[w].todo \ {m} IN
    /\ worker[w].at = "facts"
    /\ row' = [row EXCEPT ![m].zip = TRUE, ![m].job = worker[w].job]
    /\ worker' = [worker EXCEPT ![w].todo = IF rest = {} THEN worker[w].rows ELSE rest,
                                ![w].at   = IF rest = {} THEN "open" ELSE @]
    /\ UNCHANGED <<held, elt, loads, exports, task, request, form, spent>>

\* After the last row of the table: when no row was in it the analysis fails.
NextTarget(w, bad) ==
    LET t == worker[w]  rest == t.todo \ {First(t.todo)} IN
    worker' = [worker EXCEPT
        ![w].bad  = bad,
        ![w].todo = IF rest = {} THEN bad ELSE rest,
        ![w].at   = IF rest # {}        THEN "open"
                    ELSE IF bad = {}     THEN "reread"
                    ELSE IF bad = t.rows THEN "unstage" ELSE "missing"]

\* uq_rwb_loss_result_file_manifest_file: a second record of the file raises.
OpenFile(w) ==
    LET m == First(worker[w].todo) IN
    /\ worker[w].at = "open"
    /\ \/ /\ m \in held /\ elt[m].file = Nobody
          /\ elt' = [elt EXCEPT ![m].file = w] /\ Go(w, "upload")
       \/ m \in held /\ elt[m].file # Nobody /\ Go(w, "unstage") /\ UNCHANGED elt
       \/ m \notin held /\ NextTarget(w, worker[w].bad \cup {m}) /\ UNCHANGED elt
    /\ UNCHANGED <<held, row, loads, exports, task, request, form, spent>>

\* The foreign key to the file record raises when the record is gone.
UploadFile(w) ==
    LET m == First(worker[w].todo) IN
    /\ worker[w].at = "upload"
    /\ IF elt[m].file = w
         THEN elt' = [elt EXCEPT ![m].full = TRUE] /\ Go(w, "staged")
         ELSE Go(w, "unstage") /\ UNCHANGED elt
    /\ UNCHANGED <<held, row, loads, exports, task, request, form, spent>>

MarkStaged(w) ==
    /\ worker[w].at = "staged"
    /\ row' = [row EXCEPT ![First(worker[w].todo)].stage = "staged"]
    /\ NextTarget(w, worker[w].bad)
    /\ UNCHANGED <<held, elt, loads, exports, task, request, form, spent>>

\* The treaties the table does not hold.
FailMissing(w) ==
    /\ worker[w].at = "missing"
    /\ row' = [row EXCEPT ![First(worker[w].todo)].stage = "failed"]
    /\ Visited(w, "reread")
    /\ UNCHANGED <<held, elt, loads, exports, task, request, form, spent>>

\* The export is not finished, or anything in _stage or before it raises.
StageFails(w) ==
    /\ worker[w].at \in InTry
    /\ Go(w, "unstage")
    /\ UNCHANGED <<held, row, elt, loads, exports, task, request, form, spent>>

\* Mutant: a stage that fails leaves its rows as they are.
FailNothing(w) ==
    /\ worker[w].at = "unstage" /\ Go(w, "failed")
    /\ UNCHANGED <<held, row, elt, loads, exports, task, request, form, spent>>

\* _fail_unstaged reads the rows again, then stamps them one by one.
ReadUnstaged(w) ==
    /\ worker[w].at = "unstage"
    /\ Visit(w, StageEligible, "fail", "failed")
    /\ UNCHANGED <<held, row, elt, loads, exports, task, request, form, spent>>

FailUnstaged(w) ==
    /\ worker[w].at = "fail"
    /\ row' = [row EXCEPT ![First(worker[w].todo)].stage = "failed"]
    /\ Visited(w, "failed")
    /\ UNCHANGED <<held, elt, loads, exports, task, request, form, spent>>

StageOutcome(w) == IF worker[w].bad = {} THEN "succeeded" ELSE "failed"

ReadLoadable(w) ==
    /\ worker[w].at = "reread"
    /\ Visit(w, LoadEligible, "enqueue", StageOutcome(w))
    /\ UNCHANGED <<held, row, elt, loads, exports, task, request, form, spent>>

EnqueueLoad(w) ==
    /\ worker[w].at = "enqueue"
    /\ \/ /\ Rearm(Load(worker[w].job)) /\ Go(w, StageOutcome(w))
          /\ loads' = [loads EXCEPT !.late = @ \/ task[Load(worker[w].job)] = "running"]
       \/ Go(w, "no_load") /\ UNCHANGED <<task, loads>>
    /\ UNCHANGED <<held, row, elt, exports, request, form, spent>>

\* The load could not be queued: the rows stay staged for Retry.  The stamp does
\* not look at what a load job queued by an earlier run has done since.
FailUnqueued(w) ==
    LET m == First(worker[w].todo) IN
    /\ worker[w].at = "no_load"
    /\ row' = [row EXCEPT ![m].load = "failed"]
    /\ loads' = [loads EXCEPT !.forgotten = IF row[m].load = "loaded" THEN @ \cup {m} ELSE @]
    /\ Visited(w, "failed")
    /\ UNCHANGED <<held, elt, exports, task, request, form, spent>>

-----------------------------------------------------------------------------
(* load_results_export, and usp_load_elt_result *)

ListLoadable(w) ==
    /\ worker[w].at = "list"
    /\ IF AllLoaded THEN Go(w, "succeeded") ELSE Visit(w, LoadEligible, "load", "failed")
    /\ UNCHANGED <<held, row, elt, loads, exports, task, request, form, spent>>

LoadOutcome(w) == IF worker[w].bad = {} THEN "succeeded" ELSE "failed"

\* The claim, the inserts and the final stamp are one transaction.
LoadRow(w) ==
    LET m == First(worker[w].todo) IN
    /\ worker[w].at = "load" /\ Claimable(m)
    /\ row' = [row EXCEPT ![m].load = "loaded"]
    /\ loads' = [loads EXCEPT !.took[m] = Append(@, elt[m].full)]
    /\ Visited(w, LoadOutcome(w))
    /\ UNCHANGED <<held, elt, exports, task, request, form, spent>>

\* The claimed row's load is rolled back, and CATCH follows; or there was no
\* claim, or no load lock.
LoadRowFails(w) ==
    /\ worker[w].at = "load"
    /\ \/ Go(w, "refused")
       \/ Claimable(First(worker[w].todo)) /\ Go(w, "catch")
    /\ UNCHANGED <<held, row, elt, loads, exports, task, request, form, spent>>

\* CATCH looks only at whether this call had the claim.
CatchLoad(w) ==
    /\ worker[w].at = "catch"
    /\ row' = [row EXCEPT ![First(worker[w].todo)].load = "failed"]
    /\ Go(w, "refused")
    /\ UNCHANGED <<held, elt, loads, exports, task, request, form, spent>>

\* _load_one stamps the failure, over anything but a load.
StampRefused(w) ==
    LET m == First(worker[w].todo)  rest == worker[w].todo \ {m} IN
    /\ worker[w].at = "refused"
    /\ row' = [row EXCEPT ![m].load = IF @ = "loaded" THEN @ ELSE "failed"]
    /\ worker' = [worker EXCEPT ![w].bad = @ \cup {m}, ![w].todo = rest,
                                ![w].at = IF rest = {} THEN "failed" ELSE "load"]
    /\ UNCHANGED <<held, elt, loads, exports, task, request, form, spent>>

\* The stamp of a failed load raises too, and that is only logged.
StampLost(w) ==
    LET m == First(worker[w].todo)  rest == worker[w].todo \ {m} IN
    /\ worker[w].at = "refused"
    /\ spent.crashes < MaxCrashes /\ Spend("crashes")
    /\ worker' = [worker EXCEPT ![w].bad = @ \cup {m}, ![w].todo = rest,
                                ![w].at = IF rest = {} THEN "failed" ELSE "load"]
    /\ UNCHANGED <<held, row, elt, loads, exports, task, request, form>>

-----------------------------------------------------------------------------
(* Retry and Close: the row is read once, and changed by its key alone *)

\* retry_decision.  Nobody knows whether the archive a row names is still on
\* the share, or whether a finished export is older than seven days.
Decisions(m) ==
    IF row[m].stage = "staged" THEN {"load"}
    ELSE IF row[m].job = 0     THEN {"submit"}
    ELSE IF row[m].zip \/ exports[row[m].job] = "FINISHED" THEN {"stage", "submit"}
    ELSE {"submit"}

AskClose(a, m) ==
    /\ request[a] = Unasked /\ Failed(m)
    /\ spent.requests < MaxRequests /\ Spend("requests")
    /\ request' = [request EXCEPT ![a] = [Unasked EXCEPT !.at = "close", !.row = m]]
    /\ UNCHANGED <<held, row, elt, loads, exports, task, worker, form>>

\* A load is not retried without a stage job to key it by.
AskRetry(a, m) ==
    /\ request[a] = Unasked /\ Failed(m)
    /\ spent.requests < MaxRequests /\ Spend("requests")
    /\ \E b \in Decisions(m) :
          /\ b = "load" => row[m].job # 0 /\ task[Stage(row[m].job)] # "absent"
          /\ request' = [request EXCEPT ![a] = [at |-> "reset", row |-> m, branch |-> b,
                                                job |-> row[m].job]]
    /\ UNCHANGED <<held, row, elt, loads, exports, task, worker, form>>

CloseRow(a) ==
    /\ request[a].at = "close"
    /\ row' = [row EXCEPT ![request[a].row].closed = TRUE]
    /\ request' = [request EXCEPT ![a] = Unasked]
    /\ UNCHANGED <<held, elt, loads, exports, task, worker, form, spent>>

ResetRow(a) ==
    LET q == request[a] IN
    /\ q.at = "reset"
    /\ row' = [row EXCEPT ![q.row] =
          CASE q.branch = "load"   -> [@ EXCEPT !.load = "pending"]
            [] q.branch = "stage"  -> [@ EXCEPT !.stage = "pending"]
            [] q.branch = "submit" -> [@ EXCEPT !.stage = "pending", !.job = 0]]
    /\ request' = [request EXCEPT ![a].at = "ensure"]
    /\ UNCHANGED <<held, elt, loads, exports, task, worker, form, spent>>

RearmJob(a) ==
    LET q == request[a] IN
    /\ q.at = "ensure"
    /\ Rearm(CASE q.branch = "load"   -> Load(q.job)
               [] q.branch = "stage"  -> Stage(q.job)
               [] q.branch = "submit" -> Submit)
    /\ request' = [request EXCEPT ![a] = Unasked]
    /\ UNCHANGED <<held, row, elt, loads, exports, worker, form, spent>>

RequestDies(a) ==
    /\ request[a] # Unasked
    /\ spent.crashes < MaxCrashes /\ Spend("crashes")
    /\ request' = [request EXCEPT ![a] = Unasked]
    /\ UNCHANGED <<held, row, elt, loads, exports, task, worker, form>>

-----------------------------------------------------------------------------
SubmitStep(w) == \/ SelectRows(w) \/ FindExport(w) \/ AskExport(w) \/ RecordExport(w)
                 \/ StampRow(w)
StageStep(w)  == \/ ReadTargets(w) \/ Discard(w) \/ FetchArchive(w) \/ ForgetArchive(w)
                 \/ StampFacts(w) \/ OpenFile(w) \/ UploadFile(w) \/ MarkStaged(w)
                 \/ FailMissing(w) \/ StageFails(w) \/ ReadUnstaged(w) \/ FailUnstaged(w)
                 \/ ReadLoadable(w) \/ EnqueueLoad(w) \/ FailUnqueued(w)
LoadStep(w)   == \/ ListLoadable(w) \/ LoadRow(w) \/ LoadRowFails(w) \/ CatchLoad(w)
                 \/ StampRefused(w)
Ask(a)        == \E m \in Rows : AskClose(a, m) \/ AskRetry(a, m)
Answer(a)     == CloseRow(a) \/ ResetRow(a) \/ RearmJob(a)

Next ==
    \/ EnqueueSubmit \/ EnqueueFails \/ FormDies
    \/ \E w \in Workers : \/ \E t \in Tasks : Claim(w, t)
                          \/ SubmitStep(w) \/ StageStep(w) \/ LoadStep(w)
                          \/ StampLost(w) \/ Complete(w) \/ Crash(w) \/ Raises(w)
    \/ \E t \in Tasks : Reclaim(t) \/ Resubmit(t)
    \/ \E i \in Exports, st \in {"FINISHED", "FAILED"} : TrackExport(i, st)
    \/ \E a \in Analysts : Ask(a) \/ Answer(a) \/ RequestDies(a)

Spec == Init /\ [][Next]_vars

-----------------------------------------------------------------------------
(* Safety *)

Asked == [at : RequestAt, row : Rows \cup {0}, branch : Branch, job : Exports \cup {0}]

(* Every variable keeps its type, and irp_export_job_id always names an      *)
(* export that is recorded in irp_job.                                       *)
TypeOK ==
    /\ held \subseteq Rows
    /\ row \in [Rows -> Manifest]
    /\ \A m \in Rows : row[m].job \in DOMAIN exports \cup {0}
    /\ elt \in [Rows -> Losses]
    /\ loads \in History
    /\ exports \in Seq({"RUNNING", "FINISHED", "FAILED"}) /\ Len(exports) <= MaxExports
    /\ task \in [Tasks -> TaskStatus]
    /\ worker \in [Workers -> Thread]
    /\ request \in [Analysts -> Asked]
    /\ form \in {"enqueue", "done", "died"}
    /\ spent \in [requests : Nat, crashes : Nat, stalls : Nat]

\* No two threads run jobs of the same kind.
OneAtATime == Len(exports) <= 1 /\ spent.stalls = 0

(* A load copies all the losses of its row.  The stage job discards, uploads *)
(* and stamps in separate steps, and a Retry arms it while a load is under   *)
(* way: nothing is loaded that a later run has discarded or not uploaded     *)
(* yet.  And until an analyst asks for a Retry a row is loaded once at most, *)
(* however often the load job is run (the claim of usp_load_elt_result),     *)
(* unless its load was stamped over.  (Of one export, and jobs that are not  *)
(* taken from live threads: two jobs can stage, or load, a row at once.)     *)
LoadsAreComplete ==
    OneAtATime => \A m \in Rows :
        /\ \A k \in DOMAIN loads.took[m] : loads.took[m][k]
        /\ spent.requests = 0 => Len(loads.took[m]) <= 1 \/ m \in loads.forgotten

\* Nothing is queued or running that could still change a row.
Quiet ==
    /\ form # "enqueue" /\ Running = {}
    /\ \A t \in Tasks : task[t] \notin {"pending", "running"}
    /\ \A w \in Workers : worker[w] = Idle
    /\ \A a \in Analysts : request[a] = Unasked

\* The job of row m ended without a stamp on it.  The manifest offers nothing
\* then, and the job is run again from the queue page only.
JobGaveUp(m) ==
    \/ row[m].job = 0 /\ task[Submit] \in {"failed", "raised"}
    \/ \E i \in Exports : \/ task[Stage(i)] = "raised"
                          \/ row[m].stage = "staged" /\ task[Load(i)] \in {"failed", "raised"}

(* Until an analyst interferes, whatever crashes or fails, an analysis whose *)
(* jobs are over is loaded, offers Retry on one of its rows at least, whose  *)
(* job acts on all of them, or had a job that failed and left no stamp: a    *)
(* submit that could not reach Risk Modeler, a body that raised or was at    *)
(* its time limit, a load whose stamp was lost.  Excepted too is a load      *)
(* asked for while its job ran: it leaves the rows staged since to nobody.   *)
AnalysisOffersRetry ==
    OneAtATime /\ Quiet /\ spent.requests = 0 /\ form = "done" /\ ~ loads.late
        => \A m \in Rows : InProgress(m) => JobGaveUp(m) \/ \E n \in Rows : Failed(n)

=============================================================================
