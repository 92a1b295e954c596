---------------------------- MODULE EntityImport ----------------------------
(***************************************************************************)
(* The import of one EDM or RDM: the request that creates it, the upload   *)
(* workers and the backfills (app/workers/entity_jobs.py), the poller's    *)
(* terminal handlers (app/poller/run.py), and what an analyst may ask for  *)
(* meanwhile: retry, replacement of the source file, sync, resubmission of *)
(* a failed job, adoption of an EDM from Risk Modeler's catalogue.         *)
(*                                                                         *)
(* A step is one SQL statement, one transaction or one Risk Modeler call.  *)
(* What the EDM backfill stores is in PortfolioBreakout.                   *)
(***************************************************************************)
EXTENDS Naturals, Sequences, FiniteSets

CONSTANTS Kinds,      \* {"edm"}, {"rdm"} or both: one is chosen at Init
          Analyses,   \* broker analyses an RDM may hold in Risk Modeler
          Threads,    \* worker threads
          Requests,   \* requests of analysts; each does one thing
          First,      \* the request that creates the entity
          NoHead,     \* a thread that runs nothing
          MaxFaults,  \* bound: threads, requests, polls and answers lost, bodies that raise
          MaxChanges  \* bound: analyses deleted or created in Risk Modeler

ASSUME EntityImportAssumption ==
    /\ Kinds \subseteq {"edm", "rdm"} /\ First \in Requests /\ IsFiniteSet(Requests)
    /\ {MaxFaults, MaxChanges} \subseteq Nat

VARIABLES kind,     \* which of the two this entity is
          entity,   \* the irp_edm / irp_rdm row
          fresh,    \* requests whose form shows the row's present updated_at
          adopted,  \* exposures other live irp_edm rows hold
          irpJobs,  \* import irp_jobs of the entity, oldest first
          heads,    \* status of its rwb_jobs
          newest,   \* the backfill head written last
          captured, \* rows of an RDM's analyses and their retrieval jobs
          thread, poller, request,
          imports,  \* uploads Risk Modeler accepted: exposure i is import i
          rmAnalyses, \* analyses the RDM holds in Risk Modeler now
          log,      \* history: see Log
          spent     \* how much of each bound has been used

tables == <<irpJobs, heads, newest, captured>>
outside == <<imports, rmAnalyses>>
vars == <<kind, entity, fresh, adopted, tables, thread, poller, request,
          outside, log, spent>>

Upload      == <<"upload", 0>>   \* (analyst_request, entity)
Sync        == <<"sync", 0>>     \* (analyst_request, entity), the backfill
Backfill(j) == <<"backfill", j>> \* (irp_job, j)
Heads       == {Upload, Sync} \cup {Backfill(j) : j \in 1..Cardinality(Requests) + MaxFaults}

Status     == {"none", "pending_import", "importing", "ready", "error"}
\* raised is failed as run_job writes it, the body having ended in an exception
\* or at its time limit: no step of the body has marked anything.
HeadStatus == {"absent", "pending", "running", "succeeded", "failed", "raised"}
Entity     == [status : Status, file : Nat, exposure : Nat]
IrpJob     == [import : Nat, status : {"QUEUED", "FINISHED", "FAILED", "SUBMISSION FAILED"}]
Idle       == [at |-> "idle", head |-> NoHead, got |-> 0, seen |-> {}]
NoPoll     == [at |-> "idle", job |-> 0, ok |-> FALSE, exposure |-> 0]

\* asked: how often the row was made pending_import.  doubt: how often the
\* upload was interrupted, or raised, between the accepted call and the writes
\* that remember it.  missed: a request was lost, or changed the row while the
\* upload job was running.
Log == [asked : Nat, doubt : Nat, missed : BOOLEAN]

Asked == log' = [asked |-> log.asked + 1, doubt |-> log.doubt,
                 missed |-> log.missed \/ heads[Upload] = "running"]

Exposures == {i \in DOMAIN imports : imports[i].state = "finished"}
Spend(what) == spent' = [spent EXCEPT ![what] = @ + 1]
Fault(what) == spent.crashes + spent.lost < MaxFaults /\ Spend(what)

\* Any write of the row moves updated_at.
Put(e) == entity' = e /\ fresh' = {}
Keep   == UNCHANGED <<entity, fresh>>

-----------------------------------------------------------------------------
Init ==
    /\ kind \in Kinds
    /\ entity = [status |-> "none", file |-> 1, exposure |-> 0]
    /\ fresh = {} /\ adopted = {} /\ irpJobs = <<>> /\ imports = <<>>
    /\ heads = [h \in Heads |-> "absent"] /\ newest = NoHead
    /\ captured = [a \in Analyses |-> [row |-> "none", retrieval |-> FALSE]]
    /\ thread = [w \in Threads |-> Idle]
    /\ poller = NoPoll
    /\ request = [q \in Requests |-> "idle"]
    /\ rmAnalyses = Analyses
    /\ log = [asked |-> 0, doubt |-> 0, missed |-> FALSE]
    /\ spent = [crashes |-> 0, lost |-> 0, changes |-> 0]

-----------------------------------------------------------------------------
(* The work queue, as RwbQueue shows it *)

SetHead(h, st) ==
    /\ heads' = [heads EXCEPT ![h] = st]
    /\ newest' = IF h = Upload THEN newest ELSE h

FirstStep(h) == IF h = Upload THEN "read"
                ELSE IF kind = "edm" THEN "exposure" ELSE "enumerate"

Claim(w, h) ==
    /\ thread[w] = Idle /\ heads[h] = "pending"
    /\ SetHead(h, "running")
    /\ thread' = [thread EXCEPT ![w] = [Idle EXCEPT !.at = FirstStep(h), !.head = h]]
    /\ Keep /\ UNCHANGED <<kind, adopted, irpJobs, captured, poller, request, outside, log, spent>>

Complete(w) ==
    LET h == thread[w].head IN
    /\ thread[w].at \in {"succeeded", "failed", "raised"}
    /\ IF heads[h] = "running" THEN SetHead(h, thread[w].at) ELSE UNCHANGED <<heads, newest>>
    /\ thread' = [thread EXCEPT ![w] = Idle]
    /\ Keep /\ UNCHANGED <<kind, adopted, irpJobs, captured, poller, request, outside, log, spent>>

\* The at-least-once window of the upload; an RDM closes it with the record.
InDoubt(w) == \/ thread[w].at = "record"
              \/ thread[w].at = "mark" /\ kind = "edm"

\* The job of a lost thread.  (RwbQueue has the jobs taken from live ones.)
Reclaim(h) ==
    /\ heads[h] = "running" /\ \A w \in Threads : thread[w].head # h
    /\ SetHead(h, "pending")
    /\ Keep /\ UNCHANGED <<kind, adopted, irpJobs, captured, thread, poller, request, outside, log, spent>>

Crash(w) ==
    /\ thread[w] # Idle
    /\ Fault("crashes")
    /\ log' = [log EXCEPT !.doubt = IF InDoubt(w) THEN @ + 1 ELSE @]
    /\ thread' = [thread EXCEPT ![w] = Idle]
    /\ Keep /\ UNCHANGED <<kind, adopted, tables, poller, request, outside>>

\* run_job: a body that raises unhandled, or meets the actor's time limit, at
\* any of its steps.  The row stays as it is and nobody runs the job again.
Raises(w) ==
    /\ thread[w].at \notin {"idle", "succeeded", "failed", "raised"}
    /\ Fault("crashes")
    /\ log' = [log EXCEPT !.doubt = IF InDoubt(w) THEN @ + 1 ELSE @]
    /\ thread' = [thread EXCEPT ![w].at = "raised"]
    /\ Keep /\ UNCHANGED <<kind, adopted, tables, poller, request, outside>>

Go(w, at) == thread' = [thread EXCEPT ![w].at = at]
GoWith(w, at, got) == thread' = [thread EXCEPT ![w].at = at, ![w].got = got]

\* What every step of a body leaves alone.
BodyKeeps == UNCHANGED <<kind, adopted, heads, newest, poller, request, rmAnalyses, log>>

-----------------------------------------------------------------------------
(* upload_edm, upload_rdm *)

\* Mutant: the body does not look at the status of the entity.
ReadAnyStatus(w) ==
    /\ thread[w].at = "read"
    /\ GoWith(w, IF kind = "rdm" THEN "look" ELSE "submit", entity.file)
    /\ Keep /\ BodyKeeps /\ UNCHANGED <<irpJobs, captured, imports, spent>>

\* Only a pending_import entity is submitted.
ReadEntity(w) ==
    /\ thread[w].at = "read"
    /\ IF entity.status # "pending_import" THEN Go(w, "succeeded")
       ELSE GoWith(w, IF kind = "rdm" THEN "look" ELSE "submit", entity.file)
    /\ Keep /\ BodyKeeps /\ UNCHANGED <<irpJobs, captured, imports, spent>>

\* _rdm_import_exists: any import that reached Risk Modeler, failed ones too.
LookForImport(w) ==
    /\ thread[w].at = "look"
    /\ Go(w, IF \E j \in DOMAIN irpJobs : irpJobs[j].status # "SUBMISSION FAILED"
               THEN "succeeded" ELSE "submit")
    /\ Keep /\ BodyKeeps /\ UNCHANGED <<irpJobs, captured, imports, spent>>

Imports(file, n) == imports' = imports \o [k \in 1..n |-> [file |-> file, state |-> "running"]]

\* The POST that ends the upload, repeated by the client when its answer is lost:
\* heard with n = 1, and once more unheard.
SubmitImport(w) ==
    /\ thread[w].at = "submit"
    /\ \E n \in 0..2 :
          /\ Imports(thread[w].got, n)
          /\ \/ /\ n > 0
                /\ GoWith(w, "record", Len(imports) + n)
                /\ IF n = 1 THEN UNCHANGED spent ELSE Fault("lost")
             \/ /\ n < 2 /\ Go(w, "record failure")
                /\ IF n = 0 THEN UNCHANGED spent ELSE Fault("lost")
    /\ Keep /\ BodyKeeps /\ UNCHANGED <<irpJobs, captured>>

AddJob(i, st) == irpJobs' = Append(irpJobs, [import |-> i, status |-> st])

RecordImport(w) ==
    /\ \/ thread[w].at = "record" /\ AddJob(thread[w].got, "QUEUED") /\ Go(w, "mark")
       \/ thread[w].at = "record failure" /\ AddJob(0, "SUBMISSION FAILED") /\ Go(w, "mark error")
    /\ Keep /\ BodyKeeps /\ UNCHANGED <<captured, imports, spent>>

\* Mutant: a refused upload leaves the entity as it is.
MarkNothing(w) ==
    /\ thread[w].at \in {"mark", "mark error"}
    /\ Go(w, IF thread[w].at = "mark" THEN "succeeded" ELSE "failed")
    /\ IF thread[w].at = "mark" /\ entity.status = "pending_import"
         THEN Put([entity EXCEPT !.status = "importing"]) ELSE Keep
    /\ BodyKeeps /\ UNCHANGED <<irpJobs, captured, imports, spent>>

\* _mark_importing from pending_import only, _mark_error from importing too.
Mark(w) ==
    /\ \/ /\ thread[w].at = "mark" /\ Go(w, "succeeded")
          /\ IF entity.status = "pending_import"
               THEN Put([entity EXCEPT !.status = "importing"]) ELSE Keep
       \/ /\ thread[w].at = "mark error" /\ Go(w, "failed")
          /\ IF entity.status \in {"pending_import", "importing"}
               THEN Put([entity EXCEPT !.status = "error"]) ELSE Keep
    /\ BodyKeeps /\ UNCHANGED <<irpJobs, captured, imports, spent>>

-----------------------------------------------------------------------------
(* backfill_edm_detail *)

ReadExposure(w) ==
    /\ thread[w].at = "exposure"
    /\ Go(w, IF entity.exposure = 0 THEN "resolve" ELSE "list")
    /\ Keep /\ BodyKeeps /\ UNCHANGED <<irpJobs, captured, imports, spent>>

\* By name, and only when the name is not ambiguous; else a graceful skip.
ResolveExposure(w) ==
    /\ thread[w].at = "resolve"
    /\ \/ \E i \in Exposures : Exposures = {i} /\ GoWith(w, "store exposure", i)
       \/ Go(w, "succeeded")
    /\ Keep /\ BodyKeeps /\ UNCHANGED <<irpJobs, captured, imports, spent>>

\* An exposure another live row holds violates uq_irp_edm_live_irp_id:
\* nobody catches it.
StoreExposure(w) ==
    /\ thread[w].at = "store exposure"
    /\ IF thread[w].got \in adopted THEN Go(w, "raised") /\ Keep
       ELSE Go(w, "list") /\ Put([entity EXCEPT !.exposure = thread[w].got])
    /\ BodyKeeps /\ UNCHANGED <<irpJobs, captured, imports, spent>>

\* The snapshots, then the EDM-level as_of; any failed enumeration fails the job.
StoreSnapshots(w) ==
    /\ thread[w].at = "list"
    /\ \/ Go(w, "succeeded") /\ Put(entity)
       \/ Go(w, "failed") /\ Keep
    /\ BodyKeeps /\ UNCHANGED <<irpJobs, captured, imports, spent>>

-----------------------------------------------------------------------------
(* backfill_rdm_analyses *)

Enumerate(w) ==
    /\ thread[w].at = "enumerate"
    /\ \/ thread' = [thread EXCEPT ![w].at = "store", ![w].seen = rmAnalyses]
       \/ Go(w, "failed")
    /\ Keep /\ BodyKeeps /\ UNCHANGED <<irpJobs, captured, imports, spent>>

\* Mutant: the RDM takes the status of its import as it is.
RollupRaw == IF irpJobs = <<>> THEN entity.status ELSE irpJobs[Len(irpJobs)].status

\* rollup_on_terminal(FINISHED), over the irp_jobs of the RDM.
Rollup ==
    LET are(st) == \E j \in DOMAIN irpJobs : irpJobs[j].status \in st IN
    IF are({"QUEUED"}) THEN entity.status
    ELSE IF are({"FAILED", "SUBMISSION FAILED"}) THEN "error" ELSE "ready"

\* One transaction: prune or resurrect, insert what is absent, rollup, as_of.
StoreAnalyses(w) ==
    /\ thread[w].at = "store" /\ Go(w, "chain")
    /\ captured' = [a \in Analyses |-> [captured[a] EXCEPT
                        !.row = IF a \in thread[w].seen THEN "live"
                                ELSE IF @ = "none" THEN "none" ELSE "deleted"]]
    /\ Put([entity EXCEPT !.status = Rollup])
    /\ BodyKeeps /\ UNCHANGED <<irpJobs, imports, spent>>

Unretrieved == {a \in Analyses : captured[a].row = "live" /\ ~ captured[a].retrieval}

\* One enqueue after the other, for every live row without its results.
ChainRetrievals(w) ==
    /\ thread[w].at = "chain"
    /\ \/ Unretrieved = {} /\ Go(w, "succeeded") /\ UNCHANGED captured
       \/ \E a \in Unretrieved : /\ captured' = [captured EXCEPT ![a].retrieval = TRUE]
                                 /\ UNCHANGED thread
    /\ Keep /\ BodyKeeps /\ UNCHANGED <<irpJobs, imports, spent>>

-----------------------------------------------------------------------------
(* The poller *)

\* The single-status read of a tracked job whose import has ended.
PollRead(j) ==
    /\ poller = NoPoll /\ j \in DOMAIN irpJobs /\ irpJobs[j].status = "QUEUED"
    /\ LET i == imports[irpJobs[j].import] IN
          /\ i.state # "running"
          /\ poller' = [at |-> IF kind = "edm" /\ i.state = "finished" THEN "resolve" ELSE "persist",
                        job |-> j, ok |-> i.state = "finished", exposure |-> 0]
    /\ Keep /\ UNCHANGED <<kind, adopted, tables, thread, request, outside, log, spent>>

Newest == {i \in Exposures : \A j \in Exposures : j <= i}

\* _resolve_edm_exposure_id: the newest of the name; NULL when the search fails.
PollResolve ==
    /\ poller.at = "resolve"
    /\ \E x \in {0} \cup Newest : poller' = [poller EXCEPT !.at = "persist", !.exposure = x]
    /\ Keep /\ UNCHANGED <<kind, adopted, tables, thread, request, outside, log, spent>>

Conflict == poller.ok /\ poller.exposure \in adopted

\* update_tracking and the terminal handler in one transaction.  A violated
\* index rolls both back: the next pass starts again.
PollPersist ==
    LET j == poller.job IN
    /\ poller.at = "persist"
    /\ poller' = NoPoll
    /\ IF Conflict THEN Keep /\ UNCHANGED <<irpJobs, heads, newest>>
       ELSE /\ irpJobs' = [irpJobs EXCEPT ![j].status = IF poller.ok THEN "FINISHED" ELSE "FAILED"]
            /\ IF poller.ok /\ heads[Backfill(j)] = "absent"
                 THEN SetHead(Backfill(j), "pending") ELSE UNCHANGED <<heads, newest>>
            /\ IF kind = "rdm" THEN IF poller.ok THEN Keep ELSE Put([entity EXCEPT !.status = "error"])
               ELSE Put([entity EXCEPT !.status = IF poller.ok THEN "ready" ELSE "error",
                                       !.exposure = poller.exposure])
    /\ UNCHANGED <<kind, adopted, captured, thread, request, outside, log, spent>>

PollLost ==
    /\ poller # NoPoll
    /\ Fault("crashes")
    /\ poller' = NoPoll
    /\ Keep /\ UNCHANGED <<kind, adopted, tables, thread, request, outside, log>>

-----------------------------------------------------------------------------
(* Requests of analysts *)

RequestTo(q, at) == request' = [request EXCEPT ![q] = at]
RequestKeeps == UNCHANGED <<kind, irpJobs, captured, thread, poller, outside>>

\* POST /edms/import: the one request that creates the entity.
CreateImport(q) == q = First /\ request[q] = "idle" /\ RequestTo(q, "arm")

\* _import_entity: the row, then its upload job.
ImportEntity(q) ==
    /\ CreateImport(q)
    /\ Put([entity EXCEPT !.status = "pending_import"])
    /\ Asked
    /\ RequestKeeps /\ UNCHANGED <<adopted, heads, newest, spent>>

\* The recovery form, with the updated_at it was rendered from.
OpenForm(q) ==
    /\ request[q] = "idle" /\ entity.status = "error"
    /\ RequestTo(q, "form") /\ fresh' = fresh \cup {q}
    /\ RequestKeeps /\ UNCHANGED <<entity, adopted, heads, newest, log, spent>>

\* _retry_import: nothing to do for an importing or ready entity.
RetryRead(q) ==
    /\ request[q] = "form"
    /\ RequestTo(q, IF entity.status \in {"importing", "ready"} THEN "done" ELSE "reset")
    /\ Keep /\ RequestKeeps /\ UNCHANGED <<adopted, heads, newest, log, spent>>

RetryReset(q) ==
    /\ request[q] = "reset" /\ RequestTo(q, "arm")
    /\ IF entity.status = "error" THEN Put([entity EXCEPT !.status = "pending_import"]) /\ Asked
                                  ELSE Keep /\ UNCHANGED log
    /\ RequestKeeps /\ UNCHANGED <<adopted, heads, newest, spent>>

\* _replace_source_file: a row changed since the form was opened is a conflict.
ReplaceFile(q) ==
    /\ request[q] = "form"
    /\ IF q \in fresh
         THEN /\ RequestTo(q, "arm")
              /\ Put([entity EXCEPT !.file = @ + 1, !.status = "pending_import"]) /\ Asked
         ELSE RequestTo(q, "done") /\ Keep /\ UNCHANGED log
    /\ RequestKeeps /\ UNCHANGED <<adopted, heads, newest, spent>>

\* enqueue_rwb_job, ensure_pending_rwb_job: a no-op for a job pending or running.
ArmUpload(q) ==
    /\ request[q] = "arm" /\ RequestTo(q, "done")
    /\ IF heads[Upload] \in {"pending", "running"} THEN UNCHANGED <<heads, newest>>
       ELSE SetHead(Upload, "pending")
    /\ Keep /\ RequestKeeps /\ UNCHANGED <<adopted, log, spent>>

\* sync_detail: not while importing, not while the newest backfill is active.
SyncRead(q) ==
    /\ request[q] = "idle" /\ entity.status \in {"ready", "error"}
    /\ newest # NoHead => heads[newest] \notin {"pending", "running"}
    /\ RequestTo(q, "arm sync")
    /\ Keep /\ RequestKeeps /\ UNCHANGED <<adopted, heads, newest, log, spent>>

SyncArm(q) ==
    /\ request[q] = "arm sync" /\ RequestTo(q, "done")
    /\ IF heads[Sync] \in {"pending", "running"} THEN UNCHANGED <<heads, newest>>
       ELSE SetHead(Sync, "pending")
    /\ Keep /\ RequestKeeps /\ UNCHANGED <<adopted, log, spent>>

\* resubmit_rwb_job, from the queue page.
Resubmit(q, h) ==
    /\ request[q] = "idle" /\ heads[h] \in {"failed", "raised"}
    /\ SetHead(h, "pending") /\ RequestTo(q, "done")
    /\ Keep /\ RequestKeeps /\ UNCHANGED <<adopted, log, spent>>

\* adopt_edms, one guarded INSERT: not an exposure a live row holds, nor a name
\* a live row without exposure may be about to resolve.
Adopt(q, x) ==
    /\ request[q] = "idle" /\ kind = "edm"
    /\ x \in Exposures \ adopted /\ x # entity.exposure
    /\ entity.exposure # 0 \/ entity.status = "error"
    /\ adopted' = adopted \cup {x} /\ RequestTo(q, "done")
    /\ Keep /\ RequestKeeps /\ UNCHANGED <<heads, newest, log, spent>>

\* A web process is lost between two statements of a request.
RequestLost(q) ==
    /\ request[q] \in {"reset", "arm", "arm sync"}
    /\ Fault("crashes")
    /\ RequestTo(q, "done")
    /\ IF request[q] = "arm sync" THEN UNCHANGED log ELSE log' = [log EXCEPT !.missed = TRUE]
    /\ Keep /\ RequestKeeps /\ UNCHANGED <<adopted, heads, newest>>

-----------------------------------------------------------------------------
(* Risk Modeler *)

ImportEnds(i) ==
    /\ i \in DOMAIN imports /\ imports[i].state = "running"
    /\ \E st \in {"finished", "failed"} : imports' = [imports EXCEPT ![i].state = st]
    /\ Keep /\ UNCHANGED <<kind, adopted, tables, thread, poller, request, rmAnalyses, log, spent>>

AnalysisChanges(a) ==
    /\ kind = "rdm" /\ spent.changes < MaxChanges /\ Spend("changes")
    /\ rmAnalyses' = IF a \in rmAnalyses THEN rmAnalyses \ {a} ELSE rmAnalyses \cup {a}
    /\ Keep /\ UNCHANGED <<kind, adopted, tables, thread, poller, request, imports, log>>

-----------------------------------------------------------------------------
UploadStep(w) == ReadEntity(w) \/ LookForImport(w) \/ SubmitImport(w) \/ RecordImport(w) \/ Mark(w)
BackfillStep(w) == \/ ReadExposure(w) \/ ResolveExposure(w) \/ StoreExposure(w) \/ StoreSnapshots(w)
                   \/ Enumerate(w) \/ StoreAnalyses(w) \/ ChainRetrievals(w)
ThreadStep(w) == (\E h \in Heads : Claim(w, h)) \/ UploadStep(w) \/ BackfillStep(w) \/ Complete(w)
PollStep == (\E j \in DOMAIN irpJobs : PollRead(j)) \/ PollResolve \/ PollPersist
Proceed(q) == RetryReset(q) \/ ArmUpload(q) \/ SyncArm(q)
Ask(q) == \/ ImportEntity(q) \/ OpenForm(q) \/ RetryRead(q) \/ ReplaceFile(q) \/ SyncRead(q)
          \/ \E h \in Heads : Resubmit(q, h)
          \/ \E x \in Exposures : Adopt(q, x)

Next ==
    \/ \E w \in Threads : ThreadStep(w) \/ Crash(w) \/ Raises(w)
    \/ \E h \in Heads : Reclaim(h)
    \/ PollStep \/ PollLost
    \/ \E q \in Requests : Ask(q) \/ Proceed(q) \/ RequestLost(q)
    \/ \E i \in DOMAIN imports : ImportEnds(i)
    \/ \E a \in Analyses : AnalysisChanges(a)

Spec == Init /\ [][Next]_vars

-----------------------------------------------------------------------------
(* Properties *)

ThreadAt == {"idle", "read", "look", "submit", "record", "record failure", "mark",
             "mark error", "exposure", "resolve", "store exposure", "list",
             "enumerate", "store", "chain", "succeeded", "failed", "raised"}

(* Every variable keeps its type; in particular no path writes more import  *)
(* irp_jobs than there are backfill jobs for them.                          *)
TypeOK ==
    /\ kind \in Kinds /\ entity \in Entity /\ fresh \subseteq Requests
    /\ adopted \subseteq DOMAIN imports
    /\ irpJobs \in Seq(IrpJob) /\ \A j \in DOMAIN irpJobs : Backfill(j) \in Heads
    /\ heads \in [Heads -> HeadStatus] /\ newest \in Heads \cup {NoHead}
    /\ captured \in [Analyses -> [row : {"none", "live", "deleted"}, retrieval : BOOLEAN]]
    /\ thread \in [Threads -> [at : ThreadAt, head : Heads \cup {NoHead}, got : Nat,
                               seen : SUBSET Analyses]]
    /\ poller \in [at : {"idle", "resolve", "persist"}, job : Nat, ok : BOOLEAN, exposure : Nat]
    /\ request \in [Requests -> {"idle", "form", "reset", "arm", "arm sync", "done"}]
    /\ imports \in Seq([file : Nat, state : {"running", "finished", "failed"}])
    /\ rmAnalyses \subseteq Analyses /\ log \in Log

(* Risk Modeler imports the file once for every time the row was made       *)
(* pending_import, and once more at most for every answer lost and every    *)
(* interruption inside the window the comment above                         *)
(* record_submitted_irp_job names: a re-run outside it finds the entity     *)
(* moved on, and for an RDM the record alone closes the window.             *)
ImportsAccounted == Len(imports) <= log.asked + log.doubt + spent.lost

Active(h) == heads[h] \in {"pending", "running"}
Quiet == /\ \A h \in Heads : ~ Active(h)
         /\ \A w \in Threads : thread[w] = Idle
         /\ \A q \in Requests : request[q] \in {"idle", "form", "done"}
         /\ \A j \in DOMAIN irpJobs : irpJobs[j].status # "QUEUED"

\* The RDM retry that _rdm_import_exists turns into a skip.
SkippedRdm == /\ kind = "rdm" /\ entity.status = "pending_import"
              /\ \E j \in DOMAIN irpJobs : irpJobs[j].status # "SUBMISSION FAILED"
\* A failed backfill keeps its job: the queue page can resubmit it.
BackfillFailed == \E h \in Heads \ {Upload} : heads[h] \in {"failed", "raised"}
\* So does an upload that raised; the entity itself offers no recovery.
UploadRaised == entity.status = "pending_import" /\ heads[Upload] = "raised"
Excused == log.missed \/ SkippedRdm \/ BackfillFailed \/ UploadRaised

(* When nothing is under way any more the entity is not left importing (the *)
(* page offers recovery for error only), and every live captured analysis   *)
(* has a retrieval job.  What strands the entity is a request that was lost *)
(* or made while the upload job still ran, the skip of an RDM that has an   *)
(* import, an upload that raised or met its time limit (run_job fails the   *)
(* job and leaves the entity pending_import; the queue page still offers    *)
(* the job), or a failed backfill, which also leaves retrievals out.        *)
StrandedOnlyByRace ==
    Quiet =>
        /\ entity.status \in {"pending_import", "importing"} => Excused
        /\ Unretrieved = {} \/ BackfillFailed

=============================================================================
