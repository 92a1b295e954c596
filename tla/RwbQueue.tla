------------------------------ MODULE RwbQueue ------------------------------
(***************************************************************************)
(* The rwb_job work queue: the SQL table of record, the Redis wake-ups,    *)
(* the workers that claim, heartbeat and complete a row, the request path  *)
(* that enqueues, retries and cancels, and the poller's reconciler and     *)
(* dispatch sweep (app/services/rwb_job_service.py, app/workers/runtime.py,*)
(* app/workers/dispatch.py, app/poller/run.py).                            *)
(*                                                                         *)
(* A step is one SQL statement or transaction, or one wake-up.  The two    *)
(* statements of ensure_pending_rwb_job are two steps: under READ          *)
(* COMMITTED nothing holds the row between them.                           *)
(***************************************************************************)
EXTENDS Naturals, FiniteSets

CONSTANTS Jobs,         \* dedup keys (requestor_type, requestor_id, rwb_job_type)
          Workers,      \* worker threads
          Analysts,     \* concurrent requests of the web tier
          NoWorker,     \* claimed_by IS NULL
          NoJob,        \* a thread or a request that holds no job
          MaxMessages,  \* bound: wake-ups in Redis per job
          MaxRequests,  \* bound: retry requests made
          MaxCrashes,   \* bound: workers lost in the middle of a job
          MaxStalls,    \* bound: heartbeats that go stale under a live worker
          MaxEarly      \* bound: reconciler passes that hit a claim before its first beat

ASSUME RwbQueueAssumption ==
    /\ NoWorker \notin Workers
    /\ NoJob \notin Jobs
    /\ {MaxMessages, MaxRequests, MaxCrashes, MaxStalls, MaxEarly} \subseteq Nat

VARIABLES row,        \* the rwb_job table, one row per key
          heartbeat,  \* rwb_job_heartbeat: age of the one beat kept per job
          message,    \* wake-ups for each job waiting in Redis
          worker,     \* each worker thread's place in run_job
          request,    \* each request's place in ensure_pending_rwb_job
          started,    \* history: claims won, hence executions of the body
          reclaimed,  \* history: resets of the row by the reconciler
          spent       \* how much of each bound has been used

vars == <<row, heartbeat, message, worker, request, started, reclaimed, spent>>

Lifecycle == INSTANCE JobLifecycle
                 WITH status  <- [j \in Jobs |-> row[j].status],
                      attempt <- [j \in Jobs |-> row[j].attempt]

Status   == {"absent", "pending", "running", "succeeded", "failed", "cancelled"}
Row      == [status : Status, claimedBy : Workers \cup {NoWorker}, attempt : Nat]
Absent   == [status |-> "absent", claimedBy |-> NoWorker, attempt |-> 0]

(* claimed: the claim is won, the first beat is not written yet.           *)
(* body: the heartbeat thread runs and so does the job.                    *)
(* succeeded, failed: the body is over, complete_rwb_job is next.          *)
Outcome  == {"succeeded", "failed"}
WorkerAt == {"idle", "claimed", "body"} \cup Outcome
Thread   == [at : WorkerAt, job : Jobs \cup {NoJob}]
Idle     == [at |-> "idle", job |-> NoJob]

(* ensure: ensure_pending_rwb_job is called, its SELECT is next.           *)
(* insert, revive: the SELECT found no row, or a terminal one.             *)
RequestAt == {"idle", "ensure", "insert", "revive"}
Request   == [at : RequestAt, job : Jobs \cup {NoJob}]

Budget    == [requests : Nat, crashes : Nat, stalls : Nat, early : Nat]

-----------------------------------------------------------------------------
(* Reading the state *)

(* Mutant: a row whose job never beat is not dead. *)
DeadIfBeatWasSeen(j) == row[j].status = "running" /\ heartbeat[j] = "stale"

(* The reconciler's and the cancel button's test: running, and the beat is *)
(* missing or older than rwb_heartbeat_stale_secs.                         *)
Dead(j) == row[j].status = "running" /\ heartbeat[j] # "fresh"

(* A live thread that still has to write its first beat. *)
BeforeFirstBeat(j) ==
    \E w \in Workers : worker[w] = [at |-> "claimed", job |-> j] /\ row[j].claimedBy = w

(* Some thread's heartbeat daemon is running for j. *)
Beating(j) == \E w \in Workers : worker[w].job = j /\ worker[w].at # "claimed"

(* A wake-up more for j; beyond MaxMessages it counts as lost. *)
Send(j) == message' = [message EXCEPT ![j] = IF @ < MaxMessages THEN @ + 1 ELSE @]

Spend(what) == spent' = [spent EXCEPT ![what] = @ + 1]

-----------------------------------------------------------------------------
Init ==
    /\ row       = [j \in Jobs |-> Absent]
    /\ heartbeat = [j \in Jobs |-> "none"]
    /\ message   = [j \in Jobs |-> 0]
    /\ worker    = [w \in Workers |-> Idle]
    /\ request   = [a \in Analysts |-> Idle]
    /\ started   = [j \in Jobs |-> 0]
    /\ reclaimed = [j \in Jobs |-> 0]
    /\ spent     = [requests |-> 0, crashes |-> 0, stalls |-> 0, early |-> 0]

-----------------------------------------------------------------------------
(* Producers: the poller, the workers' chained tails and the request path *)

(* _INSERT_IF_ABSENT.  The UNIQUE key, not the NOT EXISTS test, makes it a *)
(* no-op on an existing row; the caller then sends the wake-up.            *)
InsertHead(j) ==
    /\ row[j].status = "absent"
    /\ row' = [row EXCEPT ![j] = [Absent EXCEPT !.status = "pending"]]
    /\ Send(j)

Enqueue(j) ==
    /\ InsertHead(j)
    /\ UNCHANGED <<heartbeat, worker, request, started, reclaimed, spent>>

(* resubmit_rwb_job reads the failed row before it calls ensure_pending. *)
ResubmitRead(a, j) ==
    /\ request[a] = Idle
    /\ spent.requests < MaxRequests
    /\ row[j].status = "failed"
    /\ request' = [request EXCEPT ![a] = [at |-> "ensure", job |-> j]]
    /\ Spend("requests")
    /\ UNCHANGED <<row, heartbeat, message, worker, started, reclaimed>>

(* A Retry or Sync button calls ensure_pending_rwb_job itself. *)
EnsureCall(a, j) ==
    /\ request[a] = Idle
    /\ spent.requests < MaxRequests
    /\ request' = [request EXCEPT ![a] = [at |-> "ensure", job |-> j]]
    /\ Spend("requests")
    /\ UNCHANGED <<row, heartbeat, message, worker, started, reclaimed>>

(* ensure_pending's SELECT decides what the request does next. *)
EnsureSelect(a) ==
    LET j == request[a].job
        next == CASE row[j].status = "absent"   -> [at |-> "insert", job |-> j]
                  [] row[j].status \in Outcome  -> [at |-> "revive", job |-> j]
                  [] OTHER                      -> Idle
    IN  /\ request[a].at = "ensure"
        /\ request' = [request EXCEPT ![a] = next]
        /\ UNCHANGED <<row, heartbeat, message, worker, started, reclaimed, spent>>

(* Its INSERT, absorbed when another writer has inserted the key since. *)
EnsureInsert(a) ==
    LET j == request[a].job
    IN  /\ request[a].at = "insert"
        /\ \/ InsertHead(j)
           \/ row[j].status # "absent" /\ UNCHANGED <<row, message>>
        /\ request' = [request EXCEPT ![a] = Idle]
        /\ UNCHANGED <<heartbeat, worker, started, reclaimed, spent>>

(* Its UPDATE: WHERE id = :id and nothing about the status. *)
EnsureRevive(a) ==
    LET j == request[a].job
    IN  /\ request[a].at = "revive"
        /\ row' = [row EXCEPT ![j] = [status    |-> "pending",
                                      claimedBy |-> NoWorker,
                                      attempt   |-> @.attempt + 1]]
        /\ Send(j)
        /\ request' = [request EXCEPT ![a] = Idle]
        /\ UNCHANGED <<heartbeat, worker, started, reclaimed, spent>>

(* The web process dies, or the transaction fails, before the write. *)
RequestDies(a) ==
    /\ request[a].at # "idle"
    /\ request' = [request EXCEPT ![a] = Idle]
    /\ UNCHANGED <<row, heartbeat, message, worker, started, reclaimed, spent>>

(* Mutant: a success can be cancelled too. *)
CancelAnything(j) ==
    /\ row[j].status \in {"pending", "failed", "succeeded"} \/ Dead(j)
    /\ row' = [row EXCEPT ![j].status = "cancelled"]
    /\ UNCHANGED <<heartbeat, message, worker, request, started, reclaimed, spent>>

(* The monitoring page's Cancel: one guarded UPDATE, claimed_by stays. *)
Cancel(j) ==
    /\ row[j].status \in {"pending", "failed"} \/ Dead(j)
    /\ row' = [row EXCEPT ![j].status = "cancelled"]
    /\ UNCHANGED <<heartbeat, message, worker, request, started, reclaimed, spent>>

-----------------------------------------------------------------------------
(* Redis *)

LoseMessage(j) ==
    /\ message[j] > 0
    /\ message' = [message EXCEPT ![j] = @ - 1]
    /\ UNCHANGED <<row, heartbeat, worker, request, started, reclaimed, spent>>

DuplicateMessage(j) ==
    /\ message[j] > 0
    /\ Send(j)
    /\ UNCHANGED <<row, heartbeat, worker, request, started, reclaimed, spent>>

-----------------------------------------------------------------------------
(* Workers: run_job *)

(* Mutant: the claim takes a running row as well. *)
ClaimRunning(w, j) ==
    /\ worker[w] = Idle
    /\ message[j] > 0
    /\ row[j].status \in {"pending", "running"}
    /\ message' = [message EXCEPT ![j] = @ - 1]
    /\ row' = [row EXCEPT ![j].status = "running", ![j].claimedBy = w]
    /\ worker' = [worker EXCEPT ![w] = [at |-> "claimed", job |-> j]]
    /\ started' = [started EXCEPT ![j] = @ + 1]
    /\ UNCHANGED <<heartbeat, request, reclaimed, spent>>

(* A wake-up reaches an idle thread and the claim's UPDATE matches. *)
Claim(w, j) ==
    /\ worker[w] = Idle
    /\ message[j] > 0
    /\ row[j].status = "pending"
    /\ message' = [message EXCEPT ![j] = @ - 1]
    /\ row' = [row EXCEPT ![j].status = "running", ![j].claimedBy = w]
    /\ worker' = [worker EXCEPT ![w] = [at |-> "claimed", job |-> j]]
    /\ started' = [started EXCEPT ![j] = @ + 1]
    /\ UNCHANGED <<heartbeat, request, reclaimed, spent>>

(* The claim matches no row: the thread acknowledges the wake-up and waits.*)
ClaimLost(w, j) ==
    /\ worker[w] = Idle
    /\ message[j] > 0
    /\ row[j].status # "pending"
    /\ message' = [message EXCEPT ![j] = @ - 1]
    /\ UNCHANGED <<row, heartbeat, worker, request, started, reclaimed, spent>>

(* _Heartbeat.__enter__ beats once, then the body and the daemon start. *)
FirstBeat(w) ==
    /\ worker[w].at = "claimed"
    /\ heartbeat' = [heartbeat EXCEPT ![worker[w].job] = "fresh"]
    /\ worker' = [worker EXCEPT ![w].at = "body"]
    /\ UNCHANGED <<row, message, request, started, reclaimed, spent>>

(* The daemon's beat: it never looks at the row it is keeping alive. *)
Beat(w) ==
    /\ worker[w].at \in {"body"} \cup Outcome
    /\ heartbeat' = [heartbeat EXCEPT ![worker[w].job] = "fresh"]
    /\ UNCHANGED <<row, message, worker, request, started, reclaimed, spent>>

(* The body returns, raises, or is killed at the actor's time limit. *)
BodyReturns(w) ==
    /\ worker[w].at = "body"
    /\ \E o \in Outcome : worker' = [worker EXCEPT ![w].at = o]
    /\ UNCHANGED <<row, heartbeat, message, request, started, reclaimed, spent>>

(* Mutant: the completion is not guarded on the status. *)
CompleteUnguarded(w) ==
    /\ worker[w].at \in Outcome
    /\ row' = [row EXCEPT ![worker[w].job].status = worker[w].at]
    /\ worker' = [worker EXCEPT ![w] = Idle]
    /\ UNCHANGED <<heartbeat, message, request, started, reclaimed, spent>>

(* Mutant: the thread that completed keeps its job. *)
CompleteKeepsJob(w) ==
    /\ worker[w].at \in Outcome
    /\ row' = IF row[worker[w].job].status = "running"
              THEN [row EXCEPT ![worker[w].job].status = worker[w].at]
              ELSE row
    /\ worker' = [worker EXCEPT ![w].at = "idle"]
    /\ UNCHANGED <<heartbeat, message, request, started, reclaimed, spent>>

(* complete_rwb_job: guarded on running, not on who claimed the row. *)
Complete(w) ==
    LET j == worker[w].job
    IN  /\ worker[w].at \in Outcome
        /\ row' = IF row[j].status = "running"
                  THEN [row EXCEPT ![j].status = worker[w].at]
                  ELSE row
        /\ worker' = [worker EXCEPT ![w] = Idle]
        /\ UNCHANGED <<heartbeat, message, request, started, reclaimed, spent>>

(* The process is killed, or one of the runtime's own statements raises.   *)
(* Redis may redeliver the wake-up that was not acknowledged.              *)
Crash(w) ==
    /\ worker[w] # Idle
    /\ spent.crashes < MaxCrashes
    /\ Spend("crashes")
    /\ worker' = [worker EXCEPT ![w] = Idle]
    /\ Send(worker[w].job) \/ UNCHANGED message
    /\ UNCHANGED <<row, heartbeat, request, started, reclaimed>>

-----------------------------------------------------------------------------
(* Time *)

(* Nobody beats any more and rwb_heartbeat_stale_secs go by. *)
HeartbeatExpires(j) ==
    /\ heartbeat[j] = "fresh"
    /\ ~Beating(j)
    /\ heartbeat' = [heartbeat EXCEPT ![j] = "stale"]
    /\ UNCHANGED <<row, message, worker, request, started, reclaimed, spent>>

(* The same under a live thread: paused, or its beats fail and are logged. *)
HeartbeatStalls(j) ==
    /\ heartbeat[j] = "fresh"
    /\ Beating(j)
    /\ spent.stalls < MaxStalls
    /\ Spend("stalls")
    /\ heartbeat' = [heartbeat EXCEPT ![j] = "stale"]
    /\ UNCHANGED <<row, message, worker, request, started, reclaimed>>

-----------------------------------------------------------------------------
(* The poller's pass *)

(* The rows a pass finds dead.  A claim is normally followed by its first  *)
(* beat within milliseconds: only MaxEarly passes may come in between.     *)
Stale == {j \in Jobs : Dead(j) /\ (spent.early < MaxEarly \/ ~BeforeFirstBeat(j))}

(* reconcile_stale_rwb_jobs: one UPDATE for all of them; the heartbeat row *)
(* and attempt_count stay as they are.                                     *)
Reconcile ==
    /\ Stale # {}
    /\ row' = [j \in Jobs |-> IF j \in Stale
                              THEN [row[j] EXCEPT !.status = "pending", !.claimedBy = NoWorker]
                              ELSE row[j]]
    /\ reclaimed' = [j \in Jobs |-> IF j \in Stale THEN reclaimed[j] + 1 ELSE reclaimed[j]]
    /\ IF \E j \in Stale : BeforeFirstBeat(j) THEN Spend("early") ELSE UNCHANGED spent
    /\ UNCHANGED <<heartbeat, message, worker, request, started>>

(* _dispatch_pending: a wake-up for every pending row, in flight or not. *)
DispatchPending ==
    /\ message' = [j \in Jobs |-> IF row[j].status = "pending" /\ message[j] < MaxMessages
                                  THEN message[j] + 1 ELSE message[j]]
    /\ UNCHANGED <<row, heartbeat, worker, request, started, reclaimed, spent>>

-----------------------------------------------------------------------------
RequestStep(a) ==
    \/ EnsureSelect(a)
    \/ EnsureInsert(a)
    \/ EnsureRevive(a)
    \/ RequestDies(a)
    \/ \E j \in Jobs : ResubmitRead(a, j) \/ EnsureCall(a, j)

ThreadStep(w) ==
    \/ \E j \in Jobs : Claim(w, j) \/ ClaimLost(w, j)
    \/ FirstBeat(w)
    \/ Beat(w)
    \/ BodyReturns(w)
    \/ Complete(w)
    \/ Crash(w)

JobStep(j) ==
    \/ Enqueue(j)
    \/ Cancel(j)
    \/ LoseMessage(j)
    \/ DuplicateMessage(j)
    \/ HeartbeatExpires(j)
    \/ HeartbeatStalls(j)

Next ==
    \/ \E a \in Analysts : RequestStep(a)
    \/ \E w \in Workers : ThreadStep(w)
    \/ \E j \in Jobs : JobStep(j)
    \/ Reconcile
    \/ DispatchPending

Spec == Init /\ [][Next]_vars

(* A live thread goes on; time passes; the poller keeps polling; and a     *)
(* wake-up that is in Redis again and again is in the end delivered.       *)
Fairness ==
    /\ \A w \in Workers : /\ WF_vars(FirstBeat(w))
                          /\ WF_vars(BodyReturns(w))
                          /\ WF_vars(Complete(w))
    /\ \A j \in Jobs : /\ WF_vars(HeartbeatExpires(j))
                       /\ SF_vars(\E w \in Workers : Claim(w, j))
    /\ WF_vars(Reconcile)
    /\ WF_vars(DispatchPending)

FairSpec == Spec /\ Fairness

-----------------------------------------------------------------------------
(* Properties *)

(* Every variable stays in its domain. *)
TypeOK ==
    /\ row \in [Jobs -> Row]
    /\ heartbeat \in [Jobs -> {"none", "fresh", "stale"}]
    /\ message \in [Jobs -> Nat]
    /\ worker \in [Workers -> Thread]
    /\ request \in [Analysts -> Request]
    /\ started \in [Jobs -> Nat]
    /\ reclaimed \in [Jobs -> Nat]
    /\ spent \in Budget
    /\ \A w \in Workers : worker[w].job = NoJob <=> worker[w].at = "idle"
    /\ \A a \in Analysts : request[a].job = NoJob <=> request[a].at = "idle"

(* broker.py: "a lost or duplicated Redis message can never double-execute".*)
(* A body runs once for the insert, once more for each counted attempt and  *)
(* once more for each reclaim: no other run is possible, however many       *)
(* wake-ups are delivered, to however many threads.                         *)
RunsAccounted == \A j \in Jobs : started[j] <= 1 + row[j].attempt + reclaimed[j]

(* As long as nobody retried a job and the reconciler never took it back,  *)
(* one thread at most is executing it.                                     *)
ExclusiveUntilReset ==
    \A j \in Jobs :
        row[j].attempt + reclaimed[j] = 0 =>
            \A v, w \in Workers : worker[v].job = j /\ worker[w].job = j => v = w

(* A row that is up for a claim belongs to nobody, and a running row names  *)
(* a thread: the monitoring page and the next claim rely on claimed_by.     *)
ClaimedByMatchesStatus ==
    \A j \in Jobs : /\ row[j].status \in {"absent", "pending"} => row[j].claimedBy = NoWorker
                    /\ row[j].status = "running" => row[j].claimedBy \in Workers

(* complete_rwb_job's guard: a result stands until a person asks for a new  *)
(* attempt or dismisses the failure.  A late thread of an earlier claim     *)
(* cannot turn a success into a failure or the other way round.             *)
TerminalResultStands ==
    [][\A j \in Jobs :
          row[j].status \in Outcome =>
              \/ row'[j] = row[j]
              \/ row'[j].status = "pending" /\ row'[j].attempt = row[j].attempt + 1
              \/ row[j].status = "failed" /\ row'[j] = [row[j] EXCEPT !.status = "cancelled"]]_vars

(* A cancelled row is revived by nothing mechanical: not a late completion, *)
(* not the reconciler, not a re-enqueue or a wake-up.  The one way out is a  *)
(* retry request that had read the row while it was still terminal.          *)
CancelledLeavesOnlyByRacingRetry ==
    [][\A j \in Jobs :
          row[j].status = "cancelled" /\ row'[j] # row[j] =>
              \E a \in Analysts : /\ request[a] = [at |-> "revive", job |-> j]
                                  /\ request'[a] = Idle
                                  /\ row'[j].attempt = row[j].attempt + 1]_vars

(* The table an observer sees follows the abstract lifecycle. *)
ImplementsLifecycle == Lifecycle!LifecycleSpec

(* No job is lost or stuck: whatever wake-ups are lost and whichever threads *)
(* crash, an enqueued job gets a result or is cancelled.                     *)
EveryJobSettles ==
    \A j \in Jobs : row[j].status \in {"pending", "running"}
                        ~> row[j].status \in {"succeeded", "failed", "cancelled"}

=============================================================================
