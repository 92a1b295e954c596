---------------------- MODULE AnalysisExecutionProofs ----------------------
(***************************************************************************)
(* Proofs about AnalysisExecution, for any number of work units, threads,   *)
(* delete requests, retries and losses: what the three workers, the poller  *)
(* and _delete_analyses write keeps its type, the runs of a unit in Risk    *)
(* Modeler are accounted for, and a deletion neither meets a retry nor      *)
(* leaves an analysis behind.                                               *)
(*                                                                          *)
(* All four follow from one inductive invariant.  It says where the threads *)
(* are (Placed), how many of them run the batch and what each may still     *)
(* write (Staffed, JobsCounted), where every run Risk Modeler accepted is   *)
(* told of (RunsCounted), what follows the end of a run (FinishedFirst),    *)
(* what the poller holds (RetryHeld), how the row of an analysis follows    *)
(* its irp_jobs (RowsFollow, OnlyJob), and what a delete request saw        *)
(* (Deleting, Deleted).                                                     *)
(***************************************************************************)
EXTENDS AnalysisExecution, FiniteSetTheorems, TLAPS

FinalizeAt == {"resolve", "metadata", "ready", "chain"}
RetrieveAt == {"read", "fetch", "store"}
RetryingAt == RetryAt \ {"idle", "batch"}

\* Places at which a thread has found no irp_job and not written one yet.
SubmittingAt == {"select", "insert", "submit"} \cup Outcomes

\* Risk Modeler accepted a run that the row tells of.
Taken == {"QUEUED", "RUNNING", "FINISHED", "FAILED"}

Batching      == {w \in Workers : worker[w].task = Batch}
Submitting(u) == {w \in Workers : worker[w].at \in SubmittingAt /\ worker[w].unit = u}
Heard(u)      == {w \in Workers : worker[w].at = "record" /\ worker[w].unit = u}
Accepted(u)   == {i \in DOMAIN irpJobs[u] : irpJobs[u][i].status \in Taken}
RetryHeard(u) == IF poller.at = "record" /\ poller.unit = u THEN 1 ELSE 0

\* The analysis has one irp_job: no second thread of a stalled batch wrote one.
OneJob(u) == Len(irpJobs[u]) = 1
Only(u)   == irpJobs[u][1]

Typed ==
    /\ analysis \in [Units -> Analysis]
    /\ irpJobs \in [Units -> Seq(IrpJob)]
    /\ task \in [Tasks -> TaskStatus]
    /\ worker \in [Workers -> Thread]
    /\ poller \in Retry
    /\ deleter \in [Deleters -> Deletion]
    /\ rmLive \subseteq Units \X JobIndex
    /\ runs \in [Units -> Nat]
    /\ spent \in Budget

\* A thread is in the body of the job it took.
Placed ==
    \A w \in Workers :
        /\ worker[w].at = "idle" => worker[w] = Idle
        /\ worker[w].at # "idle" => worker[w].unit \in Units /\ worker[w].task \in Tasks
        /\ worker[w].at \in SubmitAt => worker[w].task = Batch
        /\ worker[w].at \in FinalizeAt =>
               \E i \in JobIndex : worker[w].task = Finalize(worker[w].unit, i)
        /\ worker[w].at \in RetrieveAt => worker[w].task = Retrieve(worker[w].unit)

\* One thread runs the batch, and one more for every stall.
Staffed ==
    /\ spent.stalls <= MaxStalls
    /\ Cardinality(Batching) <= spent.stalls + 1
    /\ task[Batch] # "running" => Cardinality(Batching) <= spent.stalls

\* Each of them writes one irp_job at most.
JobsCounted ==
    \A u \in Units : Len(irpJobs[u]) + Cardinality(Submitting(u)) <= spent.stalls + 1

\* A run Risk Modeler accepted is on a row, about to be, or was not heard of.
Known(u) == Cardinality(Accepted(u)) + Cardinality(Heard(u)) + RetryHeard(u)
                + spent.crashes + spent.lost

RunsCounted == \A u \in Units : runs[u] <= Known(u)

\* What follows the end of a run is about a finished one.
Finished(u, i) == i \in DOMAIN irpJobs[u] /\ irpJobs[u][i].status = "FINISHED"

FinishedFirst ==
    /\ \A u \in Units, i \in JobIndex :
          /\ task[Finalize(u, i)] # "absent" => Finished(u, i)
          /\ <<u, i>> \in rmLive => Finished(u, i)
          /\ \A w \in Workers : worker[w].task = Finalize(u, i) => Finished(u, i)
    /\ \A u \in Units :
          /\ \A i \in DOMAIN irpJobs[u] : irpJobs[u][i].named => Finished(u, i)
          /\ analysis[u].irpId # 0 => Finished(u, analysis[u].irpId)

\* The poller holds failed submits, each of them once, and the one it retries.
RetryHeld ==
    /\ poller.at = "idle" => poller.todo = {}
    /\ \A u \in Units, i \in JobIndex :
          <<u, i>> \in poller.todo =>
              i \in DOMAIN irpJobs[u] /\ irpJobs[u][i].status = "SUBMISSION_FAILED"
    /\ poller.at \in RetryingAt =>
          /\ poller.unit \in Units /\ poller.job \in JobIndex
          /\ poller.job \in DOMAIN irpJobs[poller.unit]
          /\ irpJobs[poller.unit][poller.job].status = "SUBMISSION_RETRYING"

\* The row of an analysis against its first irp_job.
RowsFollow ==
    \A u \in Units :
        /\ irpJobs[u] = <<>> =>
              analysis[u].status \in {"none", "pending"} /\ ~ analysis[u].deleted
        /\ \A w \in Workers :
              worker[w].at \in {"submit"} \cup Outcomes /\ worker[w].unit = u
                  => analysis[u].status # "none"
        /\ \A w \in Workers :
              worker[w].at \in {"metadata", "ready", "chain"} /\ worker[w].unit = u
                  => analysis[u].irpId # 0
        /\ \A w \in Workers :
              worker[w].at = "mark_error" /\ worker[w].unit = u => irpJobs[u] # <<>>

\* While it is the only one, the analysis is pending until it is over; a thread
\* that is to mark the rejected analysis keeps the poller from the row; ...
PendingFirst(u) ==
    /\ Only(u).status \in {"QUEUED", "RUNNING", "SUBMISSION_RETRYING"}
           => analysis[u].status = "pending"
    /\ <<u, 1>> \in poller.todo => analysis[u].status = "pending"
MarkingAlone(u) ==
    \A w \in Workers : worker[w].at = "mark_error" /\ worker[w].unit = u =>
        Only(u).status = "SUBMISSION_FAILED" /\ <<u, 1>> \notin poller.todo
PointedFirst(u) ==
    Only(u).named /\ analysis[u].status \in {"ready", "error"} => analysis[u].irpId # 0

OnlyJob ==
    \A u \in Units : OneJob(u) => PendingFirst(u) /\ MarkingAlone(u) /\ PointedFirst(u)

\* ... a delete request that took no lock saw the end of it, ...
Ended(u) ==
    Only(u).status \in {"FINISHED", "FAILED"}

Deleting ==
    \A d \in Deleters : deleter[d].at # "idle" =>
        LET u == deleter[d].unit IN
        /\ u \in Units /\ irpJobs[u] # <<>>
        /\ deleter[d].lock \in DOMAIN irpJobs[u] \cup {0}
        /\ OneJob(u) /\ deleter[d].lock = 0 =>
               /\ Ended(u)
               /\ deleter[d].at = "remote" => deleter[d].irpId = 1
               /\ deleter[d].at = "local" /\ Only(u).named => <<u, 1>> \notin rmLive

\* ... and the deleted analysis has nothing under way.
Deleted ==
    \A u \in Units : analysis[u].deleted /\ OneJob(u) =>
        /\ Ended(u) \/ Only(u).status = "SUBMISSION_FAILED"
        /\ Only(u).named => <<u, 1>> \notin rmLive

Inductive ==
    /\ Typed /\ Placed /\ Staffed /\ JobsCounted /\ RunsCounted
    /\ FinishedFirst /\ RetryHeld /\ RowsFollow /\ OnlyJob /\ Deleting /\ Deleted

-----------------------------------------------------------------------------
(* The constants, the jobs of the queue and what one step does to a variable *)

LEMMA ConstantFacts ==
    /\ NumUnits \in Nat \ {0} /\ Units = 1..NumUnits /\ 1 \in Units
    /\ MaxStalls \in Nat /\ JobIndex = 1..(MaxStalls + 1) /\ 1 \in JobIndex
    /\ IsFiniteSet(Workers)
BY AnalysisExecutionAssumption, ThreadAssumption DEF Units, JobIndex

\* The jobs of the three kinds are distinct.
LEMMA TaskFacts ==
    /\ NoTask \notin Tasks /\ Batch \in Tasks
    /\ \A u \in Units : Retrieve(u) \in Tasks /\ Retrieve(u) # Batch /\ Retrieve(u)[2] = u
    /\ \A u \in Units, i \in JobIndex :
          /\ Finalize(u, i) \in Tasks /\ Finalize(u, i) # Batch
          /\ Finalize(u, i)[2] = u /\ Finalize(u, i)[3] = i
          /\ \A v \in Units : Finalize(u, i) # Retrieve(v)
          /\ \A v \in Units, k \in JobIndex : Finalize(u, i) = Finalize(v, k) => u = v /\ i = k
    /\ \A t \in Tasks : \/ t = Batch
                        \/ \E u \in Units, i \in JobIndex : t = Finalize(u, i)
                        \/ \E u \in Units : t = Retrieve(u)
<1>1. NoTask \notin Tasks
  BY ThreadAssumption
<1>2. \A u \in Units, i \in JobIndex : Finalize(u, i)[2] = u /\ Finalize(u, i)[3] = i
  BY DEF Finalize
<1>3. \A u \in Units : Retrieve(u)[2] = u
  BY DEF Retrieve
<1>4. \A u \in Units, i \in JobIndex :
          /\ Finalize(u, i) # Batch
          /\ \A v \in Units : Finalize(u, i) # Retrieve(v)
          /\ \A v \in Units, k \in JobIndex : Finalize(u, i) = Finalize(v, k) => u = v /\ i = k
  BY DEF Finalize, Retrieve, Batch
<1>5. \A u \in Units : Retrieve(u) # Batch
  BY DEF Retrieve, Batch
<1> QED
  BY <1>1, <1>2, <1>3, <1>4, <1>5 DEF Tasks

LEMMA FirstSteps ==
    /\ FirstStep(Batch) = "count"
    /\ \A u \in Units, i \in JobIndex : FirstStep(Finalize(u, i)) = "resolve"
    /\ \A u \in Units : FirstStep(Retrieve(u)) = "read"
BY DEF FirstStep, Batch, Finalize, Retrieve

\* Only thread w moves, within the job it runs.
Others(w)    == \A v \in Workers \ {w} : worker'[v] = worker[v]
Moved(w, at) == /\ worker' \in [Workers -> Thread] /\ Others(w)
                /\ worker'[w].at = at /\ worker'[w].task = worker[w].task
                /\ worker'[w].unit = worker[w].unit /\ worker'[w].irpId = worker[w].irpId

LEMMA Goes ==
    ASSUME NEW w \in Workers, NEW at \in WorkerAt, worker \in [Workers -> Thread], Go(w, at)
    PROVE  Moved(w, at)
BY DEF Go, Moved, Others, Thread

\* NextUnit leaves the unit for the next one, or the body.
LEMMA NextUnits ==
    ASSUME NEW w \in Workers, NEW good \in BOOLEAN, worker \in [Workers -> Thread],
           worker[w].unit \in Units, NextUnit(w, good)
    PROVE  /\ worker' \in [Workers -> Thread] /\ Others(w)
           /\ worker'[w].task = worker[w].task /\ worker'[w].unit \in Units
           /\ worker'[w].at \in {"count"} \cup Outcome
<1>. DEFINE g == worker[w].good \/ good
            n == IF worker[w].unit < NumUnits THEN worker[w].unit + 1 ELSE worker[w].unit
            p == IF worker[w].unit < NumUnits THEN "count"
                 ELSE IF worker[w].good \/ good THEN "succeeded" ELSE "failed"
<1>1. worker[w] \in Thread
  OBVIOUS
<1>2. g \in BOOLEAN
  BY <1>1 DEF Thread
<1>3. n \in Units /\ n \in Nat
  BY ConstantFacts
<1>4. p \in {"count"} \cup Outcome /\ p \in WorkerAt
  BY DEF WorkerAt, SubmitAt, Outcome
<1>5. worker' = [worker EXCEPT ![w].good = g, ![w].unit = n, ![w].at = p]
  BY DEF NextUnit
<1>. HIDE DEF g, n, p
<1> QED
  BY <1>1, <1>2, <1>3, <1>4, <1>5 DEF Others, Thread

\* One analysis changes its status.
StatusSet(u, st) ==
    /\ analysis' \in [Units -> Analysis]
    /\ \A v \in Units \ {u} : analysis'[v] = analysis[v]
    /\ analysis'[u].status = st /\ analysis'[u].deleted = analysis[u].deleted
    /\ analysis'[u].irpId = analysis[u].irpId /\ analysis'[u].results = analysis[u].results

LEMMA StatusSets ==
    ASSUME NEW u \in Units, analysis \in [Units -> Analysis],
           NEW st \in {"none", "pending", "ready", "error"},
           analysis' = [analysis EXCEPT ![u].status = st]
    PROVE  StatusSet(u, st)
BY DEF Analysis, StatusSet

\* One irp_job is rewritten, or one is added.
JobPut(u, i) ==
    /\ irpJobs' \in [Units -> Seq(IrpJob)]
    /\ \A v \in Units : Len(irpJobs'[v]) = Len(irpJobs[v])
                        /\ DOMAIN irpJobs'[v] = DOMAIN irpJobs[v]
    /\ \A v \in Units : \A k \in DOMAIN irpJobs[v] :
          v # u \/ k # i => irpJobs'[v][k] = irpJobs[v][k]

LEMMA JobPuts ==
    ASSUME NEW u \in Units, irpJobs \in [Units -> Seq(IrpJob)], NEW i \in DOMAIN irpJobs[u],
           NEW r \in IrpJob, irpJobs' = [irpJobs EXCEPT ![u][i] = r]
    PROVE  JobPut(u, i) /\ irpJobs'[u][i] = r
BY DEF JobPut

LEMMA JobSets ==
    ASSUME NEW u \in Units, irpJobs \in [Units -> Seq(IrpJob)], NEW i \in DOMAIN irpJobs[u],
           NEW st \in JobStatus, SetJob(u, i, st)
    PROVE  /\ JobPut(u, i) /\ irpJobs'[u][i].status = st
           /\ irpJobs'[u][i].named = irpJobs[u][i].named
<1>. DEFINE r == [irpJobs[u][i] EXCEPT !.status = st]
<1>1. irpJobs[u][i] \in IrpJob
  OBVIOUS
<1>2. r \in IrpJob /\ r.status = st /\ r.named = irpJobs[u][i].named
  BY <1>1 DEF IrpJob
<1>3. irpJobs' = [irpJobs EXCEPT ![u][i] = r]
  BY DEF SetJob
<1>. HIDE DEF r
<1> QED
  BY <1>2, <1>3, JobPuts

LEMMA JobAdds ==
    ASSUME NEW u \in Units, irpJobs \in [Units -> Seq(IrpJob)],
           NEW st \in JobStatus, NEW n \in Nat, AddJob(u, st, n)
    PROVE  /\ irpJobs' \in [Units -> Seq(IrpJob)]
           /\ \A v \in Units \ {u} : irpJobs'[v] = irpJobs[v]
           /\ Len(irpJobs'[u]) = Len(irpJobs[u]) + 1
           /\ DOMAIN irpJobs'[u] = 1..Len(irpJobs[u]) + 1
           /\ \A k \in DOMAIN irpJobs[u] : irpJobs'[u][k] = irpJobs[u][k]
           /\ irpJobs'[u][Len(irpJobs[u]) + 1].status = st
           /\ irpJobs'[u][Len(irpJobs[u]) + 1].named = FALSE
<1>. DEFINE r == [status |-> st, attempts |-> n, named |-> FALSE]
<1>1. r \in IrpJob /\ r.status = st /\ r.named = FALSE
  BY DEF IrpJob
<1>2. irpJobs' = [irpJobs EXCEPT ![u] = Append(@, r)]
  BY DEF AddJob
<1>. HIDE DEF r
<1>3. irpJobs[u] \in Seq(IrpJob)
  OBVIOUS
<1>4. /\ Append(irpJobs[u], r) \in Seq(IrpJob) /\ Len(Append(irpJobs[u], r)) = Len(irpJobs[u]) + 1
      /\ DOMAIN Append(irpJobs[u], r) = 1..Len(irpJobs[u]) + 1
  BY <1>1, <1>3
<1>5. \A k \in DOMAIN irpJobs[u] : Append(irpJobs[u], r)[k] = irpJobs[u][k]
  BY <1>3
<1>6. Append(irpJobs[u], r)[Len(irpJobs[u]) + 1] = r
  BY <1>3
<1> QED
  BY <1>1, <1>2, <1>4, <1>5, <1>6

-----------------------------------------------------------------------------
(* Counting *)

Rows ==
    \A v \in Units : /\ Len(irpJobs[v]) \in Nat /\ DOMAIN irpJobs[v] = 1..Len(irpJobs[v])
                     /\ irpJobs[v] = <<>> <=> Len(irpJobs[v]) = 0

LEMMA RowFacts ==
    ASSUME irpJobs \in [Units -> Seq(IrpJob)]
    PROVE  Rows
<1> SUFFICES ASSUME NEW v \in Units
             PROVE  /\ Len(irpJobs[v]) \in Nat /\ DOMAIN irpJobs[v] = 1..Len(irpJobs[v])
                    /\ irpJobs[v] = <<>> <=> Len(irpJobs[v]) = 0
  BY DEF Rows
<1>1. irpJobs[v] \in Seq(IrpJob)
  OBVIOUS
<1>2. \A s \in Seq(IrpJob) : Len(s) \in Nat /\ DOMAIN s = 1..Len(s) /\ (s = <<>> <=> Len(s) = 0)
  OBVIOUS
<1> QED
  BY <1>1, <1>2

LEMMA NextRowFacts ==
    ASSUME irpJobs' \in [Units -> Seq(IrpJob)]
    PROVE  Rows'
<1> SUFFICES ASSUME NEW v \in Units
             PROVE  /\ Len(irpJobs'[v]) \in Nat /\ DOMAIN irpJobs'[v] = 1..Len(irpJobs'[v])
                    /\ irpJobs'[v] = <<>> <=> Len(irpJobs'[v]) = 0
  BY DEF Rows
<1>1. irpJobs'[v] \in Seq(IrpJob)
  OBVIOUS
<1>2. \A s \in Seq(IrpJob) : Len(s) \in Nat /\ DOMAIN s = 1..Len(s) /\ (s = <<>> <=> Len(s) = 0)
  OBVIOUS
<1> QED
  BY <1>1, <1>2

ThreadsCounted ==
    /\ Cardinality(Batching) \in Nat /\ IsFiniteSet(Batching)
    /\ \A u \in Units : /\ Cardinality(Submitting(u)) \in Nat /\ IsFiniteSet(Submitting(u))
                        /\ Cardinality(Heard(u)) \in Nat /\ IsFiniteSet(Heard(u))

\* The sets of threads counted are finite.
LEMMA Counts == ThreadsCounted
<1>1. \A S : S \subseteq Workers => Cardinality(S) \in Nat /\ IsFiniteSet(S)
  BY ConstantFacts, FS_Subset, FS_CardinalityType
<1>2. Batching \subseteq Workers
  BY DEF Batching
<1>3. \A u \in Units : Submitting(u) \subseteq Workers /\ Heard(u) \subseteq Workers
  BY DEF Submitting, Heard
<1> QED
  BY <1>1, <1>2, <1>3 DEF ThreadsCounted

Counted == \A u \in Units : Cardinality(Accepted(u)) \in Nat /\ IsFiniteSet(Accepted(u))

\* So are the rows of an analysis.
LEMMA RowCounts ==
    ASSUME irpJobs \in [Units -> Seq(IrpJob)]
    PROVE  Counted
<1> SUFFICES ASSUME NEW u \in Units
             PROVE  Cardinality(Accepted(u)) \in Nat /\ IsFiniteSet(Accepted(u))
  BY DEF Counted
<1>1. Len(irpJobs[u]) \in Nat /\ DOMAIN irpJobs[u] = 1..Len(irpJobs[u])
  OBVIOUS
<1>2. IsFiniteSet(DOMAIN irpJobs[u])
  BY <1>1, FS_Interval
<1>3. Accepted(u) \subseteq DOMAIN irpJobs[u]
  BY DEF Accepted
<1> QED
  BY <1>2, <1>3, FS_Subset, FS_CardinalityType

\* The same two facts after a step.
LEMMA NextCounts == ThreadsCounted'
BY Counts, PTL

LEMMA NextRowCounts ==
    ASSUME irpJobs' \in [Units -> Seq(IrpJob)]
    PROVE  Counted'
<1> SUFFICES ASSUME NEW u \in Units
             PROVE  (Cardinality(Accepted(u)) \in Nat /\ IsFiniteSet(Accepted(u)))'
  BY DEF Counted
<1>1. Len(irpJobs'[u]) \in Nat /\ DOMAIN irpJobs'[u] = 1..Len(irpJobs'[u])
  OBVIOUS
<1>2. IsFiniteSet(DOMAIN irpJobs'[u])
  BY <1>1, FS_Interval
<1>3. Accepted(u)' \subseteq DOMAIN irpJobs'[u]
  BY DEF Accepted
<1> QED
  BY <1>2, <1>3, FS_Subset, FS_CardinalityType

\* One element more, one less, no more.
LEMMA OneMore ==
    ASSUME NEW S, NEW T, NEW x, IsFiniteSet(S), x \notin S, T = S \cup {x}
    PROVE  Cardinality(T) = Cardinality(S) + 1
BY FS_AddElement

LEMMA OneLess ==
    ASSUME NEW S, NEW T, NEW x, IsFiniteSet(S), x \in S, T \subseteq S \ {x}
    PROVE  Cardinality(T) + 1 <= Cardinality(S)
<1>1. IsFiniteSet(S \ {x}) /\ Cardinality(S \ {x}) = Cardinality(S) - 1
  BY FS_RemoveElement
<1>2. IsFiniteSet(T) /\ Cardinality(T) <= Cardinality(S \ {x})
  BY <1>1, FS_Subset
<1>3. Cardinality(S) \in Nat /\ Cardinality(T) \in Nat /\ Cardinality(S \ {x}) \in Nat
  BY <1>1, <1>2, FS_CardinalityType
<1> QED
  BY <1>1, <1>2, <1>3

LEMMA NoMore ==
    ASSUME NEW S, NEW T, IsFiniteSet(S), T \subseteq S
    PROVE  Cardinality(T) <= Cardinality(S)
BY FS_Subset

LEMMA AtMostOneMore ==
    ASSUME NEW S, NEW T, NEW x, IsFiniteSet(S), T \subseteq S \cup {x}
    PROVE  Cardinality(T) <= Cardinality(S) + 1
<1>0. Cardinality(S) \in Nat
  BY FS_CardinalityType
<1>1. IsFiniteSet(S \cup {x}) /\ Cardinality(S \cup {x}) <= Cardinality(S) + 1
  BY <1>0, FS_AddElement
<1>2. Cardinality(T) <= Cardinality(S \cup {x}) /\ IsFiniteSet(T)
  BY <1>1, FS_Subset
<1>3. Cardinality(S) \in Nat /\ Cardinality(T) \in Nat /\ Cardinality(S \cup {x}) \in Nat
  BY <1>1, <1>2, FS_CardinalityType
<1> QED
  BY <1>1, <1>2, <1>3

\* What of a thread the three counts see.
SameJob(v)    == worker'[v].task = Batch <=> worker[v].task = Batch
Submits1(v,u) == worker[v].at \in SubmittingAt /\ worker[v].unit = u
Hears(v, u)   == worker[v].at = "record" /\ worker[v].unit = u

LEMMA StaffedKeeps ==
    ASSUME Staffed, \A v \in Workers : SameJob(v),
           spent'.stalls = spent.stalls,
           task'[Batch] = "running" <=> task[Batch] = "running"
    PROVE  Staffed'
<1>1. Batching' = Batching
  BY DEF Batching, SameJob
<1> QED
  BY <1>1 DEF Staffed

LEMMA JobsCountedKeeps ==
    ASSUME JobsCounted, irpJobs \in [Units -> Seq(IrpJob)],
           spent \in Budget, spent' \in Budget, spent'.stalls >= spent.stalls,
           \A u \in Units : Len(irpJobs'[u]) = Len(irpJobs[u]),
           \A u \in Units : \A v \in Workers : Submits1(v, u)' => Submits1(v, u)
    PROVE  JobsCounted'
<1> SUFFICES ASSUME NEW u \in Units
             PROVE  Len(irpJobs'[u]) + Cardinality(Submitting(u))' <= spent'.stalls + 1
  BY DEF JobsCounted
<1>1. Submitting(u)' \subseteq Submitting(u)
  BY DEF Submitting, Submits1
<1>2. Cardinality(Submitting(u))' <= Cardinality(Submitting(u))
  BY <1>1, Counts, NoMore DEF ThreadsCounted
<1>3. Len(irpJobs[u]) + Cardinality(Submitting(u)) <= spent.stalls + 1
  BY DEF JobsCounted
<1>4. Len(irpJobs[u]) \in Nat /\ spent.stalls \in Nat /\ spent'.stalls \in Nat
  BY DEF Budget
<1>5. Cardinality(Submitting(u))' \in Nat /\ Cardinality(Submitting(u)) \in Nat
  BY Counts, NextCounts DEF ThreadsCounted
<1>6. Len(irpJobs'[u]) = Len(irpJobs[u])
  OBVIOUS
<1> QED
  BY <1>2, <1>3, <1>4, <1>5, <1>6

KnownTyped == \A u \in Units : Known(u) \in Nat /\ RetryHeard(u) \in {0, 1}

LEMMA KnownType ==
    ASSUME Typed
    PROVE  KnownTyped
<1> SUFFICES ASSUME NEW u \in Units
             PROVE  Known(u) \in Nat /\ RetryHeard(u) \in {0, 1}
  BY DEF KnownTyped
<1>1. Cardinality(Accepted(u)) \in Nat /\ Cardinality(Heard(u)) \in Nat
  BY Counts, RowCounts DEF Typed, Counted, ThreadsCounted
<1>2. RetryHeard(u) \in {0, 1}
  BY DEF RetryHeard
<1>3. spent.crashes \in Nat /\ spent.lost \in Nat
  BY DEF Typed, Budget
<1> QED
  BY <1>1, <1>2, <1>3 DEF Known

LEMMA NextKnownType ==
    ASSUME Typed'
    PROVE  KnownTyped'
<1> SUFFICES ASSUME NEW u \in Units
             PROVE  Known(u)' \in Nat /\ RetryHeard(u)' \in {0, 1}
  BY DEF KnownTyped
<1>1. Cardinality(Accepted(u))' \in Nat /\ Cardinality(Heard(u))' \in Nat
  BY NextCounts, NextRowCounts DEF Typed, Counted, ThreadsCounted
<1>2. RetryHeard(u)' \in {0, 1}
  BY DEF RetryHeard
<1>3. spent'.crashes \in Nat /\ spent'.lost \in Nat
  BY DEF Typed, Budget
<1> QED
  BY <1>1, <1>2, <1>3 DEF Known

\* The runs of a unit grow by no more than what is known of them.
LEMMA RunsBalance ==
    ASSUME Typed, Typed', RunsCounted,
           \A u \in Units : runs'[u] + Known(u) <= runs[u] + Known(u)'
    PROVE  RunsCounted'
<1> SUFFICES ASSUME NEW u \in Units
             PROVE  runs'[u] <= Known(u)'
  BY DEF RunsCounted
<1>1. Known(u) \in Nat /\ Known(u)' \in Nat
  BY KnownType, NextKnownType DEF KnownTyped
<1>2. runs[u] \in Nat /\ runs'[u] \in Nat
  BY DEF Typed
<1>3. runs[u] <= Known(u) /\ runs'[u] + Known(u) <= runs[u] + Known(u)'
  BY DEF RunsCounted
<1> QED
  BY <1>1, <1>2, <1>3

\* Nobody hears of a run, no row becomes one of an accepted run.
LEMMA RunsCountedKeeps ==
    ASSUME Typed, Typed', RunsCounted,
           spent'.crashes >= spent.crashes, spent'.lost >= spent.lost,
           \A u \in Units : runs'[u] = runs[u] /\ Accepted(u)' = Accepted(u),
           \A u \in Units : \A v \in Workers : Hears(v, u)' <=> Hears(v, u),
           \A u \in Units : RetryHeard(u)' = RetryHeard(u)
    PROVE  RunsCounted'
<1>1. \A u \in Units : runs'[u] + Known(u) <= runs[u] + Known(u)'
  <2> TAKE u \in Units
  <2>1. Heard(u)' = Heard(u)
    BY DEF Heard, Hears
  <2>2. Cardinality(Heard(u))' = Cardinality(Heard(u)) /\ Cardinality(Accepted(u))' = Cardinality(Accepted(u))
    BY <2>1
  <2>3. /\ Cardinality(Accepted(u)) \in Nat /\ Cardinality(Heard(u)) \in Nat
        /\ RetryHeard(u) \in {0, 1} /\ runs[u] \in Nat
    BY Counts, RowCounts, KnownType DEF Typed, Counted, ThreadsCounted, KnownTyped
  <2>4. /\ spent.crashes \in Nat /\ spent.lost \in Nat
        /\ spent'.crashes \in Nat /\ spent'.lost \in Nat
    BY DEF Typed, Budget
  <2>5. RetryHeard(u)' = RetryHeard(u) /\ runs'[u] = runs[u]
    OBVIOUS
  <2> QED
    BY <2>2, <2>3, <2>4, <2>5 DEF Known
<1> QED
  BY <1>1, RunsBalance

-----------------------------------------------------------------------------
(* A thread makes a step inside a body, and writes at most its analysis and *)
(* the retrieval job                                                         *)

Stepped(w) ==
    /\ worker' \in [Workers -> Thread] /\ Others(w)
    /\ worker'[w].task = worker[w].task /\ worker'[w].unit \in Units
    /\ worker[w].at \notin {"idle"} \cup Outcome
    /\ worker[w].at \in SubmitAt   => worker'[w].at \in SubmitAt \cup Outcome
    /\ worker[w].at \in FinalizeAt => worker'[w].at \in FinalizeAt \cup Outcome
                                      /\ worker'[w].unit = worker[w].unit
    /\ worker[w].at \in RetrieveAt => worker'[w].at \in RetrieveAt \cup Outcome
                                      /\ worker'[w].unit = worker[w].unit
Silent(w) == worker[w].at # "record" /\ worker'[w].at # "record"

Wrote(w) ==
    /\ analysis' \in [Units -> Analysis]
    /\ \A u \in Units :
          /\ analysis'[u].deleted = analysis[u].deleted
          /\ analysis'[u].irpId # analysis[u].irpId =>
                 analysis'[u].irpId # 0 /\ Finished(u, analysis'[u].irpId)
          /\ analysis[u].status # "none" => analysis'[u].status # "none"
          /\ irpJobs[u] = <<>> => analysis'[u].status \in {"none", "pending"}
    /\ worker'[w].at \in {"submit"} \cup Outcomes => analysis'[worker'[w].unit].status # "none"
    /\ worker'[w].at \in {"metadata", "ready", "chain"} => analysis'[worker'[w].unit].irpId # 0
    /\ worker'[w].at # "mark_error"

Queued ==
    /\ task' \in [Tasks -> TaskStatus] /\ task'[Batch] = task[Batch]
    /\ \A u \in Units, i \in JobIndex : task'[Finalize(u, i)] = task[Finalize(u, i)]

InBody ==
    Typed /\ Placed /\ Staffed /\ FinishedFirst /\ RetryHeld
          /\ RowsFollow /\ Deleting /\ Deleted

LEMMA BodySteps ==
    ASSUME Inductive, NEW w \in Workers, Stepped(w), Wrote(w), Queued,
           runs' \in [Units -> Nat], spent' \in Budget, spent'.stalls = spent.stalls,
           UNCHANGED <<irpJobs, poller, deleter, rmLive>>
    PROVE  InBody'
<1>1. Typed'
  BY DEF Inductive, Typed, Stepped, Wrote, Queued
<1>2. \A v \in Workers : worker'[v].task = worker[v].task
  BY DEF Stepped, Others
<1>3. Placed'
  <2>1. \A v \in Workers \ {w} : worker'[v] = worker[v]
    BY DEF Stepped, Others
  <2>2. worker[w] \in Thread /\ worker'[w] \in Thread
    BY DEF Inductive, Typed, Stepped
  <2>3. worker'[w].at \in SubmitAt \cup FinalizeAt \cup RetrieveAt \cup Outcome
    BY <2>2 DEF Stepped, Thread, WorkerAt, FinalizeAt, RetrieveAt
  <2>4. worker'[w].at # "idle" /\ worker'[w].unit \in Units /\ worker'[w].task \in Tasks
    BY <2>3 DEF Stepped, Inductive, Placed, SubmitAt, FinalizeAt, RetrieveAt, Outcome
  <2>5. worker'[w].at \in SubmitAt => worker[w].at \in SubmitAt
    BY <2>2 DEF Stepped, Thread, WorkerAt, SubmitAt, FinalizeAt, RetrieveAt, Outcome
  <2>6. worker'[w].at \in FinalizeAt => worker[w].at \in FinalizeAt /\ worker'[w].unit = worker[w].unit
    BY <2>2 DEF Stepped, Thread, WorkerAt, SubmitAt, FinalizeAt, RetrieveAt, Outcome
  <2>7. worker'[w].at \in RetrieveAt => worker[w].at \in RetrieveAt /\ worker'[w].unit = worker[w].unit
    BY <2>2 DEF Stepped, Thread, WorkerAt, SubmitAt, FinalizeAt, RetrieveAt, Outcome
  <2> QED
    BY <1>2, <2>1, <2>4, <2>5, <2>6, <2>7 DEF Inductive, Placed
<1>4. Staffed'
  BY <1>2, StaffedKeeps DEF Inductive, SameJob, Queued
<1>5. FinishedFirst'
  <2>1. \A u \in Units, i \in JobIndex : Finished(u, i)' <=> Finished(u, i)
    BY DEF Finished
  <2>2. \A u \in Units : \A i \in DOMAIN irpJobs[u] : Finished(u, i)' <=> Finished(u, i)
    BY DEF Finished
  <2>3. ASSUME NEW u \in Units, analysis'[u].irpId # 0
        PROVE  Finished(u, analysis[u].irpId)'
    <3>1. Finished(u, analysis'[u].irpId)
      BY <2>3 DEF Inductive, FinishedFirst, Wrote
    <3> QED
      BY <3>1 DEF Finished
  <2> QED
    BY <1>2, <2>1, <2>2, <2>3 DEF Inductive, FinishedFirst, Queued
<1>6. RetryHeld'
  BY DEF Inductive, RetryHeld
<1>7. RowsFollow'
  <2>1. \A v \in Workers \ {w} : worker'[v] = worker[v]
    BY DEF Stepped, Others
  <2>2. \A u \in Units : analysis[u].irpId # 0 => analysis'[u].irpId # 0
    BY DEF Wrote
  <2>3. \A u \in Units : analysis[u].status # "none" => analysis'[u].status # "none"
    BY DEF Wrote
  <2>4. \A u \in Units : irpJobs[u] = <<>> =>
            analysis'[u].status \in {"none", "pending"} /\ ~ analysis'[u].deleted
    BY DEF Inductive, RowsFollow, Wrote
  <2>5. /\ worker'[w].at # "mark_error"
        /\ worker'[w].at \in {"submit"} \cup Outcomes => analysis'[worker'[w].unit].status # "none"
        /\ worker'[w].at \in {"metadata", "ready", "chain"} => analysis'[worker'[w].unit].irpId # 0
    BY DEF Wrote
  <2> QED
    BY <2>1, <2>2, <2>3, <2>4, <2>5 DEF Inductive, RowsFollow
<1>8. Deleting'
  BY DEF Inductive, Deleting, OneJob, Only, Ended
<1>9. Deleted'
  BY DEF Inductive, Deleted, OneJob, Only, Ended, Wrote
<1> QED
  BY <1>1, <1>3, <1>4, <1>5, <1>6, <1>7, <1>8, <1>9 DEF InBody

\* ... and nobody hears of a run.
LEMMA ThreadSteps ==
    ASSUME Inductive, NEW w \in Workers, Stepped(w), Silent(w), Wrote(w), Queued,
           UNCHANGED <<irpJobs, poller, deleter, rmLive, runs, spent>>
    PROVE  InBody' /\ RunsCounted'
<1>1. InBody'
  BY BodySteps DEF Inductive, Typed
<1>2. \A u \in Units : \A v \in Workers : Hears(v, u)' <=> Hears(v, u)
  BY DEF Hears, Stepped, Silent, Others
<1>3. \A u \in Units : Accepted(u)' = Accepted(u)
  BY DEF Accepted
<1>4. \A u \in Units : RetryHeard(u)' = RetryHeard(u)
  BY DEF RetryHeard
<1>5. spent.crashes \in Nat /\ spent.lost \in Nat
  BY DEF Inductive, Typed, Budget
<1>6. Typed'
  BY <1>1 DEF InBody
<1> QED
  BY <1>1, <1>2, <1>3, <1>4, <1>5, <1>6, RunsCountedKeeps DEF Inductive

\* A thread that is to mark its analysis was there before.
LEMMA StillMarking ==
    ASSUME NEW w \in Workers, Others(w), worker'[w].at # "mark_error",
           UNCHANGED <<irpJobs, poller>>
    PROVE  \A u \in Units : MarkingAlone(u) => MarkingAlone(u)'
<1>1. \A v \in Workers : worker'[v].at = "mark_error" => worker'[v] = worker[v]
  BY DEF Others
<1> QED
  BY <1>1 DEF MarkingAlone, Only

\* What a step that writes no analysis leaves to show.
LEMMA QuietSteps ==
    ASSUME Inductive, NEW w \in Workers, Stepped(w), Silent(w), Queued, worker'[w].at # "mark_error",
           worker'[w].at \in {"submit"} \cup Outcomes => analysis[worker'[w].unit].status # "none",
           worker'[w].at \in {"metadata", "ready", "chain"} => analysis[worker'[w].unit].irpId # 0,
           JobsCounted',
           UNCHANGED <<analysis, irpJobs, poller, deleter, rmLive, runs, spent>>
    PROVE  Inductive'
<1>1. Wrote(w)
  BY DEF Wrote, Inductive, Typed, RowsFollow
<1>2. \A u \in Units : MarkingAlone(u) => MarkingAlone(u)'
  BY StillMarking DEF Stepped
<1>3. OnlyJob'
  <2>1. \A u \in Units : PendingFirst(u)' <=> PendingFirst(u)
    BY DEF PendingFirst, Only
  <2>2. \A u \in Units : PointedFirst(u)' <=> PointedFirst(u)
    BY DEF PointedFirst, Only
  <2>3. \A u \in Units : OneJob(u)' <=> OneJob(u)
    BY DEF OneJob
  <2> QED
    BY <1>2, <2>1, <2>2, <2>3 DEF Inductive, OnlyJob
<1> QED
  BY <1>1, <1>3, ThreadSteps DEF InBody, Inductive

\* No thread comes to submit a unit.
LEMMA NoNewSubmitter ==
    ASSUME Inductive, Typed', NEW w \in Workers, Others(w),
           worker'[w].at \in SubmittingAt =>
               worker[w].at \in SubmittingAt /\ worker'[w].unit = worker[w].unit,
           UNCHANGED <<irpJobs, spent>>
    PROVE  JobsCounted'
<1>1. \A u \in Units : \A v \in Workers : Submits1(v, u)' => Submits1(v, u)
  BY DEF Submits1, Others
<1>2. spent.stalls \in Nat /\ spent \in Budget
  BY DEF Inductive, Typed, Budget
<1> QED
  BY <1>1, <1>2, JobsCountedKeeps DEF Inductive, Typed

-----------------------------------------------------------------------------
(* execute_analysis_batch *)

\* A thread in the batch submits a unit of the plan.
LEMMA Submitter ==
    ASSUME Inductive, NEW w \in Workers, worker[w].at \in SubmitAt
    PROVE  worker[w].unit \in Units /\ worker[w].task = Batch
BY DEF Inductive, Placed, SubmitAt

LEMMA CountJobsKeeps ==
    ASSUME Inductive, NEW w \in Workers, CountJobs(w)
    PROVE  Inductive'
<1>1. worker[w].at = "count" /\ worker[w].unit \in Units /\ worker[w].task = Batch
  BY Submitter DEF CountJobs, SubmitAt
<1>2. UNCHANGED <<analysis, irpJobs, task, poller, deleter, rmLive, runs, spent>>
  BY DEF CountJobs
<1>3. worker \in [Workers -> Thread] /\ task \in [Tasks -> TaskStatus]
  BY DEF Inductive, Typed
<1>4. CASE irpJobs[worker[w].unit] # <<>>
  <2>1. NextUnit(w, TRUE)
    BY <1>4 DEF CountJobs
  <2>2. /\ worker' \in [Workers -> Thread] /\ Others(w)
        /\ worker'[w].task = worker[w].task /\ worker'[w].unit \in Units
        /\ worker'[w].at \in {"count"} \cup Outcome
    BY <1>1, <1>3, <2>1, NextUnits
  <2>3. Stepped(w) /\ Silent(w) /\ Queued
    BY <1>1, <1>2, <1>3, <2>2 DEF Stepped, Silent, Queued, SubmitAt, FinalizeAt, RetrieveAt, Outcome
  <2>4. JobsCounted'
    <3>1. worker'[w].at \notin SubmittingAt
      BY <2>2 DEF SubmittingAt, Outcomes, Outcome
    <3>2. Typed'
      BY <1>2, <2>2 DEF Inductive, Typed
    <3> QED
      BY <1>2, <2>2, <3>1, <3>2, NoNewSubmitter
  <2> QED
    BY <1>2, <2>2, <2>3, <2>4, QuietSteps DEF Outcomes, Outcome
<1>5. CASE irpJobs[worker[w].unit] = <<>>
  <2>1. Go(w, "select")
    BY <1>5 DEF CountJobs
  <2>2. Moved(w, "select")
    BY <1>3, <2>1, Goes DEF WorkerAt, SubmitAt
  <2>3. Stepped(w) /\ Silent(w) /\ Queued
    BY <1>1, <1>2, <1>3, <2>2 DEF Moved, Stepped, Silent, Queued, SubmitAt, FinalizeAt, RetrieveAt, Outcome
  <2>4. JobsCounted'
    <3> SUFFICES ASSUME NEW u \in Units
                 PROVE  Len(irpJobs[u]) + Cardinality(Submitting(u))' <= spent.stalls + 1
      BY <1>2 DEF JobsCounted
    <3>1. CASE u = worker[w].unit
      <4>1. Submitting(u)' \subseteq Batching
        BY <1>1, <2>2 DEF Moved, Others, Submitting, SubmittingAt, Outcomes, Batching,
                          Inductive, Placed, SubmitAt
      <4>2. Cardinality(Submitting(u))' <= Cardinality(Batching)
        BY <4>1, Counts, NoMore DEF ThreadsCounted
      <4>3. Len(irpJobs[u]) = 0 /\ spent.stalls \in Nat
        BY <1>5, <3>1 DEF Inductive, Typed, Budget
      <4>4. Cardinality(Batching) <= spent.stalls + 1
        BY DEF Inductive, Staffed
      <4>5. Cardinality(Batching) \in Nat /\ Cardinality(Submitting(u))' \in Nat
        BY Counts, NextCounts DEF ThreadsCounted
      <4> QED
        BY <4>2, <4>3, <4>4, <4>5
    <3>2. CASE u # worker[w].unit
      <4>1. Submitting(u)' = Submitting(u)
        BY <1>1, <2>2, <3>2 DEF Moved, Others, Submitting
      <4> QED
        BY <4>1 DEF Inductive, JobsCounted
    <3> QED
      BY <3>1, <3>2
  <2> QED
    BY <1>2, <2>2, <2>3, <2>4, QuietSteps DEF Moved, Outcomes
<1> QED
  BY <1>4, <1>5

LEMMA SelectAnalysisKeeps ==
    ASSUME Inductive, NEW w \in Workers, SelectAnalysis(w)
    PROVE  Inductive'
<1>1. worker[w].at = "select" /\ worker[w].unit \in Units /\ worker[w].task = Batch
  BY Submitter DEF SelectAnalysis, SubmitAt
<1>2. UNCHANGED <<analysis, irpJobs, task, poller, deleter, rmLive, runs, spent>>
  BY DEF SelectAnalysis
<1>3. PICK at \in {"insert", "submit"} :
          Go(w, at) /\ (at = "submit" => analysis[worker[w].unit].status # "none")
  BY DEF SelectAnalysis
<1>4. Moved(w, at)
  BY <1>3, Goes DEF Inductive, Typed, WorkerAt, SubmitAt
<1>5. Stepped(w) /\ Silent(w) /\ Queued
  BY <1>1, <1>2, <1>3, <1>4 DEF Moved, Stepped, Silent, Queued, SubmitAt, FinalizeAt, RetrieveAt, Outcome,
                             Inductive, Typed
<1>6. JobsCounted'
  <2>1. Typed' /\ Others(w)
    BY <1>2, <1>4 DEF Inductive, Typed, Moved
  <2> QED
    BY <1>1, <1>2, <1>4, <2>1, NoNewSubmitter DEF Moved, SubmittingAt
<1> QED
  BY <1>2, <1>3, <1>4, <1>5, <1>6, QuietSteps DEF Moved, Outcomes

LEMMA InsertAnalysisKeeps ==
    ASSUME Inductive, NEW w \in Workers, InsertAnalysis(w)
    PROVE  Inductive'
<1>1. worker[w].at = "insert" /\ worker[w].unit \in Units /\ worker[w].task = Batch
  BY Submitter DEF InsertAnalysis, SubmitAt
<1>2. UNCHANGED <<irpJobs, task, poller, deleter, rmLive, runs, spent>>
  BY DEF InsertAnalysis
<1>3. PICK at \in {"submit", "raised"} : Go(w, at)
  BY DEF InsertAnalysis
<1>4. Moved(w, at)
  BY <1>3, Goes DEF Inductive, Typed, WorkerAt, SubmitAt, Outcome
<1>5. Stepped(w) /\ Silent(w) /\ Queued
  BY <1>1, <1>2, <1>3, <1>4 DEF Moved, Stepped, Silent, Queued, SubmitAt, FinalizeAt, RetrieveAt, Outcome,
                             Inductive, Typed
<1>6. JobsCounted'
  <2>1. analysis' \in [Units -> Analysis]
    BY <1>1, StatusSets DEF InsertAnalysis, Inductive, Typed, StatusSet
  <2>2. Typed' /\ Others(w)
    BY <1>2, <1>4, <2>1 DEF Inductive, Typed, Moved
  <2> QED
    BY <1>1, <1>2, <1>3, <1>4, <2>2, NoNewSubmitter DEF Moved, SubmittingAt
<1>7. CASE analysis[worker[w].unit].status = "none"
  <2>1. analysis' = [analysis EXCEPT ![worker[w].unit].status = "pending"] /\ Go(w, "submit")
    BY <1>7 DEF InsertAnalysis
  <2>2. worker'[w].at = "submit" /\ worker'[w].unit = worker[w].unit /\ Others(w)
    BY <2>1, Goes DEF Inductive, Typed, WorkerAt, SubmitAt, Moved
  <2>3. StatusSet(worker[w].unit, "pending")
    BY <1>1, <2>1, StatusSets DEF Inductive, Typed
  <2>4. Wrote(w)
    BY <1>1, <2>2, <2>3 DEF Wrote, StatusSet, Inductive, RowsFollow, Outcomes
  <2>5. OnlyJob'
    <3>1. \A u \in Units : MarkingAlone(u) => MarkingAlone(u)'
      BY <1>2, <2>2, StillMarking
    <3>2. \A u \in Units : PendingFirst(u) => PendingFirst(u)'
      BY <1>2, <2>3 DEF PendingFirst, Only, StatusSet
    <3>3. \A u \in Units : PointedFirst(u) => PointedFirst(u)'
      BY <1>2, <2>3 DEF PointedFirst, Only, StatusSet
    <3>4. \A u \in Units : OneJob(u)' <=> OneJob(u)
      BY <1>2 DEF OneJob
    <3> QED
      BY <3>1, <3>2, <3>3, <3>4 DEF Inductive, OnlyJob
  <2> QED
    BY <1>2, <1>5, <1>6, <2>4, <2>5, ThreadSteps DEF InBody, Inductive
<1>8. CASE analysis[worker[w].unit].status # "none"
  <2>1. Go(w, "raised") /\ UNCHANGED analysis
    BY <1>8 DEF InsertAnalysis
  <2>2. worker'[w].at = "raised"
    BY <2>1, Goes DEF Inductive, Typed, WorkerAt, Outcome, Moved
  <2> QED
    BY <1>2, <1>5, <1>6, <2>1, <2>2, QuietSteps DEF Outcomes
<1> QED
  BY <1>7, <1>8

\* What a submit leaves: a run heard of, or not, and one more that is lost.
Submitted(u, at, n) ==
    /\ runs' \in [Units -> Nat] /\ \A v \in Units \ {u} : runs'[v] = runs[v]
    /\ runs'[u] = runs[u] + (IF at = "record" THEN 1 ELSE 0) + n
    /\ spent' \in Budget /\ spent'.lost = spent.lost + n
    /\ spent'.crashes = spent.crashes /\ spent'.stalls = spent.stalls

LEMMA SubmitEffect ==
    ASSUME runs \in [Units -> Nat], spent \in Budget, NEW u \in Units, NEW at \in Outcomes,
           Submits(u, at)
    PROVE  \E n \in {0, 1} : Submitted(u, at, n)
<1>. DEFINE heard == IF at = "record" THEN 1 ELSE 0
<1>1. heard \in Nat
  OBVIOUS
<1>2. CASE runs' = [runs EXCEPT ![u] = @ + heard] /\ UNCHANGED spent
  <2>1. Submitted(u, at, 0)
    BY <1>1, <1>2 DEF Submitted, Budget
  <2> QED
    BY <2>1
<1>3. CASE runs' = [runs EXCEPT ![u] = @ + heard + 1] /\ Spend("lost")
  <2>1. /\ spent' \in Budget /\ spent'.lost = spent.lost + 1
        /\ spent'.crashes = spent.crashes /\ spent'.stalls = spent.stalls
    BY <1>3 DEF Spend, Budget
  <2>2. Submitted(u, at, 1)
    BY <1>1, <1>3, <2>1 DEF Submitted
  <2> QED
    BY <2>2
<1> QED
  BY <1>2, <1>3 DEF Submits

LEMMA SubmitUnitKeeps ==
    ASSUME Inductive, NEW w \in Workers, SubmitUnit(w)
    PROVE  Inductive'
<1>. DEFINE u == worker[w].unit
<1>1. worker[w].at = "submit" /\ u \in Units /\ worker[w].task = Batch
  BY Submitter DEF SubmitUnit, SubmitAt
<1>2. UNCHANGED <<analysis, irpJobs, task, poller, deleter, rmLive>>
  BY DEF SubmitUnit
<1>3. PICK at \in Outcomes : Go(w, at) /\ Submits(u, at)
  BY DEF SubmitUnit
<1>4. Moved(w, at)
  BY <1>3, Goes DEF Inductive, Typed, WorkerAt, SubmitAt, Outcomes
<1>5. PICK n \in {0, 1} : Submitted(u, at, n)
  BY <1>1, <1>3, SubmitEffect DEF Inductive, Typed
<1>6. Stepped(w)
  BY <1>1, <1>4 DEF Moved, Stepped, SubmitAt, FinalizeAt, RetrieveAt, Outcome, Outcomes
<1>7. Queued
  BY <1>2 DEF Queued, Inductive, Typed
<1>8. analysis[u].status # "none" /\ at # "mark_error"
  BY <1>1, <1>3 DEF Inductive, RowsFollow, Outcomes
<1>9. Wrote(w)
  BY <1>1, <1>2, <1>3, <1>4, <1>8 DEF Wrote, Moved, Inductive, Typed, RowsFollow, Outcomes
<1>10. InBody'
  BY <1>2, <1>5, <1>6, <1>7, <1>9, BodySteps DEF Submitted
<1>11. JobsCounted'
  <2>1. \A v \in Units : \A x \in Workers : Submits1(x, v)' => Submits1(x, v)
    BY <1>1, <1>4 DEF Submits1, Moved, Others, SubmittingAt
  <2>2. spent'.stalls >= spent.stalls /\ spent' \in Budget /\ spent \in Budget
    BY <1>5 DEF Submitted, Inductive, Typed, Budget
  <2> QED
    BY <1>2, <2>1, <2>2, JobsCountedKeeps DEF Inductive, Typed
<1>12. RunsCounted'
  <2>1. ASSUME NEW v \in Units
        PROVE  runs'[v] + Known(v) <= runs[v] + Known(v)'
    <3>1. Accepted(v)' = Accepted(v) /\ RetryHeard(v)' = RetryHeard(v)
      BY <1>2 DEF Accepted, RetryHeard
    <3>2. /\ Cardinality(Accepted(v)) \in Nat /\ Cardinality(Heard(v)) \in Nat
          /\ RetryHeard(v) \in {0, 1} /\ runs[v] \in Nat
          /\ Cardinality(Heard(v))' \in Nat /\ IsFiniteSet(Heard(v))
      BY Counts, NextCounts, RowCounts, KnownType
         DEF Inductive, Typed, Counted, ThreadsCounted, KnownTyped
    <3>3. /\ spent.crashes \in Nat /\ spent.lost \in Nat
          /\ spent'.crashes = spent.crashes /\ spent'.lost = spent.lost + n
      BY <1>5 DEF Submitted, Inductive, Typed, Budget
    <3>4. CASE v = u /\ at = "record"
      <4>1. Heard(v)' = Heard(v) \cup {w} /\ w \notin Heard(v)
        BY <1>1, <1>4, <3>4 DEF Heard, Moved, Others
      <4>2. Cardinality(Heard(v))' = Cardinality(Heard(v)) + 1
        BY <3>2, <4>1, OneMore
      <4>3. runs'[v] = runs[v] + 1 + n
        BY <1>5, <3>4 DEF Submitted
      <4> QED
        BY <3>1, <3>2, <3>3, <4>2, <4>3, <1>5 DEF Known
    <3>5. CASE v # u \/ at # "record"
      <4>1. Heard(v)' = Heard(v)
        BY <1>1, <1>4, <3>5 DEF Heard, Moved, Others
      <4>2. runs'[v] <= runs[v] + n
        BY <1>5, <3>2, <3>5 DEF Submitted
      <4>3. runs'[v] \in Nat
        BY <1>5 DEF Submitted
      <4> QED
        BY <3>1, <3>2, <3>3, <4>1, <4>2, <4>3, <1>5 DEF Known
    <3> QED
      BY <3>4, <3>5
  <2> QED
    BY <1>10, <2>1, RunsBalance DEF Inductive, InBody
<1>13. OnlyJob'
  <2>1. \A v \in Units : MarkingAlone(v) => MarkingAlone(v)'
    BY <1>2, <1>4, <1>8, StillMarking DEF Moved
  <2>2. \A v \in Units : PendingFirst(v) <=> PendingFirst(v)'
    BY <1>2 DEF PendingFirst, Only
  <2>3. \A v \in Units : PointedFirst(v) <=> PointedFirst(v)'
    BY <1>2 DEF PointedFirst, Only
  <2>4. \A v \in Units : OneJob(v)' <=> OneJob(v)
    BY <1>2 DEF OneJob
  <2> QED
    BY <2>1, <2>2, <2>3, <2>4 DEF Inductive, OnlyJob
<1> QED
  BY <1>10, <1>11, <1>12, <1>13 DEF Inductive, InBody

\* One irp_job is added to the rows of u.
Added(u, st) ==
    /\ irpJobs' \in [Units -> Seq(IrpJob)]
    /\ \A v \in Units \ {u} : irpJobs'[v] = irpJobs[v]
    /\ Len(irpJobs'[u]) = Len(irpJobs[u]) + 1
    /\ DOMAIN irpJobs'[u] = 1..Len(irpJobs[u]) + 1
    /\ \A k \in DOMAIN irpJobs[u] : irpJobs'[u][k] = irpJobs[u][k]
    /\ irpJobs'[u][Len(irpJobs[u]) + 1].status = st
    /\ irpJobs'[u][Len(irpJobs[u]) + 1].named = FALSE

\* Whatever the outcome, the thread is done submitting when it has recorded it.
LEMMA RecordEffect ==
    ASSUME Inductive, NEW w \in Workers, RecordSubmit(w)
    PROVE  \E st \in {"QUEUED", "SUBMISSION_FAILED"} :
              /\ Added(worker[w].unit, st) /\ Stepped(w)
              /\ worker'[w].at \in {"count", "mark_error"} \cup Outcome
              /\ worker'[w].at = "mark_error" =>
                     st = "SUBMISSION_FAILED" /\ worker'[w].unit = worker[w].unit
              /\ worker[w].at = "record" => st = "QUEUED"
              /\ worker[w].at # "record" => st = "SUBMISSION_FAILED"
<1>. DEFINE u == worker[w].unit
<1>1. worker[w].at \in Outcomes /\ u \in Units /\ worker[w].task = Batch
  BY Submitter DEF RecordSubmit, SubmitAt, Outcomes
<1>2. irpJobs \in [Units -> Seq(IrpJob)] /\ worker \in [Workers -> Thread]
  BY DEF Inductive, Typed
<1>3. ASSUME NEW st \in JobStatus, NEW n \in Nat, AddJob(u, st, n)
      PROVE  Added(u, st)
  BY <1>1, <1>2, <1>3, JobAdds DEF Added
<1>4. ASSUME NEW good \in BOOLEAN, NextUnit(w, good)
      PROVE  Stepped(w) /\ worker'[w].at \in {"count"} \cup Outcome
  <2>1. /\ worker' \in [Workers -> Thread] /\ Others(w)
        /\ worker'[w].task = worker[w].task /\ worker'[w].unit \in Units
        /\ worker'[w].at \in {"count"} \cup Outcome
    BY <1>1, <1>2, <1>4, NextUnits
  <2> QED
    BY <1>1, <2>1 DEF Stepped, SubmitAt, FinalizeAt, RetrieveAt, Outcome, Outcomes
<1>5. CASE worker[w].at = "record" /\ AddJob(u, "QUEUED", 0) /\ NextUnit(w, TRUE)
  BY <1>3, <1>4, <1>5 DEF JobStatus, Outcome
<1>6. CASE worker[w].at = "record_failure" /\ AddJob(u, "SUBMISSION_FAILED", 1) /\ NextUnit(w, FALSE)
  BY <1>3, <1>4, <1>6 DEF JobStatus, Outcome
<1>7. CASE worker[w].at = "record_rejection" /\ AddJob(u, "SUBMISSION_FAILED", 1) /\ Go(w, "mark_error")
  <2>1. Moved(w, "mark_error")
    BY <1>2, <1>7, Goes DEF WorkerAt, SubmitAt
  <2>2. Stepped(w)
    BY <1>1, <2>1 DEF Moved, Stepped, SubmitAt, FinalizeAt, RetrieveAt, Outcome, Outcomes
  <2>3. Added(u, "SUBMISSION_FAILED")
    BY <1>3, <1>7 DEF JobStatus
  <2> QED
    BY <1>7, <2>1, <2>2, <2>3 DEF Moved
<1> QED
  BY <1>5, <1>6, <1>7 DEF RecordSubmit

LEMMA RecordSubmitKeeps ==
    ASSUME Inductive, NEW w \in Workers, RecordSubmit(w)
    PROVE  Inductive'
<1>0. PICK u \in Units : u = worker[w].unit
  BY Submitter DEF RecordSubmit, SubmitAt, Outcomes
<1>1. worker[w].at \in Outcomes /\ worker[w].unit = u /\ worker[w].task = Batch
  BY <1>0, Submitter DEF RecordSubmit, SubmitAt, Outcomes
<1>2. UNCHANGED <<analysis, task, poller, deleter, rmLive, runs, spent>>
  BY DEF RecordSubmit
<1>3. PICK st \in {"QUEUED", "SUBMISSION_FAILED"} :
              /\ Added(u, st) /\ Stepped(w)
              /\ worker'[w].at \in {"count", "mark_error"} \cup Outcome
              /\ worker'[w].at = "mark_error" =>
                     st = "SUBMISSION_FAILED" /\ worker'[w].unit = worker[w].unit
              /\ worker[w].at = "record" => st = "QUEUED"
              /\ worker[w].at # "record" => st = "SUBMISSION_FAILED"
  BY <1>0, RecordEffect
<1>4. /\ worker' \in [Workers -> Thread] /\ \A v \in Workers \ {w} : worker'[v] = worker[v]
      /\ worker'[w].task = Batch /\ worker'[w].unit \in Units
  BY <1>1, <1>3 DEF Stepped, Others
<1>5. /\ irpJobs \in [Units -> Seq(IrpJob)] /\ Rows
      /\ Len(irpJobs[u]) \in Nat /\ DOMAIN irpJobs[u] = 1..Len(irpJobs[u])
  BY RowFacts DEF Inductive, Typed, Rows
<1>. PICK new \in Nat : new = Len(irpJobs[u]) + 1
  BY <1>5
<1>6. /\ irpJobs' \in [Units -> Seq(IrpJob)]
      /\ \A v \in Units \ {u} : irpJobs'[v] = irpJobs[v]
      /\ Len(irpJobs'[u]) = new /\ DOMAIN irpJobs'[u] = 1..new
      /\ \A k \in DOMAIN irpJobs[u] : irpJobs'[u][k] = irpJobs[u][k]
      /\ irpJobs'[u][new].status = st /\ irpJobs'[u][new].named = FALSE /\ Rows'
  BY <1>3, <1>5, NextRowFacts DEF Added
<1>7. \A v \in Units : \A k \in DOMAIN irpJobs[v] :
          k \in DOMAIN irpJobs'[v] /\ irpJobs'[v][k] = irpJobs[v][k]
  <2>1. \A k \in DOMAIN irpJobs[u] : k \in DOMAIN irpJobs'[u] /\ irpJobs'[u][k] = irpJobs[u][k]
    BY <1>5, <1>6
  <2> QED
    BY <1>6, <2>1
<1>8. Typed'
  BY <1>2, <1>4, <1>6 DEF Inductive, Typed
<1>9. Placed'
  <2>1. /\ worker'[w].at # "idle" /\ worker'[w].at \notin FinalizeAt
        /\ worker'[w].at \notin RetrieveAt /\ worker'[w].task \in Tasks
    BY <1>3, <1>4, TaskFacts DEF FinalizeAt, RetrieveAt, Outcome
  <2> QED
    BY <1>4, <2>1 DEF Inductive, Placed
<1>10. Staffed'
  BY <1>1, <1>2, <1>4, StaffedKeeps DEF SameJob, Inductive
<1>11. \A v \in Units : OneJob(v)' =>
           \/ v # u /\ OneJob(v) /\ irpJobs'[v] = irpJobs[v]
           \/ v = u /\ irpJobs[u] = <<>> /\ new = 1
  BY <1>5, <1>6 DEF OneJob, Rows
<1>12. JobsCounted'
  <2> SUFFICES ASSUME NEW v \in Units
               PROVE  Len(irpJobs'[v]) + Cardinality(Submitting(v))' <= spent.stalls + 1
    BY <1>2 DEF JobsCounted
  <2>1. w \notin Submitting(v)'
    BY <1>3 DEF Submitting, SubmittingAt, Outcomes, Outcome
  <2>2. Submitting(v)' \subseteq Submitting(v) \ {w}
    BY <1>4, <2>1 DEF Submitting
  <2>3. /\ Len(irpJobs[v]) + Cardinality(Submitting(v)) <= spent.stalls + 1
        /\ Len(irpJobs[v]) \in Nat /\ spent.stalls \in Nat
    BY DEF Inductive, JobsCounted, Typed, Budget
  <2>4. /\ Cardinality(Submitting(v)) \in Nat /\ Cardinality(Submitting(v))' \in Nat
        /\ IsFiniteSet(Submitting(v))
    BY Counts, NextCounts DEF ThreadsCounted
  <2>5. CASE v = u
    <3>1. w \in Submitting(v)
      BY <1>1, <2>5 DEF Submitting, SubmittingAt
    <3>2. Cardinality(Submitting(v))' + 1 <= Cardinality(Submitting(v))
      BY <2>2, <2>4, <3>1, OneLess
    <3> QED
      BY <1>6, <2>3, <2>4, <2>5, <3>2
  <2>6. CASE v # u
    <3>1. Cardinality(Submitting(v))' <= Cardinality(Submitting(v))
      BY <2>2, <2>4, NoMore
    <3> QED
      BY <1>6, <2>3, <2>4, <2>6, <3>1
  <2> QED
    BY <2>5, <2>6
<1>13. RunsCounted'
  <2>1. ASSUME NEW v \in Units
        PROVE  runs'[v] + Known(v) <= runs[v] + Known(v)'
    <3>1. RetryHeard(v)' = RetryHeard(v) /\ runs'[v] = runs[v]
      BY <1>2 DEF RetryHeard
    <3>2. /\ Cardinality(Accepted(v)) \in Nat /\ Cardinality(Heard(v)) \in Nat
          /\ Cardinality(Accepted(v))' \in Nat /\ Cardinality(Heard(v))' \in Nat
          /\ RetryHeard(v) \in {0, 1} /\ runs[v] \in Nat
          /\ IsFiniteSet(Heard(v))' /\ IsFiniteSet(Accepted(v))
      BY <1>6, Counts, NextCounts, RowCounts, NextRowCounts, KnownType
         DEF Inductive, Typed, Counted, ThreadsCounted, KnownTyped
    <3>3. /\ spent.crashes \in Nat /\ spent.lost \in Nat
          /\ spent'.crashes = spent.crashes /\ spent'.lost = spent.lost
      BY <1>2 DEF Inductive, Typed, Budget
    <3>4. CASE v = u /\ worker[w].at = "record"
      <4>1. Heard(v) = Heard(v)' \cup {w} /\ w \notin Heard(v)'
        BY <1>1, <1>3, <1>4, <3>4 DEF Heard, Outcome
      <4>2. Cardinality(Heard(v)) = Cardinality(Heard(v))' + 1
        BY <3>2, <4>1, OneMore
      <4>3. Accepted(v)' = Accepted(v) \cup {new} /\ new \notin Accepted(v)
        BY <1>3, <1>5, <1>6, <3>4 DEF Accepted, Taken
      <4>4. Cardinality(Accepted(v))' = Cardinality(Accepted(v)) + 1
        BY <3>2, <4>3, OneMore
      <4>5. Known(v)' = Known(v)
        BY <3>1, <3>2, <3>3, <4>2, <4>4 DEF Known
      <4>6. Known(v) \in Nat
        BY KnownType DEF KnownTyped, Inductive
      <4> QED
        BY <3>1, <3>2, <4>5, <4>6
    <3>5. CASE v # u \/ worker[w].at # "record"
      <4>1. Heard(v)' = Heard(v)
        BY <1>1, <1>3, <1>4, <3>5 DEF Heard, Outcome
      <4>2. Accepted(v)' = Accepted(v)
        <5>1. CASE v # u
          BY <1>6, <5>1 DEF Accepted
        <5>2. CASE v = u
          <6>1. irpJobs'[u][new].status \notin Taken
            BY <1>3, <1>6, <3>5, <5>2 DEF Taken
          <6>2. \A k \in DOMAIN irpJobs'[u] : k \in DOMAIN irpJobs[u] \/ k = new
            BY <1>5, <1>6
          <6> QED
            BY <1>7, <5>2, <6>1, <6>2 DEF Accepted
        <5> QED
          BY <5>1, <5>2
      <4> QED
        BY <3>1, <3>2, <3>3, <4>1, <4>2 DEF Known
    <3> QED
      BY <3>4, <3>5
  <2> QED
    BY <1>8, <2>1, RunsBalance DEF Inductive
<1>14. FinishedFirst'
  <2>1. \A v \in Units : \A i : Finished(v, i) => Finished(v, i)'
    BY <1>7 DEF Finished
  <2>2. \A x \in Workers : worker'[x].task = worker[x].task
    BY <1>1, <1>4
  <2>3. \A v \in Units : \A i \in DOMAIN irpJobs'[v] :
            irpJobs'[v][i].named => i \in DOMAIN irpJobs[v] /\ irpJobs[v][i].named
    <3>1. \A i \in DOMAIN irpJobs'[u] : i \in DOMAIN irpJobs[u] \/ i = new
      BY <1>5, <1>6
    <3>2. \A i \in DOMAIN irpJobs'[u] :
              irpJobs'[u][i].named => i \in DOMAIN irpJobs[u] /\ irpJobs[u][i].named
      BY <1>6, <3>1
    <3> QED
      BY <1>6, <3>2
  <2>4. \A v \in Units : \A i \in DOMAIN irpJobs'[v] : irpJobs'[v][i].named => Finished(v, i)'
    BY <2>1, <2>3 DEF Inductive, FinishedFirst
  <2>5. \A v \in Units : analysis'[v].irpId # 0 => Finished(v, analysis[v].irpId)'
    BY <1>2, <2>1 DEF Inductive, FinishedFirst, Finished
  <2> QED
    BY <1>2, <2>1, <2>2, <2>4, <2>5 DEF Inductive, FinishedFirst
<1>15. RetryHeld'
  BY <1>2, <1>7 DEF Inductive, RetryHeld
<1>16. RowsFollow'
  <2>1. worker'[w].at \notin {"submit", "metadata", "ready", "chain"} \cup Outcomes
    BY <1>3 DEF Outcomes, Outcome
  <2>2. \A v \in Units : irpJobs'[v] = <<>> => irpJobs[v] = <<>>
    BY <1>5, <1>6
  <2>3. worker'[w].at = "mark_error" => irpJobs'[worker'[w].unit] # <<>>
    <3>1. irpJobs'[u] # <<>>
      BY <1>5, <1>6 DEF Rows
    <3> QED
      BY <1>1, <1>3, <3>1
  <2>4. \A v \in Units : irpJobs[v] # <<>> => irpJobs'[v] # <<>>
    BY <2>2
  <2> QED
    BY <1>2, <1>4, <2>1, <2>2, <2>3, <2>4 DEF Inductive, RowsFollow
<1>17. OnlyJob'
  <2> SUFFICES ASSUME NEW v \in Units, OneJob(v)'
               PROVE  PendingFirst(v)' /\ MarkingAlone(v)' /\ PointedFirst(v)'
    BY DEF OnlyJob
  <2>1. CASE v # u
    <3>1. PendingFirst(v) /\ MarkingAlone(v) /\ PointedFirst(v) /\ irpJobs'[v] = irpJobs[v]
      BY <1>11, <2>1 DEF Inductive, OnlyJob
    <3>2. MarkingAlone(v)'
      BY <1>1, <1>2, <1>3, <1>4, <2>1, <3>1 DEF MarkingAlone, Only
    <3> QED
      BY <1>2, <3>1, <3>2 DEF PendingFirst, PointedFirst, Only
  <2>2. CASE v = u
    <3>1. irpJobs[u] = <<>> /\ new = 1 /\ Len(irpJobs[u]) = 0
      BY <1>11, <2>2
    <3>2. Only(v)'.status = st /\ Only(v)'.named = FALSE
      BY <1>6, <2>2, <3>1 DEF Only
    <3>3. analysis[u].status = "pending"
      BY <1>1, <3>1 DEF Inductive, RowsFollow, Outcomes
    <3>4. <<u, 1>> \notin poller.todo
      BY <1>1, <1>5, <3>1, ConstantFacts DEF Inductive, RetryHeld
    <3>5. \A x \in Workers \ {w} : ~ (worker[x].at = "mark_error" /\ worker[x].unit = u)
      BY <1>1, <3>1 DEF Inductive, RowsFollow
    <3>6. MarkingAlone(v)'
      BY <1>2, <1>3, <1>4, <2>2, <3>2, <3>4, <3>5 DEF MarkingAlone
    <3> QED
      BY <1>2, <2>2, <3>2, <3>3, <3>6 DEF PendingFirst, PointedFirst
  <2> QED
    BY <2>1, <2>2
<1>18. Deleting'
  <2>1. \A v \in Units : irpJobs[v] # <<>> => irpJobs'[v] # <<>>
    BY <1>5, <1>6 DEF Rows
  <2>2. \A v \in Units : \A k \in DOMAIN irpJobs[v] : k \in DOMAIN irpJobs'[v]
    BY <1>7
  <2>3. \A v \in Units : irpJobs[v] # <<>> /\ OneJob(v)' => OneJob(v) /\ irpJobs'[v] = irpJobs[v]
    BY <1>11
  <2>4. \A v \in Units : irpJobs[v] # <<>> /\ OneJob(v)' => Only(v)' = Only(v) /\ Ended(v)' = Ended(v)
    BY <2>3 DEF Only, Ended
  <2> QED
    BY <1>2, <2>1, <2>2, <2>3, <2>4 DEF Inductive, Deleting
<1>19. Deleted'
  <2> SUFFICES ASSUME NEW v \in Units, analysis[v].deleted, OneJob(v)'
               PROVE  /\ Ended(v)' \/ Only(v)'.status = "SUBMISSION_FAILED"
                      /\ Only(v)'.named => <<v, 1>> \notin rmLive
    BY <1>2 DEF Deleted
  <2>1. irpJobs[v] # <<>>
    BY DEF Inductive, RowsFollow
  <2>2. OneJob(v) /\ irpJobs'[v] = irpJobs[v]
    BY <1>11, <2>1
  <2> QED
    BY <2>2 DEF Inductive, Deleted, Ended, Only
<1> QED
  BY <1>8, <1>9, <1>10, <1>12, <1>13, <1>14, <1>15, <1>16, <1>17, <1>18, <1>19 DEF Inductive

LEMMA MarkErrorKeeps ==
    ASSUME Inductive, NEW w \in Workers, MarkError(w)
    PROVE  Inductive'
<1>0. PICK u \in Units : u = worker[w].unit
  BY Submitter DEF MarkError, SubmitAt
<1>1. worker[w].at = "mark_error" /\ worker[w].unit = u /\ worker[w].task = Batch
  BY <1>0, Submitter DEF MarkError, SubmitAt
<1>2. UNCHANGED <<irpJobs, task, poller, deleter, rmLive, runs, spent>>
  BY DEF MarkError
<1>3. /\ worker' \in [Workers -> Thread] /\ Others(w)
      /\ worker'[w].task = worker[w].task /\ worker'[w].unit \in Units
      /\ worker'[w].at \in {"count"} \cup Outcome
  BY <1>1, NextUnits DEF MarkError, Inductive, Typed
<1>4. StatusSet(u, "error")
  BY <1>1, StatusSets DEF MarkError, Inductive, Typed
<1>5. Stepped(w) /\ Silent(w) /\ Queued
  BY <1>1, <1>2, <1>3 DEF Stepped, Silent, Queued, SubmitAt, FinalizeAt, RetrieveAt, Outcome,
                          Inductive, Typed
<1>6. irpJobs[u] # <<>>
  BY <1>1 DEF Inductive, RowsFollow
<1>7. Wrote(w)
  BY <1>3, <1>4, <1>6 DEF Wrote, StatusSet, Outcome, Outcomes, Inductive, RowsFollow
<1>8. JobsCounted'
  <2>1. Typed'
    BY <1>2, <1>3, <1>4 DEF Inductive, Typed, StatusSet
  <2> QED
    BY <1>2, <1>3, <2>1, NoNewSubmitter DEF SubmittingAt, Outcomes, Outcome
<1>9. OnlyJob'
  <2>1. \A v \in Units : MarkingAlone(v) => MarkingAlone(v)'
    BY <1>2, <1>3, StillMarking DEF Outcome
  <2>2. \A v \in Units \ {u} : (PendingFirst(v) => PendingFirst(v)') /\ (PointedFirst(v) => PointedFirst(v)')
    BY <1>2, <1>4 DEF PendingFirst, PointedFirst, Only, StatusSet
  <2>3. \A v \in Units : OneJob(v)' <=> OneJob(v)
    BY <1>2 DEF OneJob
  <2>4. ASSUME OneJob(u)
        PROVE  PendingFirst(u)' /\ PointedFirst(u)'
    <3>1. Only(u).status = "SUBMISSION_FAILED" /\ <<u, 1>> \notin poller.todo
      BY <1>1, <2>4 DEF Inductive, OnlyJob, MarkingAlone
    <3>2. 1 \in DOMAIN irpJobs[u]
      BY <2>4, RowFacts DEF OneJob, Rows, Inductive, Typed
    <3>3. ~ Only(u).named
      BY <3>1, <3>2 DEF Inductive, FinishedFirst, Finished, Only
    <3>4. Only(u)' = Only(u)
      BY <1>2 DEF Only
    <3> QED
      BY <1>2, <3>1, <3>3, <3>4 DEF PendingFirst, PointedFirst
  <2> QED
    BY <2>1, <2>2, <2>3, <2>4 DEF Inductive, OnlyJob
<1> QED
  BY <1>2, <1>5, <1>7, <1>8, <1>9, ThreadSteps DEF InBody, Inductive

-----------------------------------------------------------------------------
(* finalize_analysis *)

\* The thread finalizes an irp_job of its analysis whose run has finished.
LEMMA Finalizer ==
    ASSUME Inductive, NEW w \in Workers, worker[w].at \in FinalizeAt
    PROVE  /\ worker[w].unit \in Units
           /\ \E i \in JobIndex : /\ worker[w].task = Finalize(worker[w].unit, i)
                                  /\ worker[w].task[3] = i /\ Finished(worker[w].unit, i)
<1>1. worker[w].unit \in Units
  BY DEF Inductive, Placed, FinalizeAt
<1>2. PICK i \in JobIndex : worker[w].task = Finalize(worker[w].unit, i)
  BY DEF Inductive, Placed
<1>3. worker[w].task[3] = i
  BY <1>1, <1>2, TaskFacts
<1>4. Finished(worker[w].unit, i)
  BY <1>1, <1>2 DEF Inductive, FinishedFirst
<1> QED
  BY <1>1, <1>2, <1>3, <1>4

\* The analysis that is not pending any more, or has its pointer, keeps the
\* invariant when an irp_job of it has finished.
LEMMA FinalizerWrites ==
    ASSUME Inductive, NEW w \in Workers, worker[w].at \in FinalizeAt,
           NEW at \in FinalizeAt \cup Outcome, Moved(w, at), Queued,
           NEW u \in Units, u = worker[w].unit, NEW i \in JobIndex, Finished(u, i),
           analysis' \in [Units -> Analysis],
           \A v \in Units \ {u} : analysis'[v] = analysis[v],
           analysis'[u].deleted = analysis[u].deleted,
           analysis[u].status # "none" => analysis'[u].status # "none",
           analysis'[u].irpId \in {analysis[u].irpId, i},
           analysis'[u].irpId = 0 => at \in Outcome,
           analysis'[u].status \in {"ready", "error"} /\ analysis'[u].irpId = 0
               => ~ irpJobs[u][i].named \/ analysis[u].status \in {"ready", "error"},
           UNCHANGED <<irpJobs, poller, deleter, rmLive, runs, spent>>
    PROVE  Inductive'
<1>1. Rows /\ i # 0
  BY RowFacts, ConstantFacts DEF Inductive, Typed
<1>2. Stepped(w) /\ Silent(w)
  BY DEF Moved, Stepped, Silent, SubmitAt, FinalizeAt, RetrieveAt, Outcome
<1>3. irpJobs[u] # <<>>
  BY <1>1 DEF Finished, Rows
<1>4. Wrote(w)
  <2>1. worker'[w].at = at /\ worker'[w].unit = u
    BY DEF Moved
  <2>2. at \notin {"submit", "mark_error"} \cup Outcomes
    BY DEF FinalizeAt, Outcome, Outcomes
  <2>3. at \in {"metadata", "ready", "chain"} => analysis'[u].irpId # 0
    BY DEF Outcome
  <2>4. ASSUME NEW v \in Units
        PROVE /\ analysis'[v].deleted = analysis[v].deleted
              /\ analysis'[v].irpId # analysis[v].irpId =>
                     analysis'[v].irpId # 0 /\ Finished(v, analysis'[v].irpId)
              /\ analysis[v].status # "none" => analysis'[v].status # "none"
              /\ irpJobs[v] = <<>> => analysis'[v].status \in {"none", "pending"}
    BY <1>1, <1>3 DEF Inductive, RowsFollow
  <2> QED
    BY <2>1, <2>2, <2>3, <2>4 DEF Wrote
<1>5. JobsCounted'
  <2>1. Typed' /\ Others(w)
    BY DEF Inductive, Typed, Moved, Queued
  <2> QED
    BY <2>1, NoNewSubmitter DEF Moved, SubmittingAt, Outcomes, Outcome, FinalizeAt
<1>6. OnlyJob'
  <2>1. \A v \in Units : MarkingAlone(v) => MarkingAlone(v)'
    BY StillMarking DEF Outcome, Moved, FinalizeAt
  <2>2. \A v \in Units \ {u} : (PendingFirst(v) => PendingFirst(v)') /\ (PointedFirst(v) => PointedFirst(v)')
    BY DEF PendingFirst, PointedFirst, Only
  <2>3. \A v \in Units : OneJob(v)' <=> OneJob(v)
    BY DEF OneJob
  <2>4. ASSUME OneJob(u), PointedFirst(u)
        PROVE  PendingFirst(u)' /\ PointedFirst(u)'
    <3>1. i = 1 /\ Only(u).status = "FINISHED"
      BY <1>1, <2>4 DEF OneJob, Only, Rows, Finished
    <3>2. <<u, 1>> \notin poller.todo
      BY <3>1 DEF Inductive, RetryHeld, Only
    <3>3. Only(u)' = Only(u)
      BY DEF Only
    <3>4. PendingFirst(u)'
      BY <3>1, <3>2, <3>3 DEF PendingFirst
    <3>5. PointedFirst(u)'
      BY <1>1, <2>4, <3>1, <3>3 DEF PointedFirst, Only
    <3> QED
      BY <3>4, <3>5
  <2> QED
    BY <2>1, <2>2, <2>3, <2>4 DEF Inductive, OnlyJob
<1> QED
  BY <1>2, <1>4, <1>5, <1>6, ThreadSteps DEF InBody, Inductive

\* Where the body of an ended run or a lost metadata read leads.
LEMMA FailEffect ==
    ASSUME Inductive, NEW w \in Workers, NEW u \in Units, u = worker[w].unit, FailAnalysis(w)
    PROVE  StatusSet(u, "error") /\ Moved(w, "failed")
BY StatusSets, Goes DEF FailAnalysis, Inductive, Typed, WorkerAt, Outcome

LEMMA ResolveAnalysisKeeps ==
    ASSUME Inductive, NEW w \in Workers, ResolveAnalysis(w)
    PROVE  Inductive'
<1>1. worker[w].at \in FinalizeAt
  BY DEF ResolveAnalysis, FinalizeAt
<1>2. PICK u \in Units : u = worker[w].unit
  BY <1>1, Finalizer
<1>3. PICK i \in JobIndex : worker[w].task[3] = i /\ Finished(u, i)
  BY <1>1, <1>2, Finalizer
<1>4. UNCHANGED <<irpJobs, task, poller, deleter, rmLive, runs, spent>> /\ Queued
  BY DEF ResolveAnalysis, Queued, Inductive, Typed
<1>5. CASE irpJobs[u][i].named
  <2>1. analysis' = [analysis EXCEPT ![u].irpId = i] /\ Go(w, "metadata")
    BY <1>2, <1>3, <1>5 DEF ResolveAnalysis
  <2>2. Moved(w, "metadata") /\ "metadata" \in FinalizeAt
    BY <2>1, Goes DEF WorkerAt, FinalizeAt, Inductive, Typed
  <2>3. i \in Nat \ {0}
    BY ConstantFacts
  <2>4. /\ analysis' \in [Units -> Analysis]
        /\ \A v \in Units \ {u} : analysis'[v] = analysis[v]
        /\ analysis'[u].deleted = analysis[u].deleted
        /\ analysis'[u].status = analysis[u].status
        /\ analysis'[u].irpId = i
    BY <2>1, <2>3 DEF Inductive, Typed, Analysis
  <2> QED
    BY <1>1, <1>2, <1>3, <1>4, <2>2, <2>3, <2>4, FinalizerWrites
<1>6. CASE ~ irpJobs[u][i].named
  <2>1. FailAnalysis(w)
    BY <1>2, <1>3, <1>6 DEF ResolveAnalysis
  <2>2. StatusSet(u, "error") /\ Moved(w, "failed")
    BY <1>2, <2>1, FailEffect
  <2> QED
    BY <1>1, <1>2, <1>3, <1>4, <1>6, <2>2, FinalizerWrites DEF StatusSet, Outcome
<1> QED
  BY <1>5, <1>6

\* Past the resolve step the pointer is there.
LEMMA Pointed ==
    ASSUME Inductive, NEW w \in Workers, worker[w].at \in {"metadata", "ready", "chain"}
    PROVE  analysis[worker[w].unit].irpId # 0
BY Finalizer DEF Inductive, RowsFollow, FinalizeAt

LEMMA FetchMetadataKeeps ==
    ASSUME Inductive, NEW w \in Workers, FetchMetadata(w)
    PROVE  Inductive'
<1>1. worker[w].at \in FinalizeAt /\ worker[w].at = "metadata"
  BY DEF FetchMetadata, FinalizeAt
<1>2. PICK u \in Units : u = worker[w].unit
  BY <1>1, Finalizer
<1>3. PICK i \in JobIndex : Finished(u, i)
  BY <1>1, <1>2, Finalizer
<1>4. UNCHANGED <<irpJobs, task, poller, deleter, rmLive, runs, spent>> /\ Queued
  BY DEF FetchMetadata, Queued, Inductive, Typed
<1>5. analysis[u].irpId # 0
  BY <1>1, <1>2, Pointed
<1>6. CASE Go(w, "ready") /\ UNCHANGED analysis
  <2>1. Moved(w, "ready") /\ "ready" \in FinalizeAt
    BY <1>6, Goes DEF WorkerAt, FinalizeAt, Inductive, Typed
  <2>2. /\ analysis' \in [Units -> Analysis]
        /\ \A v \in Units \ {u} : analysis'[v] = analysis[v]
        /\ analysis'[u] = analysis[u]
    BY <1>6 DEF Inductive, Typed
  <2> QED
    BY <1>1, <1>2, <1>3, <1>4, <1>5, <2>1, <2>2, FinalizerWrites
<1>7. CASE FailAnalysis(w)
  <2>1. StatusSet(u, "error") /\ Moved(w, "failed")
    BY <1>2, <1>7, FailEffect
  <2> QED
    BY <1>1, <1>2, <1>3, <1>4, <1>5, <2>1, FinalizerWrites DEF StatusSet, Outcome
<1> QED
  BY <1>6, <1>7 DEF FetchMetadata

LEMMA StoreMetadataKeeps ==
    ASSUME Inductive, NEW w \in Workers, StoreMetadata(w)
    PROVE  Inductive'
<1>1. worker[w].at \in FinalizeAt /\ worker[w].at = "ready"
  BY DEF StoreMetadata, FinalizeAt
<1>2. PICK u \in Units : u = worker[w].unit
  BY <1>1, Finalizer
<1>3. PICK i \in JobIndex : Finished(u, i)
  BY <1>1, <1>2, Finalizer
<1>4. UNCHANGED <<irpJobs, task, poller, deleter, rmLive, runs, spent>> /\ Queued
  BY DEF StoreMetadata, Queued, Inductive, Typed
<1>5. analysis[u].irpId # 0
  BY <1>1, <1>2, Pointed
<1>6. StatusSet(u, "ready")
  BY <1>2, StatusSets DEF StoreMetadata, Inductive, Typed
<1>7. Moved(w, "chain") /\ "chain" \in FinalizeAt
  BY Goes DEF StoreMetadata, WorkerAt, FinalizeAt, Inductive, Typed
<1> QED
  BY <1>1, <1>2, <1>3, <1>4, <1>5, <1>6, <1>7, FinalizerWrites DEF StatusSet

LEMMA ChainRetrievalKeeps ==
    ASSUME Inductive, NEW w \in Workers, ChainRetrieval(w)
    PROVE  Inductive'
<1>1. worker[w].at \in FinalizeAt /\ worker[w].at = "chain"
  BY DEF ChainRetrieval, FinalizeAt
<1>2. PICK u \in Units : u = worker[w].unit
  BY <1>1, Finalizer
<1>3. PICK i \in JobIndex : Finished(u, i)
  BY <1>1, <1>2, Finalizer
<1>4. UNCHANGED <<analysis, irpJobs, poller, deleter, rmLive, runs, spent>>
  BY DEF ChainRetrieval
<1>5. Moved(w, "succeeded")
  BY Goes DEF ChainRetrieval, WorkerAt, Outcome, Inductive, Typed
<1>6. Queued
  <2>1. task' = [task EXCEPT ![Retrieve(u)] = IF @ = "absent" THEN "pending" ELSE @]
    BY <1>2 DEF ChainRetrieval
  <2>2. task' \in [Tasks -> TaskStatus] /\ \A t \in Tasks \ {Retrieve(u)} : task'[t] = task[t]
    BY <2>1 DEF Inductive, Typed, TaskStatus
  <2> QED
    BY <2>2, TaskFacts DEF Queued
<1>7. analysis' \in [Units -> Analysis]
  BY <1>4 DEF Inductive, Typed
<1>8. analysis[u].irpId # 0
  BY <1>1, <1>2, Pointed
<1> QED
  BY <1>1, <1>2, <1>3, <1>4, <1>5, <1>6, <1>7, <1>8, FinalizerWrites DEF Outcome

-----------------------------------------------------------------------------
(* retrieve_analysis_results *)

\* A thread that retrieves changes nothing but its place and the results.
LEMMA RetrieverKeeps ==
    ASSUME Inductive, NEW w \in Workers, worker[w].at \in RetrieveAt,
           worker' \in [Workers -> Thread], Others(w),
           worker'[w].task = worker[w].task, worker'[w].unit = worker[w].unit,
           worker'[w].at \in RetrieveAt \cup Outcome,
           analysis' \in [Units -> Analysis],
           \A u \in Units : /\ analysis'[u].status = analysis[u].status
                            /\ analysis'[u].deleted = analysis[u].deleted
                            /\ analysis'[u].irpId = analysis[u].irpId,
           UNCHANGED <<irpJobs, task, poller, deleter, rmLive, runs, spent>>
    PROVE  Inductive'
<1>1. worker[w].unit \in Units
  BY DEF Inductive, Placed, RetrieveAt
<1>2. Stepped(w) /\ Silent(w) /\ Queued
  BY <1>1 DEF Stepped, Silent, Queued, SubmitAt, FinalizeAt, RetrieveAt, Outcome, Inductive, Typed
<1>3. Wrote(w)
  BY DEF Wrote, RetrieveAt, Outcome, Outcomes, Inductive, RowsFollow
<1>4. JobsCounted'
  <2>1. Typed'
    BY DEF Inductive, Typed
  <2> QED
    BY <2>1, NoNewSubmitter DEF SubmittingAt, Outcomes, Outcome, RetrieveAt
<1>5. OnlyJob'
  <2>1. \A v \in Units : MarkingAlone(v) => MarkingAlone(v)'
    BY StillMarking DEF Outcome, RetrieveAt
  <2>2. \A v \in Units : (PendingFirst(v) => PendingFirst(v)') /\ (PointedFirst(v) => PointedFirst(v)')
    BY DEF PendingFirst, PointedFirst, Only
  <2>3. \A v \in Units : OneJob(v)' <=> OneJob(v)
    BY DEF OneJob
  <2> QED
    BY <2>1, <2>2, <2>3 DEF Inductive, OnlyJob
<1> QED
  BY <1>2, <1>3, <1>4, <1>5, ThreadSteps DEF InBody, Inductive

LEMMA ReadAnalysisKeeps ==
    ASSUME Inductive, NEW w \in Workers, ReadAnalysis(w)
    PROVE  Inductive'
<1>1. worker[w].at \in RetrieveAt /\ worker[w].unit \in Units
  BY DEF ReadAnalysis, RetrieveAt, Inductive, Placed
<1>2. UNCHANGED <<analysis, irpJobs, task, poller, deleter, rmLive, runs, spent>>
  BY DEF ReadAnalysis
<1>. DEFINE a == analysis[worker[w].unit]
            p == IF a.results THEN "succeeded" ELSE IF a.irpId = 0 THEN "failed" ELSE "fetch"
<1>3. a.irpId \in Nat /\ p \in {"fetch", "succeeded", "failed"}
  BY <1>1 DEF Inductive, Typed, Analysis
<1>4. worker' = [worker EXCEPT ![w].at = p, ![w].irpId = a.irpId]
  BY DEF ReadAnalysis
<1>. HIDE DEF a, p
<1>5. /\ worker' \in [Workers -> Thread] /\ Others(w)
      /\ worker'[w].task = worker[w].task /\ worker'[w].unit = worker[w].unit
      /\ worker'[w].at \in RetrieveAt \cup Outcome
  BY <1>3, <1>4 DEF Inductive, Typed, Thread, WorkerAt, Others, RetrieveAt, Outcome
<1> QED
  BY <1>1, <1>2, <1>5, RetrieverKeeps DEF Inductive, Typed

LEMMA FetchResultsKeeps ==
    ASSUME Inductive, NEW w \in Workers, FetchResults(w)
    PROVE  Inductive'
<1>1. worker[w].at \in RetrieveAt
  BY DEF FetchResults, RetrieveAt
<1>2. UNCHANGED <<analysis, irpJobs, task, poller, deleter, rmLive, runs, spent>>
  BY DEF FetchResults
<1>3. PICK at \in {"store", "failed"} : Go(w, at)
  BY DEF FetchResults
<1>4. Moved(w, at) /\ at \in RetrieveAt \cup Outcome
  BY <1>3, Goes DEF Inductive, Typed, WorkerAt, Outcome, RetrieveAt
<1> QED
  BY <1>1, <1>2, <1>4, RetrieverKeeps DEF Inductive, Typed, Moved

LEMMA StoreResultsKeeps ==
    ASSUME Inductive, NEW w \in Workers, StoreResults(w)
    PROVE  Inductive'
<1>1. worker[w].at \in RetrieveAt /\ worker[w].unit \in Units
  BY DEF StoreResults, RetrieveAt, Inductive, Placed
<1>2. UNCHANGED <<irpJobs, task, poller, deleter, rmLive, runs, spent>>
  BY DEF StoreResults
<1>3. Moved(w, "succeeded")
  BY Goes DEF StoreResults, Inductive, Typed, WorkerAt, Outcome
<1>4. /\ analysis' \in [Units -> Analysis]
      /\ \A u \in Units : /\ analysis'[u].status = analysis[u].status
                          /\ analysis'[u].deleted = analysis[u].deleted
                          /\ analysis'[u].irpId = analysis[u].irpId
  BY <1>1 DEF StoreResults, Inductive, Typed, Analysis
<1> QED
  BY <1>1, <1>2, <1>3, <1>4, RetrieverKeeps DEF Moved, Outcome

-----------------------------------------------------------------------------
(* The work queue *)

\* The rows stay, and no thread comes to a place at which it has read them.
LEMMA QueueSteps ==
    ASSUME Inductive, Typed', Placed', Staffed', RunsCounted',
           \A v \in Workers :
               worker'[v].at \in SubmittingAt \cup {"mark_error", "metadata", "ready", "chain"}
                   => worker'[v] = worker[v],
           \A v \in Workers, u \in Units, i \in JobIndex :
               worker'[v].task = Finalize(u, i) => Finished(u, i),
           \A u \in Units, i \in JobIndex :
               task'[Finalize(u, i)] # "absent" => task[Finalize(u, i)] # "absent",
           spent'.stalls >= spent.stalls,
           UNCHANGED <<analysis, irpJobs, poller, deleter, rmLive, runs>>
    PROVE  Inductive'
<1>1. JobsCounted'
  <2>1. \A u \in Units : \A v \in Workers : Submits1(v, u)' => Submits1(v, u)
    BY DEF Submits1
  <2> QED
    BY <2>1, JobsCountedKeeps DEF Inductive, Typed
<1>2. FinishedFirst'
  <2>1. \A u \in Units, i \in JobIndex : Finished(u, i)' <=> Finished(u, i)
    BY DEF Finished
  <2>2. \A u \in Units : \A i \in DOMAIN irpJobs[u] : Finished(u, i)' <=> Finished(u, i)
    BY DEF Finished
  <2>3. \A u \in Units : Finished(u, analysis[u].irpId)' <=> Finished(u, analysis[u].irpId)
    BY DEF Finished
  <2> QED
    BY <2>1, <2>2, <2>3 DEF Inductive, FinishedFirst
<1>3. RetryHeld'
  BY DEF Inductive, RetryHeld
<1>4. RowsFollow'
  BY DEF Inductive, RowsFollow, SubmittingAt
<1>5. OnlyJob'
  <2>1. \A v \in Units : (PendingFirst(v) => PendingFirst(v)') /\ (PointedFirst(v) => PointedFirst(v)')
    BY DEF PendingFirst, PointedFirst, Only
  <2>2. \A v \in Units : MarkingAlone(v) => MarkingAlone(v)'
    BY DEF MarkingAlone, Only
  <2>3. \A v \in Units : OneJob(v)' <=> OneJob(v)
    BY DEF OneJob
  <2> QED
    BY <2>1, <2>2, <2>3 DEF Inductive, OnlyJob
<1>6. Deleting'
  BY DEF Inductive, Deleting, OneJob, Only, Ended
<1>7. Deleted'
  BY DEF Inductive, Deleted, OneJob, Only, Ended
<1> QED
  BY <1>1, <1>2, <1>3, <1>4, <1>5, <1>6, <1>7 DEF Inductive

\* Nor does a thread hear of a run, unless it is lost.
LEMMA QuietQueue ==
    ASSUME Inductive, Typed',
           \A u \in Units : \A v \in Workers : Hears(v, u)' <=> Hears(v, u),
           spent'.crashes >= spent.crashes, spent'.lost >= spent.lost,
           UNCHANGED <<irpJobs, poller, runs>>
    PROVE  RunsCounted'
<1>1. \A u \in Units : Accepted(u)' = Accepted(u)
  BY DEF Accepted
<1>2. \A u \in Units : RetryHeard(u)' = RetryHeard(u)
  BY DEF RetryHeard
<1> QED
  BY <1>1, <1>2, RunsCountedKeeps DEF Inductive

\* Nothing of spent is changed but one counter, which grows.
Spends(what) ==
    /\ spent' \in Budget
    /\ spent'.crashes = spent.crashes + (IF what = "crashes" THEN 1 ELSE 0)
    /\ spent'.stalls = spent.stalls + (IF what = "stalls" THEN 1 ELSE 0)
    /\ spent'.lost = spent.lost
    /\ {spent.crashes, spent.stalls, spent.lost} \subseteq Nat

LEMMA SpendEffect ==
    ASSUME Typed, NEW what \in {"requests", "crashes", "stalls"}, Spend(what)
    PROVE  Spends(what)
<1>1. spent \in Budget /\ spent' = [spent EXCEPT ![what] = @ + 1]
  BY DEF Typed, Spend
<1>2. CASE what = "requests"
  BY <1>1, <1>2 DEF Spends, Budget
<1>3. CASE what = "crashes"
  BY <1>1, <1>3 DEF Spends, Budget
<1>4. CASE what = "stalls"
  BY <1>1, <1>4 DEF Spends, Budget
<1> QED
  BY <1>2, <1>3, <1>4

LEMMA ClaimKeeps ==
    ASSUME Inductive, NEW w \in Workers, NEW t \in Tasks, Claim(w, t)
    PROVE  Inductive'
<1>1. worker[w] = Idle /\ task[t] = "pending"
  BY DEF Claim
<1>2. UNCHANGED <<analysis, irpJobs, poller, deleter, rmLive, runs, spent>>
  BY DEF Claim
<1>3. /\ task' \in [Tasks -> TaskStatus] /\ task'[t] = "running"
      /\ \A x \in Tasks \ {t} : task'[x] = task[x]
  BY DEF Claim, Inductive, Typed, TaskStatus
<1>. DEFINE n == IF t = Batch THEN 1 ELSE t[2]
<1>4. /\ n \in Units
      /\ t = Batch => FirstStep(t) = "count"
      /\ \A u \in Units, i \in JobIndex : t = Finalize(u, i) => FirstStep(t) = "resolve" /\ n = u
      /\ \A u \in Units : t = Retrieve(u) => FirstStep(t) = "read" /\ n = u
      /\ FirstStep(t) \in {"count", "resolve", "read"}
  BY TaskFacts, FirstSteps, ConstantFacts
<1>5. n \in Nat
  BY <1>4, ConstantFacts
<1>6. /\ \A v \in Workers \ {w} : worker'[v] = worker[v]
      /\ worker'[w].at = FirstStep(t) /\ worker'[w].task = t /\ worker'[w].unit = n
      /\ worker' \in [Workers -> Thread]
  <2>. DEFINE r == [at |-> FirstStep(t), task |-> t, unit |-> n, good |-> FALSE, irpId |-> 0]
  <2>1. r \in Thread
    BY <1>4, <1>5 DEF Thread, WorkerAt, SubmitAt
  <2>2. worker' = [worker EXCEPT ![w] = r]
    BY DEF Claim
  <2>3. r.at = FirstStep(t) /\ r.task = t /\ r.unit = n
    OBVIOUS
  <2>. HIDE DEF r
  <2> QED
    BY <2>1, <2>2, <2>3 DEF Inductive, Typed
<1>. HIDE DEF n
<1>7. Typed'
  BY <1>2, <1>3, <1>6 DEF Inductive, Typed
<1>8. Placed'
  <2>1. /\ worker'[w].at # "idle" /\ worker'[w].unit \in Units /\ worker'[w].task \in Tasks
        /\ worker'[w].at \in SubmitAt => t = Batch
        /\ worker'[w].at \in FinalizeAt => \E i \in JobIndex : t = Finalize(n, i)
        /\ worker'[w].at \in RetrieveAt => t = Retrieve(n)
    BY <1>4, <1>6, TaskFacts DEF SubmitAt, FinalizeAt, RetrieveAt
  <2> QED
    BY <1>6, <2>1 DEF Inductive, Placed
<1>9. worker[w].task = NoTask /\ worker[w].at = "idle"
  BY <1>1 DEF Idle
<1>10. Staffed'
  <2>1. CASE t = Batch
    <3>1. Batching' \subseteq Batching \cup {w}
      BY <1>6 DEF Batching
    <3>2. Cardinality(Batching)' <= Cardinality(Batching) + 1
      BY <3>1, Counts, AtMostOneMore DEF ThreadsCounted
    <3>3. Cardinality(Batching) <= spent.stalls /\ spent.stalls <= MaxStalls
      BY <1>1, <2>1 DEF Inductive, Staffed
    <3>4. task'[Batch] = "running"
      BY <1>3, <2>1
    <3>5. Cardinality(Batching) \in Nat /\ Cardinality(Batching)' \in Nat
          /\ spent.stalls \in Nat /\ spent'.stalls = spent.stalls
      BY <1>2, Counts, NextCounts DEF ThreadsCounted, Inductive, Typed, Budget
    <3> QED
      BY <3>2, <3>3, <3>4, <3>5 DEF Staffed
  <2>2. CASE t # Batch
    <3>1. \A v \in Workers : SameJob(v)
      BY <1>6, <1>9, <2>2, TaskFacts DEF SameJob
    <3>2. task'[Batch] = task[Batch]
      BY <1>3, <2>2, TaskFacts
    <3> QED
      BY <1>2, <3>1, <3>2, StaffedKeeps DEF Inductive
  <2> QED
    BY <2>1, <2>2
<1>11. RunsCounted'
  <2>1. \A u \in Units : \A v \in Workers : Hears(v, u)' <=> Hears(v, u)
    BY <1>4, <1>6, <1>9 DEF Hears
  <2>2. spent.crashes \in Nat /\ spent.lost \in Nat
    BY DEF Inductive, Typed, Budget
  <2> QED
    BY <1>2, <1>7, <2>1, <2>2, QuietQueue
<1>12. \A v \in Workers :
           worker'[v].at \in SubmittingAt \cup {"mark_error", "metadata", "ready", "chain"}
               => worker'[v] = worker[v]
  BY <1>4, <1>6 DEF SubmittingAt, Outcomes
<1>13. \A v \in Workers, u \in Units, i \in JobIndex :
           worker'[v].task = Finalize(u, i) => Finished(u, i)
  <2>1. ASSUME NEW u \in Units, NEW i \in JobIndex, t = Finalize(u, i)
        PROVE  Finished(u, i)
    BY <1>1, <2>1 DEF Inductive, FinishedFirst
  <2>2. ASSUME NEW v \in Workers \ {w}, NEW u \in Units, NEW i \in JobIndex,
               worker[v].task = Finalize(u, i)
        PROVE  Finished(u, i)
    BY <2>2 DEF Inductive, FinishedFirst
  <2> QED
    BY <1>6, <2>1, <2>2
<1>14. \A u \in Units, i \in JobIndex :
           task'[Finalize(u, i)] # "absent" => task[Finalize(u, i)] # "absent"
  BY <1>1, <1>3, TaskFacts
<1>15. spent'.stalls >= spent.stalls
  BY <1>2 DEF Inductive, Typed, Budget
<1> QED
  BY <1>2, <1>7, <1>8, <1>10, <1>11, <1>12, <1>13, <1>14, <1>15, QueueSteps

\* A thread lets go of its job.
LEMMA LetGo ==
    ASSUME Inductive, NEW w \in Workers, worker' = [worker EXCEPT ![w] = Idle]
    PROVE  /\ worker' \in [Workers -> Thread] /\ worker'[w] = Idle
           /\ \A v \in Workers \ {w} : worker'[v] = worker[v]
           /\ worker'[w].at = "idle" /\ worker'[w].task = NoTask
           /\ Placed'
           /\ Cardinality(Batching)' <= Cardinality(Batching)
           /\ worker[w].task = Batch => Cardinality(Batching)' + 1 <= Cardinality(Batching)
           /\ \A v \in Workers :
                  worker'[v].at \in SubmittingAt \cup {"mark_error", "metadata", "ready", "chain"}
                      => worker'[v] = worker[v]
           /\ \A v \in Workers, u \in Units, i \in JobIndex :
                  worker'[v].task = Finalize(u, i) => Finished(u, i)
<1>1. Idle \in Thread /\ Idle.at = "idle" /\ Idle.task = NoTask
  BY DEF Idle, Thread, WorkerAt
<1>2. /\ worker' \in [Workers -> Thread] /\ worker'[w] = Idle
      /\ \A v \in Workers \ {w} : worker'[v] = worker[v]
  BY <1>1 DEF Inductive, Typed
<1>3. worker'[w].at = "idle" /\ worker'[w].task = NoTask
  BY <1>1, <1>2
<1>4. Placed'
  BY <1>2, <1>3 DEF Inductive, Placed, SubmitAt, FinalizeAt, RetrieveAt
<1>5. w \notin Batching' /\ Batching' \subseteq Batching \ {w}
  BY <1>2, <1>3, TaskFacts DEF Batching
<1>6. IsFiniteSet(Batching)
  BY Counts DEF ThreadsCounted
<1>7. Cardinality(Batching)' <= Cardinality(Batching)
  BY <1>5, <1>6, NoMore
<1>8. worker[w].task = Batch => Cardinality(Batching)' + 1 <= Cardinality(Batching)
  BY <1>5, <1>6, OneLess DEF Batching
<1>9. \A v \in Workers :
          worker'[v].at \in SubmittingAt \cup {"mark_error", "metadata", "ready", "chain"}
              => worker'[v] = worker[v]
  BY <1>2, <1>3 DEF SubmittingAt, Outcomes
<1>10. ASSUME NEW v \in Workers, NEW u \in Units, NEW i \in JobIndex,
              worker'[v].task = Finalize(u, i)
       PROVE  Finished(u, i)
  <2>1. v # w
    BY <1>3, <1>10, TaskFacts
  <2>2. worker[v].task = Finalize(u, i)
    BY <1>2, <1>10, <2>1
  <2> QED
    BY <2>2 DEF Inductive, FinishedFirst
<1> QED
  BY <1>2, <1>3, <1>4, <1>7, <1>8, <1>9, <1>10

LEMMA CompleteKeeps ==
    ASSUME Inductive, NEW w \in Workers, Complete(w)
    PROVE  Inductive'
<1>1. worker[w].at \in Outcome /\ worker[w].task \in Tasks
  BY DEF Complete, Inductive, Placed, Outcome
<1>2. UNCHANGED <<analysis, irpJobs, poller, deleter, rmLive, runs, spent>>
  BY DEF Complete
<1>3. PICK t \in Tasks : t = worker[w].task
  BY <1>1
<1>4. /\ task' \in [Tasks -> TaskStatus] /\ \A x \in Tasks \ {t} : task'[x] = task[x]
      /\ task'[t] = (IF task[t] = "running" THEN worker[w].at ELSE task[t])
  BY <1>1, <1>3 DEF Complete, Inductive, Typed, TaskStatus, Outcome
<1>5. worker' = [worker EXCEPT ![w] = Idle]
  BY DEF Complete
<1>6. Typed'
  BY <1>2, <1>4, <1>5, LetGo DEF Inductive, Typed
<1>7. /\ Cardinality(Batching) \in Nat /\ Cardinality(Batching)' \in Nat
      /\ spent.stalls \in Nat /\ spent'.stalls = spent.stalls
  BY <1>2, Counts, NextCounts DEF ThreadsCounted, Inductive, Typed, Budget
<1>8. Staffed'
  <2>1. /\ spent.stalls <= MaxStalls /\ Cardinality(Batching) <= spent.stalls + 1
        /\ task[Batch] # "running" => Cardinality(Batching) <= spent.stalls
    BY DEF Inductive, Staffed
  <2>2. CASE t = Batch
    <3>1. Cardinality(Batching)' + 1 <= Cardinality(Batching)
      BY <1>3, <1>5, <2>2, LetGo
    <3> QED
      BY <1>7, <2>1, <3>1 DEF Staffed
  <2>3. CASE t # Batch
    <3>1. Cardinality(Batching)' <= Cardinality(Batching) /\ task'[Batch] = task[Batch]
      BY <1>4, <1>5, <2>3, LetGo, TaskFacts
    <3> QED
      BY <1>7, <2>1, <3>1 DEF Staffed
  <2> QED
    BY <2>2, <2>3
<1>9. RunsCounted'
  <2>1. \A u \in Units : \A v \in Workers : Hears(v, u)' <=> Hears(v, u)
    BY <1>1, <1>5, LetGo DEF Hears, Outcome
  <2>2. spent.crashes \in Nat /\ spent.lost \in Nat
    BY DEF Inductive, Typed, Budget
  <2> QED
    BY <1>2, <1>6, <2>1, <2>2, QuietQueue
<1>10. \A v \in Workers, u \in Units, i \in JobIndex :
           worker'[v].task = Finalize(u, i) => Finished(u, i)
  BY <1>5, LetGo
<1>11. \A u \in Units, i \in JobIndex :
           task'[Finalize(u, i)] # "absent" => task[Finalize(u, i)] # "absent"
  BY <1>4, TaskFacts
<1>12. spent'.stalls >= spent.stalls
  BY <1>7
<1> QED
  BY <1>2, <1>5, <1>6, <1>8, <1>9, <1>10, <1>11, <1>12, LetGo, QueueSteps

\* The run a thread heard of and did not record is one of a spent crash.
LEMMA LostRuns ==
    ASSUME Inductive, Typed', NEW w \in Workers, Others(w),
           spent'.crashes = spent.crashes + 1, spent'.lost = spent.lost,
           UNCHANGED <<irpJobs, poller, runs>>
    PROVE  RunsCounted'
<1>1. ASSUME NEW u \in Units
      PROVE  runs'[u] + Known(u) <= runs[u] + Known(u)'
  <2>1. Accepted(u)' = Accepted(u) /\ RetryHeard(u)' = RetryHeard(u)
    BY DEF Accepted, RetryHeard
  <2>2. /\ Cardinality(Accepted(u)) \in Nat /\ Cardinality(Heard(u)) \in Nat
        /\ RetryHeard(u) \in {0, 1} /\ runs[u] \in Nat
        /\ Cardinality(Heard(u))' \in Nat /\ IsFiniteSet(Heard(u))'
        /\ spent.crashes \in Nat /\ spent.lost \in Nat
    BY Counts, NextCounts, RowCounts, KnownType
       DEF Inductive, Typed, Budget, Counted, ThreadsCounted, KnownTyped
  <2>3. Heard(u) \subseteq Heard(u)' \cup {w}
    BY DEF Others, Heard
  <2>4. Cardinality(Heard(u)) <= Cardinality(Heard(u))' + 1
    BY <2>2, <2>3, AtMostOneMore
  <2> QED
    BY <2>1, <2>2, <2>4 DEF Known
<1> QED
  BY <1>1, RunsBalance DEF Inductive

LEMMA CrashKeeps ==
    ASSUME Inductive, NEW w \in Workers, Crash(w)
    PROVE  Inductive'
<1>1. UNCHANGED <<analysis, irpJobs, task, poller, deleter, rmLive, runs>>
  BY DEF Crash
<1>2. worker' = [worker EXCEPT ![w] = Idle] /\ Spends("crashes")
  BY SpendEffect DEF Crash, Inductive
<1>3. /\ spent' \in Budget /\ spent'.crashes = spent.crashes + 1
      /\ spent'.stalls = spent.stalls /\ spent'.lost = spent.lost
      /\ spent.crashes \in Nat /\ spent.stalls \in Nat /\ spent.lost \in Nat
  BY <1>2 DEF Spends
<1>4. Typed'
  BY <1>1, <1>2, <1>3, LetGo DEF Inductive, Typed
<1>5. Staffed'
  <2>1. /\ spent.stalls <= MaxStalls /\ Cardinality(Batching) <= spent.stalls + 1
        /\ task[Batch] # "running" => Cardinality(Batching) <= spent.stalls
    BY DEF Inductive, Staffed
  <2>2. Cardinality(Batching)' <= Cardinality(Batching)
    BY <1>2, LetGo
  <2>3. Cardinality(Batching) \in Nat /\ Cardinality(Batching)' \in Nat
    BY Counts, NextCounts DEF ThreadsCounted
  <2> QED
    BY <1>1, <1>3, <2>1, <2>2, <2>3 DEF Staffed
<1>6. RunsCounted'
  BY <1>1, <1>2, <1>3, <1>4, LetGo, LostRuns DEF Others
<1>7. \A v \in Workers, u \in Units, i \in JobIndex :
           worker'[v].task = Finalize(u, i) => Finished(u, i)
  BY <1>2, LetGo
<1>8. spent'.stalls >= spent.stalls
  BY <1>3
<1> QED
  BY <1>1, <1>2, <1>4, <1>5, <1>6, <1>7, <1>8, LetGo, QueueSteps

\* A body that raises is at its end: the thread keeps its job and its unit.
LEMMA RaisesKeeps ==
    ASSUME Inductive, NEW w \in Workers, Raises(w)
    PROVE  Inductive'
<1>1. /\ worker[w].at \notin Outcome \cup {"idle"} /\ Go(w, "raised")
      /\ UNCHANGED <<analysis, irpJobs, task, poller, deleter, rmLive, runs>>
  BY DEF Raises, Go
<1>2. Spends("crashes")
  BY SpendEffect DEF Raises, Inductive
<1>3. /\ spent' \in Budget /\ spent'.crashes = spent.crashes + 1
      /\ spent'.stalls = spent.stalls /\ spent'.lost = spent.lost
      /\ spent.stalls \in Nat /\ spent \in Budget
  BY <1>2 DEF Spends, Inductive, Typed
<1>4. Moved(w, "raised")
  BY <1>1, Goes DEF Inductive, Typed, WorkerAt, Outcome
<1>5. worker'[w].at \notin SubmittingAt \cup {"mark_error", "metadata", "ready", "chain"}
  BY <1>4 DEF Moved, SubmittingAt, Outcomes
<1>6. Stepped(w)
  BY <1>1, <1>4 DEF Moved, Stepped, Inductive, Placed, Outcome
<1>7. Wrote(w) /\ Queued
  BY <1>1, <1>5 DEF Wrote, Queued, Inductive, Typed, RowsFollow, SubmittingAt
<1>8. InBody'
  BY <1>1, <1>3, <1>6, <1>7, BodySteps DEF Inductive, Typed
<1>9. JobsCounted'
  <2>1. \A u \in Units : \A v \in Workers : Submits1(v, u)' => Submits1(v, u)
    BY <1>4, <1>5 DEF Moved, Others, Submits1
  <2> QED
    BY <1>1, <1>3, <2>1, JobsCountedKeeps DEF Inductive, Typed
<1>10. RunsCounted'
  BY <1>1, <1>3, <1>4, <1>8, LostRuns DEF Moved, InBody
<1>11. OnlyJob'
  <2>1. \A u \in Units : MarkingAlone(u) => MarkingAlone(u)'
    BY <1>1, <1>4, <1>5, StillMarking DEF Moved
  <2>2. \A u \in Units : /\ PendingFirst(u)' <=> PendingFirst(u)
                         /\ PointedFirst(u)' <=> PointedFirst(u)
                         /\ OneJob(u)' <=> OneJob(u)
    BY <1>1 DEF PendingFirst, PointedFirst, OneJob, Only
  <2> QED
    BY <2>1, <2>2 DEF Inductive, OnlyJob
<1> QED
  BY <1>8, <1>9, <1>10, <1>11 DEF InBody, Inductive

\* A job goes back to pending while the threads go on.
LEMMA Requeued ==
    ASSUME Inductive, NEW t \in Tasks, task' = [task EXCEPT ![t] = "pending"],
           \A u \in Units, i \in JobIndex : t = Finalize(u, i) => task[t] # "absent",
           spent' \in Budget, spent'.crashes = spent.crashes, spent'.lost = spent.lost,
           spent'.stalls >= spent.stalls, Staffed',
           UNCHANGED <<analysis, irpJobs, worker, poller, deleter, rmLive, runs>>
    PROVE  Inductive'
<1>1. /\ task' \in [Tasks -> TaskStatus] /\ task'[t] = "pending"
      /\ \A x \in Tasks \ {t} : task'[x] = task[x]
  BY DEF Inductive, Typed, TaskStatus
<1>2. Typed'
  BY <1>1 DEF Inductive, Typed
<1>3. Placed'
  BY DEF Inductive, Placed
<1>4. RunsCounted'
  <2>1. \A u \in Units : \A v \in Workers : Hears(v, u)' <=> Hears(v, u)
    BY DEF Hears
  <2>2. spent.crashes \in Nat /\ spent.lost \in Nat
    BY DEF Inductive, Typed, Budget
  <2> QED
    BY <1>2, <2>1, <2>2, QuietQueue
<1>5. \A u \in Units, i \in JobIndex :
           task'[Finalize(u, i)] # "absent" => task[Finalize(u, i)] # "absent"
  BY <1>1, TaskFacts
<1>6. \A v \in Workers, u \in Units, i \in JobIndex :
           worker'[v].task = Finalize(u, i) => Finished(u, i)
  BY DEF Inductive, FinishedFirst
<1> QED
  BY <1>2, <1>3, <1>4, <1>5, <1>6, QueueSteps

\* Only a stall sends a job back that a live thread runs.
LEMMA ReclaimKeeps ==
    ASSUME Inductive, NEW t \in Tasks, Reclaim(t)
    PROVE  Inductive'
<1>1. /\ task[t] = "running" /\ task' = [task EXCEPT ![t] = "pending"]
      /\ UNCHANGED <<analysis, irpJobs, worker, poller, deleter, rmLive, runs>>
  BY DEF Reclaim
<1>2. /\ spent \in Budget /\ spent.stalls \in Nat /\ Batching' = Batching
      /\ Cardinality(Batching) \in Nat
  BY <1>1, Counts DEF Inductive, Typed, Budget, Batching, ThreadsCounted
<1>3. /\ spent.stalls <= MaxStalls /\ Cardinality(Batching) <= spent.stalls + 1
      /\ task[Batch] # "running" => Cardinality(Batching) <= spent.stalls
  BY DEF Inductive, Staffed
<1>4. task'[Batch] # "running" => t = Batch \/ task[Batch] # "running"
  BY <1>1, TaskFacts DEF Inductive, Typed
<1>5. CASE \E v \in Workers : worker[v].task = t
  <2>1. spent.stalls < MaxStalls /\ Spends("stalls")
    BY <1>5, SpendEffect DEF Reclaim, Inductive
  <2>2. /\ spent' \in Budget /\ spent'.crashes = spent.crashes
        /\ spent'.stalls = spent.stalls + 1 /\ spent'.lost = spent.lost
    BY <2>1 DEF Spends
  <2>3. Staffed'
    BY <1>2, <1>3, <2>1, <2>2, ConstantFacts DEF Staffed
  <2>4. spent'.stalls >= spent.stalls
    BY <1>2, <2>2
  <2> QED
    BY <1>1, <2>2, <2>3, <2>4, Requeued
<1>6. CASE ~ \E v \in Workers : worker[v].task = t
  <2>1. UNCHANGED spent
    BY <1>6 DEF Reclaim
  <2>2. t = Batch => Cardinality(Batching) = 0
    <3>1. t = Batch => Batching = {}
      BY <1>6 DEF Batching
    <3> QED
      BY <3>1, FS_EmptySet
  <2>3. Staffed'
    BY <1>2, <1>3, <1>4, <2>1, <2>2 DEF Staffed
  <2>4. spent'.stalls >= spent.stalls
    BY <1>2, <2>1
  <2> QED
    BY <1>1, <1>2, <2>1, <2>3, <2>4, Requeued
<1> QED
  BY <1>5, <1>6

LEMMA RequestKeeps ==
    ASSUME Inductive, NEW t \in Tasks, task' = [task EXCEPT ![t] = "pending"], Spend("requests"),
           task[t] # "running",
           \A u \in Units, i \in JobIndex : t = Finalize(u, i) => task[t] # "absent",
           UNCHANGED <<analysis, irpJobs, worker, poller, deleter, rmLive, runs>>
    PROVE  Inductive'
<1>1. Spends("requests")
  BY SpendEffect DEF Inductive
<1>2. /\ spent' \in Budget /\ spent'.crashes = spent.crashes
      /\ spent'.stalls = spent.stalls /\ spent'.lost = spent.lost /\ spent.stalls \in Nat
  BY <1>1 DEF Spends
<1>3. \A v \in Workers : SameJob(v)
  BY DEF SameJob
<1>4. task'[Batch] = "running" <=> task[Batch] = "running"
  BY TaskFacts DEF Inductive, Typed
<1>5. Staffed'
  BY <1>2, <1>3, <1>4, StaffedKeeps DEF Inductive
<1>6. spent'.stalls >= spent.stalls
  BY <1>2
<1> QED
  BY <1>2, <1>5, <1>6, Requeued

LEMMA ResubmitKeeps ==
    ASSUME Inductive, NEW t \in Tasks, Resubmit(t)
    PROVE  Inductive'
BY RequestKeeps DEF Resubmit

LEMMA RetryRetrievalKeeps ==
    ASSUME Inductive, NEW u \in Units, RetryRetrieval(u)
    PROVE  Inductive'
<1>1. /\ task' = [task EXCEPT ![Retrieve(u)] = "pending"] /\ Spend("requests")
      /\ task[Retrieve(u)] # "running"
      /\ UNCHANGED <<analysis, irpJobs, worker, poller, deleter, rmLive, runs>>
  BY DEF RetryRetrieval
<1>2. Retrieve(u) \in Tasks /\ \A v \in Units, i \in JobIndex : Retrieve(u) # Finalize(v, i)
  BY TaskFacts
<1> QED
  BY <1>1, <1>2, RequestKeeps

-----------------------------------------------------------------------------
(* The poller and the delete requests: no thread moves *)

\* The run of an irp_job had not ended; a failed submit is one the poller holds.
Unended(u, i) ==
    /\ i \in DOMAIN irpJobs[u]
    /\ irpJobs[u][i].status \notin {"FINISHED", "FAILED"}
    /\ irpJobs[u][i].status = "SUBMISSION_FAILED" =>
           <<u, i>> \in poller.todo /\ ~ analysis[u].deleted

\* It changes, and the rest follows what finished.
JobChange(u, i) ==
    /\ Unended(u, i) /\ JobPut(u, i)
    /\ irpJobs'[u][i].named => irpJobs'[u][i].status = "FINISHED"
    /\ poller'.todo \subseteq poller.todo
    /\ task'[Batch] = task[Batch]
    /\ \A v \in Units, k \in JobIndex :
          /\ task'[Finalize(v, k)] # "absent" => task[Finalize(v, k)] # "absent" \/ Finished(v, k)'
          /\ <<v, k>> \in rmLive' => <<v, k>> \in rmLive \/ (v = u /\ k = i /\ Finished(v, k)')
    /\ \A v \in Units :
          /\ v # u => analysis'[v] = analysis[v]
          /\ analysis'[v].irpId = analysis[v].irpId /\ analysis'[v].deleted = analysis[v].deleted
          /\ analysis[v].status # "none" => analysis'[v].status # "none"
    /\ UNCHANGED <<worker, deleter, runs, spent>>

LEMMA JobChanges ==
    ASSUME Inductive, Typed', NEW u \in Units, NEW i \in JobIndex, JobChange(u, i),
           OneJob(u) => PendingFirst(u)' /\ PointedFirst(u)'
    PROVE  /\ Placed' /\ Staffed' /\ JobsCounted' /\ FinishedFirst'
           /\ RowsFollow' /\ OnlyJob' /\ Deleting' /\ Deleted'
<1>1. /\ UNCHANGED <<worker, deleter, runs, spent>> /\ JobPut(u, i) /\ Unended(u, i)
      /\ i \in DOMAIN irpJobs[u] /\ irpJobs[u][i].status \notin {"FINISHED", "FAILED"}
  BY DEF JobChange, Unended
<1>2. /\ irpJobs' \in [Units -> Seq(IrpJob)]
      /\ \A v \in Units : Len(irpJobs'[v]) = Len(irpJobs[v])
      /\ \A v \in Units : DOMAIN irpJobs'[v] = DOMAIN irpJobs[v]
      /\ \A v \in Units : \A k \in DOMAIN irpJobs[v] :
            v # u \/ k # i => irpJobs'[v][k] = irpJobs[v][k]
  BY <1>1 DEF JobPut
<1>3. Rows /\ Rows'
  BY <1>2, RowFacts, NextRowFacts DEF Inductive, Typed
<1>4. \A v \in Units : irpJobs'[v] = <<>> <=> irpJobs[v] = <<>>
  BY <1>2, <1>3 DEF Rows
<1>5. \A v \in Units : OneJob(v)' <=> OneJob(v)
  BY <1>2 DEF OneJob
<1>6. OneJob(u) => i = 1
  BY <1>1, <1>3 DEF OneJob, Rows
<1>7. \A v \in Units \ {u} : OneJob(v) => Only(v)' = Only(v)
  BY <1>2, <1>3 DEF OneJob, Rows, Only
<1>8. Placed'
  BY <1>1 DEF Inductive, Placed
<1>9. Staffed'
  <2>1. \A v \in Workers : SameJob(v)
    BY <1>1 DEF SameJob
  <2> QED
    BY <1>1, <2>1, StaffedKeeps DEF Inductive, JobChange
<1>10. JobsCounted'
  <2>1. \A v \in Units : \A x \in Workers : Submits1(x, v)' => Submits1(x, v)
    BY <1>1 DEF Submits1
  <2>2. spent'.stalls >= spent.stalls
    BY <1>1 DEF Inductive, Typed, Budget
  <2> QED
    BY <1>2, <2>1, <2>2, JobsCountedKeeps DEF Inductive, Typed
<1>11. FinishedFirst'
  <2>1. ASSUME NEW v \in Units, NEW k, Finished(v, k)
        PROVE  Finished(v, k)'
    BY <1>1, <1>2, <2>1 DEF Finished
  <2>2. \A v \in Units : analysis'[v].irpId # 0 => Finished(v, analysis[v].irpId)'
    <3> SUFFICES ASSUME NEW v \in Units, analysis[v].irpId # 0
                 PROVE  Finished(v, analysis[v].irpId)'
      BY DEF JobChange
    <3>1. Finished(v, analysis[v].irpId)
      BY DEF Inductive, FinishedFirst
    <3>2. analysis'[v].irpId = analysis[v].irpId
      BY DEF JobChange
    <3> QED
      BY <1>1, <1>2, <3>1, <3>2 DEF Finished
  <2>3. ASSUME NEW v \in Units, NEW k \in DOMAIN irpJobs'[v], irpJobs'[v][k].named
        PROVE  Finished(v, k)'
    <3>1. k \in DOMAIN irpJobs[v]
      BY <1>2
    <3>2. CASE v = u /\ k = i
      BY <2>3, <3>2 DEF JobChange, Finished
    <3>3. CASE ~ (v = u /\ k = i)
      <4>1. irpJobs[v][k].named
        BY <1>2, <2>3, <3>1, <3>3
      <4>2. Finished(v, k)
        BY <3>1, <4>1 DEF Inductive, FinishedFirst
      <4> QED
        BY <2>1, <4>2
    <3> QED
      BY <3>2, <3>3
  <2>4. \A v \in Units, k \in JobIndex :
            /\ task'[Finalize(v, k)] # "absent" => Finished(v, k)'
            /\ <<v, k>> \in rmLive' => Finished(v, k)'
            /\ \A x \in Workers : worker'[x].task = Finalize(v, k) => Finished(v, k)'
    <3> TAKE v \in Units, k \in JobIndex
    <3>1. Finished(v, k) => Finished(v, k)'
      BY <2>1
    <3>2. task[Finalize(v, k)] # "absent" \/ <<v, k>> \in rmLive => Finished(v, k)
      BY DEF Inductive, FinishedFirst
    <3>3. \A x \in Workers : worker[x].task = Finalize(v, k) => Finished(v, k)
      BY DEF Inductive, FinishedFirst
    <3>4. /\ task'[Finalize(v, k)] # "absent" => task[Finalize(v, k)] # "absent" \/ Finished(v, k)'
          /\ <<v, k>> \in rmLive' => <<v, k>> \in rmLive \/ Finished(v, k)'
      BY DEF JobChange
    <3> QED
      BY <1>1, <3>1, <3>2, <3>3, <3>4
  <2> QED
    BY <2>2, <2>3, <2>4 DEF FinishedFirst
<1>12. RowsFollow'
  <2>1. \A v \in Units : irpJobs[v] = <<>> => v # u
    BY <1>1, <1>3 DEF Rows
  <2>2. \A v \in Units : /\ v # u => analysis'[v] = analysis[v]
                         /\ analysis'[v].irpId = analysis[v].irpId
                         /\ analysis[v].status # "none" => analysis'[v].status # "none"
    BY DEF JobChange
  <2> QED
    BY <1>1, <1>4, <2>1, <2>2 DEF Inductive, RowsFollow
<1>13. OnlyJob'
  <2> SUFFICES ASSUME NEW v \in Units, OneJob(v)
               PROVE  PendingFirst(v)' /\ MarkingAlone(v)' /\ PointedFirst(v)'
    BY <1>5 DEF OnlyJob
  <2>1. PendingFirst(v) /\ MarkingAlone(v) /\ PointedFirst(v)
    BY DEF Inductive, OnlyJob
  <2>2. poller'.todo \subseteq poller.todo
    BY DEF JobChange
  <2>3. CASE v # u
    <3>1. Only(v)' = Only(v) /\ analysis'[v] = analysis[v]
      BY <1>7, <2>3 DEF JobChange
    <3> QED
      BY <1>1, <2>1, <2>2, <3>1 DEF PendingFirst, MarkingAlone, PointedFirst
  <2>4. CASE v = u
    <3>1. i = 1
      BY <1>6, <2>4
    <3>2. \A w \in Workers : ~ (worker[w].at = "mark_error" /\ worker[w].unit = u)
      BY <1>1, <2>1, <2>4, <3>1 DEF MarkingAlone, Unended, Only
    <3>3. MarkingAlone(v)'
      BY <1>1, <2>4, <3>2 DEF MarkingAlone
    <3> QED
      BY <2>4, <3>3
  <2> QED
    BY <2>3, <2>4
<1>14. Deleting'
  <2>1. \A v \in Units : OneJob(v) /\ Ended(v) => v # u
    BY <1>1, <1>6 DEF Ended, Only
  <2>2. \A v \in Units : OneJob(v) /\ Ended(v) => Only(v)' = Only(v) /\ Ended(v)'
    BY <1>7, <2>1 DEF Ended
  <2>3. \A v \in Units : v # u /\ <<v, 1>> \in rmLive' => <<v, 1>> \in rmLive
    BY ConstantFacts DEF JobChange
  <2> QED
    BY <1>1, <1>2, <1>4, <1>5, <2>1, <2>2, <2>3 DEF Inductive, Deleting
<1>15. Deleted'
  <2> SUFFICES ASSUME NEW v \in Units, analysis[v].deleted, OneJob(v)
               PROVE  /\ Ended(v)' \/ Only(v)'.status = "SUBMISSION_FAILED"
                      /\ Only(v)'.named => <<v, 1>> \notin rmLive'
    BY <1>5 DEF Deleted, JobChange
  <2>1. /\ Ended(v) \/ Only(v).status = "SUBMISSION_FAILED"
        /\ Only(v).named => <<v, 1>> \notin rmLive
    BY DEF Inductive, Deleted
  <2>2. v # u
    BY <1>1, <1>6, <2>1 DEF Ended, Only, Unended
  <2>3. Only(v)' = Only(v)
    BY <1>7, <2>2
  <2>4. <<v, 1>> \in rmLive' => <<v, 1>> \in rmLive
    BY <2>2, ConstantFacts DEF JobChange
  <2> QED
    BY <2>1, <2>3, <2>4 DEF Ended
<1> QED
  BY <1>8, <1>9, <1>10, <1>11, <1>12, <1>13, <1>14, <1>15

\* Taken rows stay taken, and nobody hears of a run.
LEMMA JobQuiet ==
    ASSUME Inductive, Typed', NEW u \in Units, NEW i \in DOMAIN irpJobs[u], JobPut(u, i),
           irpJobs'[u][i].status \in Taken <=> irpJobs[u][i].status \in Taken,
           poller.at # "record", poller'.at # "record",
           UNCHANGED <<worker, runs, spent>>
    PROVE  RunsCounted'
<1>1. ASSUME NEW v \in Units
      PROVE  Accepted(v)' = Accepted(v)
  BY DEF Accepted, JobPut
<1>2. \A v \in Units : RetryHeard(v)' = RetryHeard(v)
  BY DEF RetryHeard
<1>3. \A v \in Units : \A x \in Workers : Hears(x, v)' <=> Hears(x, v)
  BY DEF Hears
<1>4. spent.crashes \in Nat /\ spent.lost \in Nat
  BY DEF Inductive, Typed, Budget
<1> QED
  BY <1>1, <1>2, <1>3, <1>4, RunsCountedKeeps DEF Inductive

\* An irp_job whose run has not finished names no analysis.
LEMMA Unnamed ==
    ASSUME Inductive, NEW u \in Units, NEW i \in DOMAIN irpJobs[u],
           irpJobs[u][i].status # "FINISHED"
    PROVE  irpJobs[u][i].named = FALSE
BY DEF Inductive, FinishedFirst, Finished, Typed, IrpJob

-----------------------------------------------------------------------------
(* _track_irp_jobs *)

LEMMA TrackEffect ==
    ASSUME Inductive, NEW u \in Units, NEW i \in JobIndex, Track(u, i)
    PROVE  /\ i \in DOMAIN irpJobs[u] /\ irpJobs[u][i].status \in {"QUEUED", "RUNNING"}
           /\ irpJobs[u][i].named = FALSE /\ Unended(u, i)
           /\ poller.at = "idle" /\ poller.todo = {} /\ poller' = poller
           /\ UNCHANGED <<worker, deleter, runs, spent>>
           /\ OneJob(u) => i = 1 /\ analysis[u].status = "pending"
<1>1. /\ i \in DOMAIN irpJobs[u] /\ irpJobs[u][i].status \in {"QUEUED", "RUNNING"}
      /\ poller.at = "idle" /\ poller' = poller /\ UNCHANGED <<worker, deleter, runs, spent>>
  BY DEF Track
<1>2. poller.todo = {}
  BY <1>1 DEF Inductive, RetryHeld
<1>3. irpJobs[u][i].named = FALSE
  BY <1>1, Unnamed
<1>4. Unended(u, i)
  BY <1>1 DEF Unended
<1>5. OneJob(u) => i = 1
  BY <1>1, RowFacts DEF OneJob, Rows, Inductive, Typed
<1>6. OneJob(u) => analysis[u].status = "pending"
  BY <1>1, <1>5 DEF Inductive, OnlyJob, PendingFirst, Only
<1> QED
  BY <1>1, <1>2, <1>3, <1>4, <1>5, <1>6

LEMMA TrackRunningKeeps ==
    ASSUME Inductive, NEW u \in Units, NEW i \in JobIndex, TrackRunning(u, i)
    PROVE  Inductive'
<1>1. /\ i \in DOMAIN irpJobs[u] /\ irpJobs[u][i].status \in {"QUEUED", "RUNNING"}
      /\ irpJobs[u][i].named = FALSE /\ Unended(u, i)
      /\ poller.at = "idle" /\ poller.todo = {} /\ poller' = poller
      /\ UNCHANGED <<worker, deleter, runs, spent>>
      /\ OneJob(u) => i = 1 /\ analysis[u].status = "pending"
  BY TrackEffect DEF TrackRunning
<1>2. UNCHANGED <<analysis, task, rmLive>> /\ SetJob(u, i, "RUNNING")
  BY DEF TrackRunning
<1>3. JobPut(u, i) /\ irpJobs'[u][i].status = "RUNNING" /\ irpJobs'[u][i].named = FALSE
  BY <1>1, <1>2, JobSets DEF Inductive, Typed, JobStatus
<1>4. Typed'
  BY <1>1, <1>2, <1>3 DEF Inductive, Typed, JobPut
<1>5. JobChange(u, i)
  BY <1>1, <1>2, <1>3 DEF JobChange
<1>6. OneJob(u) => PendingFirst(u)' /\ PointedFirst(u)'
  BY <1>1, <1>2, <1>3 DEF PendingFirst, PointedFirst, Only
<1>7. RunsCounted'
  BY <1>1, <1>3, <1>4, JobQuiet DEF Taken
<1>8. RetryHeld'
  BY <1>1 DEF RetryHeld, RetryingAt
<1> QED
  BY <1>4, <1>5, <1>6, <1>7, <1>8, JobChanges DEF Inductive

LEMMA TrackFailedKeeps ==
    ASSUME Inductive, NEW u \in Units, NEW i \in JobIndex, TrackFailed(u, i)
    PROVE  Inductive'
<1>1. /\ i \in DOMAIN irpJobs[u] /\ irpJobs[u][i].status \in {"QUEUED", "RUNNING"}
      /\ irpJobs[u][i].named = FALSE /\ Unended(u, i)
      /\ poller.at = "idle" /\ poller.todo = {} /\ poller' = poller
      /\ UNCHANGED <<worker, deleter, runs, spent>>
      /\ OneJob(u) => i = 1 /\ analysis[u].status = "pending"
  BY TrackEffect DEF TrackFailed
<1>2. UNCHANGED <<task, rmLive>> /\ SetJob(u, i, "FAILED") /\ StatusSet(u, "error")
  BY StatusSets DEF TrackFailed, Inductive, Typed
<1>3. JobPut(u, i) /\ irpJobs'[u][i].status = "FAILED" /\ irpJobs'[u][i].named = FALSE
  BY <1>1, <1>2, JobSets DEF Inductive, Typed, JobStatus
<1>4. Typed'
  BY <1>1, <1>2, <1>3 DEF Inductive, Typed, JobPut, StatusSet
<1>5. JobChange(u, i)
  BY <1>1, <1>2, <1>3 DEF JobChange, StatusSet
<1>6. OneJob(u) => PendingFirst(u)' /\ PointedFirst(u)'
  BY <1>1, <1>2, <1>3 DEF PendingFirst, PointedFirst, Only
<1>7. RunsCounted'
  BY <1>1, <1>3, <1>4, JobQuiet DEF Taken
<1>8. RetryHeld'
  BY <1>1 DEF RetryHeld, RetryingAt
<1> QED
  BY <1>4, <1>5, <1>6, <1>7, <1>8, JobChanges DEF Inductive

LEMMA TrackFinishedKeeps ==
    ASSUME Inductive, NEW u \in Units, NEW i \in JobIndex, TrackFinished(u, i)
    PROVE  Inductive'
<1>1. /\ i \in DOMAIN irpJobs[u] /\ irpJobs[u][i].status \in {"QUEUED", "RUNNING"}
      /\ irpJobs[u][i].named = FALSE /\ Unended(u, i)
      /\ poller.at = "idle" /\ poller.todo = {} /\ poller' = poller
      /\ UNCHANGED <<worker, deleter, runs, spent>>
      /\ OneJob(u) => i = 1 /\ analysis[u].status = "pending"
  BY TrackEffect DEF TrackFinished
<1>2. UNCHANGED analysis /\ rmLive' = rmLive \cup {<<u, i>>}
  BY DEF TrackFinished
<1>3. JobPut(u, i) /\ irpJobs'[u][i].status = "FINISHED"
  <2>1. PICK named \in BOOLEAN :
            irpJobs' = [irpJobs EXCEPT ![u][i].status = "FINISHED", ![u][i].named = named]
    BY DEF TrackFinished
  <2>. DEFINE r == [irpJobs[u][i] EXCEPT !.status = "FINISHED", !.named = named]
  <2>2. irpJobs[u][i] \in IrpJob
    BY <1>1 DEF Inductive, Typed
  <2>3. r \in IrpJob /\ r.status = "FINISHED"
    BY <2>2 DEF IrpJob, JobStatus
  <2>4. irpJobs' = [irpJobs EXCEPT ![u][i] = r]
    BY <1>1, <2>1 DEF Inductive, Typed
  <2>. HIDE DEF r
  <2> QED
    BY <1>1, <2>3, <2>4, JobPuts DEF Inductive, Typed
<1>4. /\ task' \in [Tasks -> TaskStatus]
      /\ \A t \in Tasks \ {Finalize(u, i)} : task'[t] = task[t]
  BY DEF TrackFinished, Inductive, Typed, TaskStatus
<1>5. Finished(u, i)'
  BY <1>1, <1>3 DEF Finished, JobPut
<1>6. Typed'
  BY <1>1, <1>2, <1>3, <1>4 DEF Inductive, Typed, JobPut
<1>7. JobChange(u, i)
  <2>1. task'[Batch] = task[Batch]
    BY <1>4, TaskFacts
  <2>2. ASSUME NEW v \in Units, NEW k \in JobIndex
        PROVE  /\ task'[Finalize(v, k)] # "absent" =>
                      task[Finalize(v, k)] # "absent" \/ Finished(v, k)'
               /\ <<v, k>> \in rmLive' =>
                      <<v, k>> \in rmLive \/ (v = u /\ k = i /\ Finished(v, k)')
    <3>1. CASE v = u /\ k = i
      BY <1>5, <3>1
    <3>2. CASE ~ (v = u /\ k = i)
      BY <1>2, <1>4, <3>2, TaskFacts
    <3> QED
      BY <3>1, <3>2
  <2> QED
    BY <1>1, <1>2, <1>3, <2>1, <2>2 DEF JobChange
<1>8. OneJob(u) => PendingFirst(u)' /\ PointedFirst(u)'
  BY <1>1, <1>2, <1>3 DEF PendingFirst, PointedFirst, Only
<1>9. RunsCounted'
  BY <1>1, <1>3, <1>6, JobQuiet DEF Taken
<1>10. RetryHeld'
  BY <1>1 DEF RetryHeld, RetryingAt
<1> QED
  BY <1>6, <1>7, <1>8, <1>9, <1>10, JobChanges DEF Inductive

-----------------------------------------------------------------------------
(* _submission_retry *)

LEMMA BatchDoneIs ==
    ASSUME NEW todo \in SUBSET (Units \X JobIndex)
    PROVE  /\ BatchDone(todo) \in Retry /\ BatchDone(todo).todo = todo
           /\ BatchDone(todo).at \in {"idle", "batch"}
           /\ BatchDone(todo).at = "idle" => todo = {}
<1>. DEFINE p == IF todo = {} THEN "idle" ELSE "batch"
<1>1. p \in {"idle", "batch"} /\ (p = "idle" => todo = {})
  OBVIOUS
<1>2. BatchDone(todo) = [Resting EXCEPT !.at = p, !.todo = todo]
  BY DEF BatchDone
<1>. HIDE DEF p
<1>3. /\ Resting \in Retry
      /\ BatchDone(todo) \in Retry /\ BatchDone(todo).todo = todo /\ BatchDone(todo).at = p
  <2>1. Resting \in Retry
    BY DEF Resting, Retry, RetryAt
  <2> QED
    BY <1>1, <1>2, <2>1 DEF Retry, RetryAt
<1> QED
  BY <1>1, <1>3

\* The poller moves on and no row changes.
LEMMA PollerSteps ==
    ASSUME Inductive, Typed', RetryHeld', RunsCounted', spent'.stalls = spent.stalls,
           \A u \in Units : <<u, 1>> \in poller'.todo \ poller.todo =>
               /\ analysis[u].status = "pending"
               /\ \A w \in Workers : ~ (worker[w].at = "mark_error" /\ worker[w].unit = u),
           UNCHANGED <<analysis, irpJobs, task, worker, deleter, rmLive>>
    PROVE  Inductive'
<1>1. Placed'
  BY DEF Inductive, Placed
<1>2. Staffed'
  BY StaffedKeeps DEF Inductive, SameJob
<1>3. JobsCounted'
  <2>1. \A u \in Units : \A v \in Workers : Submits1(v, u)' => Submits1(v, u)
    BY DEF Submits1
  <2>2. spent'.stalls >= spent.stalls
    BY DEF Inductive, Typed, Budget
  <2> QED
    BY <2>1, <2>2, JobsCountedKeeps DEF Inductive, Typed
<1>4. FinishedFirst'
  BY DEF Inductive, FinishedFirst, Finished
<1>5. RowsFollow'
  BY DEF Inductive, RowsFollow
<1>6. OnlyJob'
  <2>1. \A u \in Units : PendingFirst(u) => PendingFirst(u)'
    BY DEF PendingFirst, Only
  <2>2. \A u \in Units : MarkingAlone(u) => MarkingAlone(u)'
    BY DEF MarkingAlone, Only
  <2>3. \A u \in Units : PointedFirst(u) => PointedFirst(u)'
    BY DEF PointedFirst, Only
  <2>4. \A u \in Units : OneJob(u)' <=> OneJob(u)
    BY DEF OneJob
  <2> QED
    BY <2>1, <2>2, <2>3, <2>4 DEF Inductive, OnlyJob
<1>7. Deleting'
  BY DEF Inductive, Deleting, OneJob, Only, Ended
<1>8. Deleted'
  BY DEF Inductive, Deleted, OneJob, Only, Ended
<1> QED
  BY <1>1, <1>2, <1>3, <1>4, <1>5, <1>6, <1>7, <1>8 DEF Inductive

\* The poller neither hears of a run nor records one.
LEMMA PollerQuiet ==
    ASSUME Inductive, Typed', poller.at # "record", poller'.at # "record",
           spent'.crashes >= spent.crashes, spent'.lost >= spent.lost,
           UNCHANGED <<irpJobs, worker, runs>>
    PROVE  RunsCounted'
<1>1. \A u \in Units : Accepted(u)' = Accepted(u)
  BY DEF Accepted
<1>2. \A u \in Units : RetryHeard(u)' = RetryHeard(u)
  BY DEF RetryHeard
<1>3. \A u \in Units : \A v \in Workers : Hears(v, u)' <=> Hears(v, u)
  BY DEF Hears
<1> QED
  BY <1>1, <1>2, <1>3, RunsCountedKeeps DEF Inductive

LEMMA RetrySelectKeeps ==
    ASSUME Inductive, RetrySelect
    PROVE  Inductive'
<1>1. /\ poller.at = "idle" /\ poller' = [Resting EXCEPT !.at = "batch", !.todo = Candidates]
      /\ UNCHANGED <<analysis, irpJobs, task, worker, deleter, rmLive, runs, spent>>
  BY DEF RetrySelect
<1>2. Candidates \in SUBSET (Units \X JobIndex)
  BY DEF Candidates
<1>3. poller' \in Retry /\ poller'.at = "batch" /\ poller'.todo = Candidates
  <2>1. Resting \in Retry
    BY DEF Resting, Retry, RetryAt
  <2>. HIDE DEF Resting
  <2> QED
    BY <1>1, <1>2, <2>1 DEF Retry, RetryAt
<1>4. \A u \in Units, i \in JobIndex : <<u, i>> \in Candidates =>
          /\ i \in DOMAIN irpJobs[u] /\ irpJobs[u][i].status = "SUBMISSION_FAILED"
          /\ analysis[u].status = "pending"
          /\ \A w \in Workers : ~ (worker[w].at = "mark_error" /\ worker[w].unit = u)
  BY DEF Candidates
<1>5. Typed'
  BY <1>1, <1>3 DEF Inductive, Typed
<1>6. RetryHeld'
  BY <1>1, <1>3, <1>4 DEF RetryHeld, RetryingAt
<1>7. RunsCounted'
  <2>1. spent.crashes \in Nat /\ spent.lost \in Nat
    BY DEF Inductive, Typed, Budget
  <2> QED
    BY <1>1, <1>3, <1>5, <2>1, PollerQuiet
<1>8. \A u \in Units : <<u, 1>> \in poller'.todo \ poller.todo =>
               /\ analysis[u].status = "pending"
               /\ \A w \in Workers : ~ (worker[w].at = "mark_error" /\ worker[w].unit = u)
  BY <1>3, <1>4, ConstantFacts
<1> QED
  BY <1>1, <1>5, <1>6, <1>7, <1>8, PollerSteps

\* The failed submits the poller holds stay so while it changes another one.
LEMMA HeldOthers ==
    ASSUME Inductive, NEW u \in Units, NEW i \in JobIndex, JobPut(u, i),
           NEW v \in Units, NEW k \in JobIndex, <<v, k>> \in poller.todo, <<v, k>> # <<u, i>>
    PROVE  k \in DOMAIN irpJobs'[v] /\ irpJobs'[v][k].status = "SUBMISSION_FAILED"
<1>1. k \in DOMAIN irpJobs[v] /\ irpJobs[v][k].status = "SUBMISSION_FAILED"
  BY DEF Inductive, RetryHeld
<1>2. v # u \/ k # i
  OBVIOUS
<1> QED
  BY <1>1, <1>2 DEF JobPut

LEMMA RetryClaimKeeps ==
    ASSUME Inductive, RetryClaim
    PROVE  Inductive'
<1>1. poller.at = "batch" /\ UNCHANGED <<analysis, task, worker, deleter, rmLive, runs, spent>>
  BY DEF RetryClaim
<1>2. poller.todo \in SUBSET (Units \X JobIndex)
  BY DEF Inductive, Typed, Retry
<1>3. PICK c \in poller.todo :
          IF Claimable(c[1], c[2])
            THEN /\ SetJob(c[1], c[2], "SUBMISSION_RETRYING")
                 /\ poller' = [at |-> "submit", todo |-> poller.todo \ {c},
                               unit |-> c[1], job |-> c[2]]
            ELSE poller' = BatchDone(poller.todo \ {c}) /\ UNCHANGED irpJobs
  BY DEF RetryClaim
<1>4. PICK u \in Units, i \in JobIndex : c = <<u, i>>
  BY <1>2, <1>3
<1>5. i \in DOMAIN irpJobs[u] /\ irpJobs[u][i].status = "SUBMISSION_FAILED" /\ <<u, i>> \in poller.todo
  BY <1>3, <1>4 DEF Inductive, RetryHeld
<1>. DEFINE rest == poller.todo \ {<<u, i>>}
<1>6. rest \in SUBSET (Units \X JobIndex) /\ rest \subseteq poller.todo /\ <<u, i>> \notin rest
  BY <1>2
<1>. HIDE DEF rest
<1>7. CASE ~ Claimable(u, i)
  <2>1. poller' = BatchDone(rest) /\ UNCHANGED irpJobs
    BY <1>3, <1>4, <1>7 DEF rest
  <2>2. /\ poller' \in Retry /\ poller'.todo = rest /\ poller'.at \in {"idle", "batch"}
        /\ poller'.at = "idle" => rest = {}
    BY <1>6, <2>1, BatchDoneIs
  <2>3. Typed'
    BY <1>1, <2>1, <2>2 DEF Inductive, Typed
  <2>4. RetryHeld'
    BY <1>6, <2>1, <2>2 DEF Inductive, RetryHeld, RetryingAt
  <2>5. RunsCounted'
    <3>1. spent.crashes \in Nat /\ spent.lost \in Nat
      BY DEF Inductive, Typed, Budget
    <3> QED
      BY <1>1, <2>1, <2>2, <2>3, <3>1, PollerQuiet
  <2> QED
    BY <1>1, <1>6, <2>1, <2>2, <2>3, <2>4, <2>5, PollerSteps
<1>8. CASE Claimable(u, i)
  <2>1. /\ SetJob(u, i, "SUBMISSION_RETRYING")
        /\ poller' = [at |-> "submit", todo |-> rest, unit |-> u, job |-> i]
    BY <1>3, <1>4, <1>8 DEF rest
  <2>2. /\ poller' \in Retry /\ poller'.todo = rest /\ poller'.at = "submit"
        /\ poller'.unit = u /\ poller'.job = i
    BY <1>6, <2>1, ConstantFacts DEF Retry, RetryAt
  <2>3. irpJobs[u][i].named = FALSE /\ ~ analysis[u].deleted
    BY <1>5, <1>8, Unnamed DEF Claimable
  <2>4. /\ JobPut(u, i) /\ irpJobs'[u][i].status = "SUBMISSION_RETRYING"
        /\ irpJobs'[u][i].named = FALSE
    BY <1>5, <2>1, <2>3, JobSets DEF Inductive, Typed, JobStatus
  <2>5. Typed'
    BY <1>1, <2>2, <2>4 DEF Inductive, Typed, JobPut
  <2>6. JobChange(u, i)
    BY <1>1, <1>5, <1>6, <2>2, <2>3, <2>4 DEF JobChange, Unended
  <2>7. OneJob(u) => PendingFirst(u)' /\ PointedFirst(u)'
    <3>1. OneJob(u) => i = 1
      BY <1>5, RowFacts DEF OneJob, Rows, Inductive, Typed
    <3>2. OneJob(u) => analysis[u].status = "pending"
      BY <1>5, <3>1 DEF Inductive, OnlyJob, PendingFirst
    <3> QED
      BY <1>1, <2>2, <2>4, <3>1, <3>2 DEF PendingFirst, PointedFirst, Only
  <2>8. RunsCounted'
    BY <1>1, <1>5, <2>2, <2>4, <2>5, JobQuiet DEF Taken
  <2>9. RetryHeld'
    <3>1. \A v \in Units, k \in JobIndex : <<v, k>> \in rest =>
              k \in DOMAIN irpJobs'[v] /\ irpJobs'[v][k].status = "SUBMISSION_FAILED"
      BY <1>4, <1>6, <2>4, HeldOthers
    <3>2. i \in DOMAIN irpJobs'[u]
      BY <1>5, <2>4 DEF JobPut
    <3> QED
      BY <2>2, <2>4, <3>1, <3>2 DEF RetryHeld
  <2> QED
    BY <2>5, <2>6, <2>7, <2>8, <2>9, JobChanges DEF Inductive
<1> QED
  BY <1>7, <1>8

\* What the poller holds while it retries.
LEMMA Retried ==
    ASSUME Inductive, poller.at \in RetryingAt
    PROVE  /\ poller.unit \in Units /\ poller.job \in JobIndex
           /\ poller.job \in DOMAIN irpJobs[poller.unit]
           /\ irpJobs[poller.unit][poller.job].status = "SUBMISSION_RETRYING"
BY DEF Inductive, RetryHeld

LEMMA RetrySubmitKeeps ==
    ASSUME Inductive, RetrySubmit
    PROVE  Inductive'
<1>1. poller.at = "submit" /\ UNCHANGED <<analysis, irpJobs, task, worker, deleter, rmLive>>
  BY DEF RetrySubmit
<1>2. PICK u \in Units : u = poller.unit
  BY <1>1, Retried DEF RetryingAt, RetryAt
<1>3. PICK at \in Outcomes : RetryTo(at) /\ Submits(u, at)
  BY <1>2 DEF RetrySubmit
<1>4. PICK n \in {0, 1} : Submitted(u, at, n)
  BY <1>3, SubmitEffect DEF Inductive, Typed
<1>5. /\ poller' \in Retry /\ poller'.at = at /\ poller'.todo = poller.todo
      /\ poller'.unit = poller.unit /\ poller'.job = poller.job
  BY <1>3 DEF RetryTo, Outcomes, Inductive, Typed, Retry, RetryAt
<1>6. Typed'
  BY <1>1, <1>4, <1>5 DEF Inductive, Typed, Submitted
<1>7. RetryHeld'
  BY <1>1, <1>3, <1>5 DEF Inductive, RetryHeld, RetryingAt, RetryAt, Outcomes
<1>8. RunsCounted'
  <2>1. ASSUME NEW v \in Units
        PROVE  runs'[v] + Known(v) <= runs[v] + Known(v)'
    <3>1. Accepted(v)' = Accepted(v) /\ Heard(v)' = Heard(v)
      BY <1>1 DEF Accepted, Heard
    <3>2. /\ Cardinality(Accepted(v)) \in Nat /\ Cardinality(Heard(v)) \in Nat
          /\ runs[v] \in Nat
      BY Counts, RowCounts DEF Inductive, Typed, Counted, ThreadsCounted
    <3>3. /\ spent.crashes \in Nat /\ spent.lost \in Nat
          /\ spent'.crashes = spent.crashes /\ spent'.lost = spent.lost + n
      BY <1>4 DEF Submitted, Inductive, Typed, Budget
    <3>4. RetryHeard(v) = 0
      BY <1>1 DEF RetryHeard
    <3>5. CASE v = u /\ at = "record"
      <4>1. RetryHeard(v)' = 1
        BY <1>2, <1>5, <3>5 DEF RetryHeard
      <4>2. runs'[v] = runs[v] + 1 + n
        BY <1>4, <3>5 DEF Submitted
      <4> QED
        BY <3>1, <3>2, <3>3, <3>4, <4>1, <4>2, <1>4 DEF Known
    <3>6. CASE v # u \/ at # "record"
      <4>1. RetryHeard(v)' = 0
        BY <1>2, <1>5, <3>6 DEF RetryHeard
      <4>2. runs'[v] <= runs[v] + n /\ runs'[v] \in Nat
        BY <1>4, <3>2, <3>6 DEF Submitted
      <4> QED
        BY <3>1, <3>2, <3>3, <3>4, <4>1, <4>2, <1>4 DEF Known
    <3> QED
      BY <3>5, <3>6
  <2> QED
    BY <1>6, <2>1, RunsBalance DEF Inductive
<1> QED
  BY <1>1, <1>4, <1>5, <1>6, <1>7, <1>8, PollerSteps DEF Submitted

\* The outcome of a retry is recorded and the next candidate is up.
LEMMA RetryRecorded ==
    ASSUME Inductive, poller.at \in RetryingAt, NEW u \in Units, u = poller.unit,
           NEW i \in JobIndex, i = poller.job, JobPut(u, i),
           NEW st \in {"QUEUED", "SUBMISSION_FAILED"},
           irpJobs'[u][i].status = st, irpJobs'[u][i].named = FALSE,
           poller' = BatchDone(poller.todo),
           UNCHANGED analysis \/ (st = "SUBMISSION_FAILED" /\ StatusSet(u, "error")),
           UNCHANGED <<task, worker, deleter, rmLive, runs, spent>>, RunsCounted' \/ st # "QUEUED",
           poller.at # "record" \/ st = "QUEUED"
    PROVE  Inductive'
<1>1. i \in DOMAIN irpJobs[u] /\ irpJobs[u][i].status = "SUBMISSION_RETRYING"
  BY Retried
<1>2. poller.todo \in SUBSET (Units \X JobIndex)
  BY DEF Inductive, Typed, Retry
<1>3. /\ poller' \in Retry /\ poller'.todo = poller.todo /\ poller'.at \in {"idle", "batch"}
      /\ poller'.at = "idle" => poller.todo = {}
  BY <1>2, BatchDoneIs
<1>4. <<u, i>> \notin poller.todo
  BY <1>1 DEF Inductive, RetryHeld
<1>5. /\ analysis' \in [Units -> Analysis]
      /\ \A v \in Units : /\ v # u => analysis'[v] = analysis[v]
                          /\ analysis'[v].irpId = analysis[v].irpId
                          /\ analysis'[v].deleted = analysis[v].deleted
                          /\ analysis[v].status # "none" => analysis'[v].status # "none"
  BY DEF Inductive, Typed, StatusSet
<1>6. Typed'
  BY <1>3, <1>5 DEF Inductive, Typed, JobPut
<1>7. JobChange(u, i)
  BY <1>1, <1>3, <1>5 DEF JobChange, Unended
<1>8. OneJob(u) => PendingFirst(u)' /\ PointedFirst(u)'
  <2>1. OneJob(u) => i = 1
    BY <1>1, RowFacts DEF OneJob, Rows, Inductive, Typed
  <2>2. OneJob(u) => analysis[u].status = "pending"
    BY <1>1, <2>1 DEF Inductive, OnlyJob, PendingFirst, Only
  <2>3. st = "QUEUED" => UNCHANGED analysis
    OBVIOUS
  <2> QED
    BY <1>3, <1>4, <2>1, <2>2, <2>3 DEF PendingFirst, PointedFirst, Only
<1>9. RunsCounted'
  BY <1>1, <1>3, <1>6, JobQuiet DEF Taken
<1>10. RetryHeld'
  <2>1. \A v \in Units, k \in JobIndex : <<v, k>> \in poller.todo =>
            k \in DOMAIN irpJobs'[v] /\ irpJobs'[v][k].status = "SUBMISSION_FAILED"
    BY <1>4, HeldOthers
  <2> QED
    BY <1>3, <2>1 DEF RetryHeld, RetryingAt
<1> QED
  BY <1>6, <1>7, <1>8, <1>9, <1>10, JobChanges DEF Inductive

\* An irp_job with another status and one attempt more.
Attempted(u, i, st) ==
    irpJobs' = [irpJobs EXCEPT ![u][i].status = st, ![u][i].attempts = @ + 1]

LEMMA AttemptPuts ==
    ASSUME NEW u \in Units, irpJobs \in [Units -> Seq(IrpJob)], NEW i \in DOMAIN irpJobs[u],
           NEW st \in JobStatus, Attempted(u, i, st)
    PROVE  /\ JobPut(u, i) /\ irpJobs'[u][i].status = st
           /\ irpJobs'[u][i].named = irpJobs[u][i].named
<1>. DEFINE n == irpJobs[u][i].attempts + 1
            r == [irpJobs[u][i] EXCEPT !.status = st, !.attempts = n]
<1>1. irpJobs[u][i] \in IrpJob /\ n \in Nat
  <2>1. irpJobs[u] \in Seq(IrpJob)
    OBVIOUS
  <2>2. irpJobs[u][i] \in IrpJob
    BY <2>1
  <2>. HIDE DEF Attempted
  <2>3. irpJobs[u][i].attempts \in Nat
    BY <2>2 DEF IrpJob
  <2> QED
    BY <2>2, <2>3
<1>2. irpJobs' = [irpJobs EXCEPT ![u][i] = r]
  BY DEF Attempted
<1>. HIDE DEF n
<1>3. r \in IrpJob /\ r.status = st /\ r.named = irpJobs[u][i].named
  BY <1>1 DEF IrpJob
<1>. HIDE DEF r
<1> QED
  BY <1>2, <1>3, JobPuts

LEMMA RetryAcceptedKeeps ==
    ASSUME Inductive, RetryAccepted
    PROVE  Inductive'
<1>1. /\ poller.at = "record" /\ poller.at \in RetryingAt
      /\ poller' = BatchDone(poller.todo)
      /\ UNCHANGED <<analysis, task, worker, deleter, rmLive, runs, spent>>
  BY DEF RetryAccepted, RetryingAt, RetryAt
<1>2. PICK u \in Units, i \in JobIndex : u = poller.unit /\ i = poller.job
  BY <1>1, Retried
<1>3. i \in DOMAIN irpJobs[u] /\ irpJobs[u][i].status = "SUBMISSION_RETRYING"
  BY <1>1, <1>2, Retried
<1>4. Attempted(u, i, "QUEUED")
  BY <1>2 DEF RetryAccepted, Attempted
<1>5. /\ JobPut(u, i) /\ irpJobs'[u][i].status = "QUEUED" /\ irpJobs'[u][i].named = FALSE
  BY <1>3, <1>4, AttemptPuts, Unnamed DEF Inductive, Typed, JobStatus
<1>6. /\ poller' \in Retry /\ poller'.at \in {"idle", "batch"}
  BY <1>1, BatchDoneIs DEF Inductive, Typed, Retry
<1>7. Typed'
  BY <1>1, <1>5, <1>6 DEF Inductive, Typed, JobPut
<1>8. RunsCounted'
  <2>1. ASSUME NEW v \in Units
        PROVE  runs'[v] + Known(v) <= runs[v] + Known(v)'
    <3>1. Heard(v)' = Heard(v) /\ runs'[v] = runs[v]
      BY <1>1 DEF Heard
    <3>2. /\ Cardinality(Accepted(v)) \in Nat /\ Cardinality(Heard(v)) \in Nat
          /\ runs[v] \in Nat /\ IsFiniteSet(Accepted(v))
      BY Counts, RowCounts DEF Inductive, Typed, Counted, ThreadsCounted
    <3>3. /\ spent.crashes \in Nat /\ spent.lost \in Nat
          /\ spent'.crashes = spent.crashes /\ spent'.lost = spent.lost
      BY <1>1 DEF Inductive, Typed, Budget
    <3>4. RetryHeard(v)' = 0
      BY <1>6 DEF RetryHeard
    <3>5. CASE v = u
      <4>1. RetryHeard(v) = 1
        BY <1>1, <1>2, <3>5 DEF RetryHeard
      <4>2. Accepted(v)' = Accepted(v) \cup {i} /\ i \notin Accepted(v)
        BY <1>3, <1>5, <3>5 DEF Accepted, Taken, JobPut
      <4>3. Cardinality(Accepted(v))' = Cardinality(Accepted(v)) + 1
        BY <3>2, <4>2, OneMore
      <4> QED
        BY <3>1, <3>2, <3>3, <3>4, <4>1, <4>3 DEF Known
    <3>6. CASE v # u
      <4>1. RetryHeard(v) = 0
        BY <1>2, <3>6 DEF RetryHeard
      <4>2. Accepted(v)' = Accepted(v)
        BY <1>5, <3>6 DEF Accepted, JobPut
      <4> QED
        BY <3>1, <3>2, <3>3, <3>4, <4>1, <4>2 DEF Known
    <3> QED
      BY <3>5, <3>6
  <2> QED
    BY <1>7, <2>1, RunsBalance DEF Inductive
<1> QED
  BY <1>1, <1>2, <1>5, <1>8, RetryRecorded

LEMMA RetryFailedKeeps ==
    ASSUME Inductive, RetryFailed
    PROVE  Inductive'
<1>1. /\ poller.at \in {"record_failure", "record_rejection"} /\ poller.at \in RetryingAt
      /\ poller' = BatchDone(poller.todo)
      /\ UNCHANGED <<task, worker, deleter, rmLive, runs, spent>>
  BY DEF RetryFailed, RetryingAt, RetryAt
<1>2. PICK u \in Units, i \in JobIndex : u = poller.unit /\ i = poller.job
  BY <1>1, Retried
<1>3. i \in DOMAIN irpJobs[u] /\ irpJobs[u][i].status = "SUBMISSION_RETRYING"
  BY <1>1, <1>2, Retried
<1>4. Attempted(u, i, "SUBMISSION_FAILED")
  BY <1>2 DEF RetryFailed, Attempted
<1>5. /\ JobPut(u, i) /\ irpJobs'[u][i].status = "SUBMISSION_FAILED"
      /\ irpJobs'[u][i].named = FALSE
  BY <1>3, <1>4, AttemptPuts, Unnamed DEF Inductive, Typed, JobStatus
<1>6. UNCHANGED analysis \/ analysis' = [analysis EXCEPT ![u].status = "error"]
  BY <1>2 DEF RetryFailed
<1>7. UNCHANGED analysis \/ StatusSet(u, "error")
  BY <1>6, StatusSets DEF Inductive, Typed
<1> QED
  BY <1>1, <1>2, <1>5, <1>7, RetryRecorded

LEMMA ReclaimRetryingKeeps ==
    ASSUME Inductive, NEW u \in Units, NEW i \in JobIndex, ReclaimRetrying(u, i)
    PROVE  Inductive'
<1>1. /\ poller.at = "idle" /\ poller' = poller /\ i \in DOMAIN irpJobs[u]
      /\ irpJobs[u][i].status = "SUBMISSION_RETRYING"
      /\ Attempted(u, i, "SUBMISSION_FAILED")
      /\ UNCHANGED <<analysis, task, worker, deleter, rmLive, runs, spent>>
  BY DEF ReclaimRetrying, Attempted
<1>2. poller.todo = {}
  BY <1>1 DEF Inductive, RetryHeld
<1>3. /\ JobPut(u, i) /\ irpJobs'[u][i].status = "SUBMISSION_FAILED"
      /\ irpJobs'[u][i].named = FALSE
  BY <1>1, AttemptPuts, Unnamed DEF Inductive, Typed, JobStatus
<1>4. Typed'
  BY <1>1, <1>3 DEF Inductive, Typed, JobPut
<1>5. JobChange(u, i)
  BY <1>1, <1>3 DEF JobChange, Unended
<1>6. OneJob(u) => PendingFirst(u)' /\ PointedFirst(u)'
  <2>1. OneJob(u) => i = 1
    BY <1>1, RowFacts DEF OneJob, Rows, Inductive, Typed
  <2> QED
    BY <1>1, <1>2, <1>3, <2>1 DEF PendingFirst, PointedFirst, Only
<1>7. RunsCounted'
  BY <1>1, <1>3, <1>4, JobQuiet DEF Taken
<1>8. RetryHeld'
  BY <1>1, <1>2 DEF RetryHeld, RetryingAt
<1> QED
  BY <1>4, <1>5, <1>6, <1>7, <1>8, JobChanges DEF Inductive

LEMMA RetryAbandonedKeeps ==
    ASSUME Inductive, RetryAbandoned
    PROVE  Inductive'
<1>1. /\ poller' = Resting /\ Spends("crashes")
      /\ UNCHANGED <<analysis, irpJobs, task, worker, deleter, rmLive, runs>>
  BY SpendEffect DEF RetryAbandoned, Inductive
<1>2. /\ poller' \in Retry /\ poller'.at = "idle" /\ poller'.todo = {}
  BY <1>1 DEF Resting, Retry, RetryAt
<1>3. /\ spent' \in Budget /\ spent'.crashes = spent.crashes + 1
      /\ spent'.stalls = spent.stalls /\ spent'.lost = spent.lost
      /\ spent.crashes \in Nat /\ spent.lost \in Nat
  BY <1>1 DEF Spends
<1>4. Typed'
  BY <1>1, <1>2, <1>3 DEF Inductive, Typed
<1>5. RetryHeld'
  BY <1>2 DEF RetryHeld, RetryingAt
<1>6. RunsCounted'
  <2>1. ASSUME NEW v \in Units
        PROVE  runs'[v] + Known(v) <= runs[v] + Known(v)'
    <3>1. Accepted(v)' = Accepted(v) /\ Heard(v)' = Heard(v) /\ runs'[v] = runs[v]
      BY <1>1 DEF Accepted, Heard
    <3>2. /\ Cardinality(Accepted(v)) \in Nat /\ Cardinality(Heard(v)) \in Nat
          /\ runs[v] \in Nat /\ RetryHeard(v) \in {0, 1}
      BY Counts, RowCounts, KnownType DEF Inductive, Typed, Counted, ThreadsCounted, KnownTyped
    <3>3. RetryHeard(v)' = 0
      BY <1>2 DEF RetryHeard
    <3> QED
      BY <1>3, <3>1, <3>2, <3>3 DEF Known
  <2> QED
    BY <1>4, <2>1, RunsBalance DEF Inductive
<1> QED
  BY <1>1, <1>2, <1>3, <1>4, <1>5, <1>6, PollerSteps

-----------------------------------------------------------------------------
(* _delete_analyses *)

\* A delete request goes on: it marks an analysis that has irp_jobs, or takes
\* one out of Risk Modeler.
LEMMA DeleterSteps ==
    ASSUME Inductive, Typed', Deleting', Deleted',
           \A v \in Units : /\ analysis'[v].status = analysis[v].status
                            /\ analysis'[v].irpId = analysis[v].irpId
                            /\ irpJobs[v] = <<>> => analysis'[v].deleted = analysis[v].deleted,
           rmLive' \subseteq rmLive,
           spent'.stalls = spent.stalls, spent'.crashes >= spent.crashes,
           spent'.lost >= spent.lost,
           UNCHANGED <<irpJobs, task, worker, poller, runs>>
    PROVE  Inductive'
<1>1. Placed'
  BY DEF Inductive, Placed
<1>2. Staffed'
  BY StaffedKeeps DEF Inductive, SameJob
<1>3. JobsCounted'
  <2>1. \A u \in Units : \A v \in Workers : Submits1(v, u)' => Submits1(v, u)
    BY DEF Submits1
  <2>2. spent'.stalls >= spent.stalls
    BY DEF Inductive, Typed, Budget
  <2> QED
    BY <2>1, <2>2, JobsCountedKeeps DEF Inductive, Typed
<1>4. RunsCounted'
  <2>1. \A u \in Units : Accepted(u)' = Accepted(u)
    BY DEF Accepted
  <2>2. \A u \in Units : RetryHeard(u)' = RetryHeard(u)
    BY DEF RetryHeard
  <2>3. \A u \in Units : \A v \in Workers : Hears(v, u)' <=> Hears(v, u)
    BY DEF Hears
  <2> QED
    BY <2>1, <2>2, <2>3, RunsCountedKeeps DEF Inductive
<1>5. FinishedFirst'
  BY DEF Inductive, FinishedFirst, Finished
<1>6. RetryHeld'
  BY DEF Inductive, RetryHeld
<1>7. RowsFollow'
  BY DEF Inductive, RowsFollow
<1>8. OnlyJob'
  <2>1. \A u \in Units : PendingFirst(u) => PendingFirst(u)'
    BY DEF PendingFirst, Only
  <2>2. \A u \in Units : MarkingAlone(u) => MarkingAlone(u)'
    BY DEF MarkingAlone, Only
  <2>3. \A u \in Units : PointedFirst(u) => PointedFirst(u)'
    BY DEF PointedFirst, Only
  <2>4. \A u \in Units : OneJob(u)' <=> OneJob(u)
    BY DEF OneJob
  <2> QED
    BY <2>1, <2>2, <2>3, <2>4 DEF Inductive, OnlyJob
<1> QED
  BY <1>1, <1>2, <1>3, <1>4, <1>5, <1>6, <1>7, <1>8 DEF Inductive

\* What Deleting says of one request.
Saw(d) ==
    LET u == deleter[d].unit IN
    /\ u \in Units /\ irpJobs[u] # <<>>
    /\ deleter[d].lock \in DOMAIN irpJobs[u] \cup {0}
    /\ OneJob(u) /\ deleter[d].lock = 0 =>
           /\ Ended(u)
           /\ deleter[d].at = "remote" => deleter[d].irpId = 1
           /\ deleter[d].at = "local" /\ Only(u).named => <<u, 1>> \notin rmLive

\* The other requests still see what they saw.
LEMMA OtherDeleters ==
    ASSUME Inductive, NEW d \in Deleters,
           \A e \in Deleters \ {d} : deleter'[e] = deleter[e],
           deleter'[d].at # "idle" => Saw(d)',
           rmLive' \subseteq rmLive, irpJobs' = irpJobs
    PROVE  Deleting'
<1> SUFFICES ASSUME NEW e \in Deleters, deleter'[e].at # "idle"
             PROVE  Saw(e)'
  BY DEF Deleting, Saw
<1>1. CASE e = d
  BY <1>1
<1>2. CASE e # d
  <2>1. deleter'[e] = deleter[e]
    BY <1>2
  <2>2. Saw(e)
    BY <2>1 DEF Inductive, Deleting, Saw
  <2> QED
    BY <2>1, <2>2 DEF Saw, OneJob, Ended, Only
<1> QED
  BY <1>1, <1>2

LEMMA UnaskedType == Unasked \in Deletion /\ Unasked.at = "idle"
BY DEF Unasked, Deletion, DeleteAt

LEMMA DeleteReadKeeps ==
    ASSUME Inductive, NEW d \in Deleters, NEW u \in Units, DeleteRead(d, u)
    PROVE  Inductive'
<1>1. /\ Deletable(u)
      /\ UNCHANGED <<analysis, irpJobs, task, worker, poller, rmLive, runs, spent>>
  BY DEF DeleteRead
<1>2. /\ analysis[u] \in Analysis /\ irpJobs[u] \in Seq(IrpJob)
      /\ Len(irpJobs[u]) \in Nat /\ DOMAIN irpJobs[u] = 1..Len(irpJobs[u])
      /\ irpJobs[u] = <<>> <=> Len(irpJobs[u]) = 0
  BY RowFacts DEF Inductive, Typed, Rows
<1>3. irpJobs[u] # <<>> /\ Len(irpJobs[u]) \in DOMAIN irpJobs[u] /\ Len(irpJobs[u]) # 0
  <2>1. irpJobs[u] # <<>>
    BY <1>1 DEF Deletable, JobIs, Inductive, RowsFollow
  <2> QED
    BY <1>2, <2>1
<1>. DEFINE p == IF analysis[u].irpId = 0 THEN "local" ELSE "remote"
            l == IF JobIs(u, "SUBMISSION_FAILED") THEN Len(irpJobs[u]) ELSE 0
            r == [at |-> p, unit |-> u, irpId |-> analysis[u].irpId, lock |-> l]
<1>4. p \in {"local", "remote"} /\ (p = "local" <=> analysis[u].irpId = 0)
  OBVIOUS
<1>5. l \in DOMAIN irpJobs[u] \cup {0} /\ l \in Nat /\ (l = 0 => ~ JobIs(u, "SUBMISSION_FAILED"))
  BY <1>2, <1>3
<1>6. deleter' = [deleter EXCEPT ![d] = r]
  BY DEF DeleteRead
<1>. HIDE DEF p, l
<1>7. /\ r \in Deletion
      /\ r.at = p /\ r.unit = u /\ r.irpId = analysis[u].irpId /\ r.lock = l
  <2>1. u \in Nat /\ analysis[u].irpId \in Nat
    BY <1>2, ConstantFacts DEF Analysis
  <2> QED
    BY <1>4, <1>5, <2>1 DEF Deletion, DeleteAt
<1>. HIDE DEF r
<1>8. /\ deleter' \in [Deleters -> Deletion] /\ deleter'[d] = r
      /\ \A e \in Deleters \ {d} : deleter'[e] = deleter[e]
  BY <1>6, <1>7 DEF Inductive, Typed
<1>9. Typed'
  BY <1>1, <1>8 DEF Inductive, Typed
<1>10. OneJob(u) /\ l = 0 =>
           /\ Ended(u)
           /\ p = "remote" => analysis[u].irpId = 1
           /\ p = "local" /\ Only(u).named => <<u, 1>> \notin rmLive
  <2> SUFFICES ASSUME OneJob(u), l = 0
               PROVE  /\ Ended(u)
                      /\ p = "remote" => analysis[u].irpId = 1
                      /\ p = "local" /\ Only(u).named => <<u, 1>> \notin rmLive
    OBVIOUS
  <2>1. Latest(u) = Only(u)
    BY DEF OneJob, Latest, Only
  <2>2. /\ Only(u).status \notin {"SUBMISSION_FAILED", "SUBMISSION_RETRYING"}
        /\ analysis[u].status \in {"ready", "error"}
    BY <1>1, <1>3, <1>5, <2>1 DEF Deletable, JobIs
  <2>3. PendingFirst(u) /\ PointedFirst(u)
    BY DEF Inductive, OnlyJob
  <2>4. Only(u).status \in JobStatus
    <3>1. irpJobs[u][1] \in IrpJob
      BY <1>2 DEF OneJob
    <3> QED
      BY <3>1 DEF Only, IrpJob
  <2>5. Ended(u)
    BY <2>2, <2>3, <2>4 DEF PendingFirst, JobStatus, Ended
  <2>6. p = "remote" => analysis[u].irpId = 1
    <3>1. analysis[u].irpId # 0 => analysis[u].irpId \in DOMAIN irpJobs[u]
      BY DEF Inductive, FinishedFirst, Finished
    <3>2. DOMAIN irpJobs[u] = {1}
      BY <1>2 DEF OneJob
    <3> QED
      BY <1>4, <3>1, <3>2
  <2>7. p = "local" => ~ Only(u).named
    BY <1>4, <2>2, <2>3 DEF PointedFirst
  <2> QED
    BY <2>5, <2>6, <2>7
<1>11. Saw(d)'
  <2>1. OneJob(u)' = OneJob(u) /\ Ended(u)' = Ended(u) /\ Only(u)' = Only(u)
    BY <1>1 DEF OneJob, Ended, Only
  <2> QED
    BY <1>1, <1>3, <1>5, <1>7, <1>8, <1>10, <2>1 DEF Saw, OneJob, Ended, Only
<1>12. Deleting'
  BY <1>1, <1>8, <1>11, OtherDeleters
<1>13. Deleted'
  BY <1>1 DEF Inductive, Deleted, OneJob, Only, Ended
<1>14. spent.crashes \in Nat /\ spent.lost \in Nat
  BY DEF Inductive, Typed, Budget
<1> QED
  BY <1>1, <1>9, <1>12, <1>13, <1>14, DeleterSteps

LEMMA DeleteRemoteKeeps ==
    ASSUME Inductive, NEW d \in Deleters, DeleteRemote(d)
    PROVE  Inductive'
<1>1. /\ deleter[d].at = "remote" /\ Saw(d) /\ deleter[d] \in Deletion
      /\ UNCHANGED <<analysis, irpJobs, task, worker, poller, runs, spent>>
  BY DEF DeleteRemote, Inductive, Typed, Deleting, Saw
<1>2. /\ rmLive' \subseteq rmLive /\ deleter' \in [Deleters -> Deletion]
      /\ \A e \in Deleters \ {d} : deleter'[e] = deleter[e]
  <2>1. deleter \in [Deleters -> Deletion]
    BY DEF Inductive, Typed
  <2>2. CASE deleter' = [deleter EXCEPT ![d].at = "local"]
    <3>1. deleter'[d] = [deleter[d] EXCEPT !.at = "local"]
      BY <2>1, <2>2
    <3>2. deleter'[d] \in Deletion
      BY <1>1, <3>1 DEF Deletion, DeleteAt
    <3> QED
      BY <2>1, <2>2, <3>2 DEF DeleteRemote
  <2>3. CASE deleter' = [deleter EXCEPT ![d] = Unasked]
    <3>. HIDE DEF Unasked
    <3> QED
      BY <2>1, <2>3, UnaskedType DEF DeleteRemote
  <2> QED
    BY <2>2, <2>3 DEF DeleteRemote
<1>3. Typed'
  BY <1>1, <1>2 DEF Inductive, Typed
<1>4. deleter'[d].at # "idle" => Saw(d)'
  <2>1. CASE rmLive' = rmLive \ {<<deleter[d].unit, deleter[d].irpId>>}
             /\ deleter' = [deleter EXCEPT ![d].at = "local"]
    <3>1. /\ deleter'[d].at = "local" /\ deleter'[d].unit = deleter[d].unit
          /\ deleter'[d].irpId = deleter[d].irpId /\ deleter'[d].lock = deleter[d].lock
      BY <1>1, <2>1 DEF Inductive, Typed, Deletion
    <3> QED
      BY <1>1, <2>1, <3>1 DEF Saw, OneJob, Ended, Only
  <2>2. CASE deleter' = [deleter EXCEPT ![d] = Unasked]
    <3>1. deleter'[d].at = "idle"
      BY <2>2, UnaskedType DEF Inductive, Typed
    <3> QED
      BY <3>1
  <2> QED
    BY <2>1, <2>2 DEF DeleteRemote
<1>5. Deleting'
  BY <1>1, <1>2, <1>4, OtherDeleters
<1>6. Deleted'
  BY <1>1, <1>2 DEF Inductive, Deleted, OneJob, Only, Ended
<1>7. spent.crashes \in Nat /\ spent.lost \in Nat
  BY DEF Inductive, Typed, Budget
<1> QED
  BY <1>1, <1>2, <1>3, <1>5, <1>6, <1>7, DeleterSteps

\* A request is over.
LEMMA LetsGo ==
    ASSUME Inductive, NEW d \in Deleters, deleter' = [deleter EXCEPT ![d] = Unasked],
           UNCHANGED <<irpJobs, rmLive>>
    PROVE  deleter' \in [Deleters -> Deletion] /\ Deleting'
<1>1. deleter \in [Deleters -> Deletion]
  BY DEF Inductive, Typed
<1>. HIDE DEF Unasked
<1>2. /\ deleter' \in [Deleters -> Deletion] /\ deleter'[d].at = "idle"
      /\ \A e \in Deleters \ {d} : deleter'[e] = deleter[e]
  BY <1>1, UnaskedType
<1> QED
  BY <1>2, OtherDeleters

LEMMA DeleteLocalKeeps ==
    ASSUME Inductive, NEW d \in Deleters, DeleteLocal(d)
    PROVE  Inductive'
<1>1. /\ deleter[d].at = "local" /\ Saw(d) /\ deleter' = [deleter EXCEPT ![d] = Unasked]
      /\ UNCHANGED <<irpJobs, task, worker, poller, rmLive, runs, spent>>
  BY DEF DeleteLocal, Inductive, Deleting, Saw
<1>2. PICK u \in Units : u = deleter[d].unit
  BY <1>1 DEF Saw
<1>. DEFINE i == deleter[d].lock
<1>0. i \in DOMAIN irpJobs[u] \cup {0}
  BY <1>1, <1>2 DEF Saw
<1>3. CASE UNCHANGED analysis
  <2>1. deleter' \in [Deleters -> Deletion] /\ Deleting'
    BY <1>1, LetsGo
  <2>2. Typed'
    BY <1>1, <1>3, <2>1 DEF Inductive, Typed
  <2>3. Deleted'
    BY <1>1, <1>3 DEF Inductive, Deleted, OneJob, Only, Ended
  <2>4. spent.crashes \in Nat /\ spent.lost \in Nat
    BY DEF Inductive, Typed, Budget
  <2> QED
    BY <1>1, <1>3, <2>1, <2>2, <2>3, <2>4, DeleterSteps
<1>4. CASE (i = 0 \/ Claimable(u, i)) /\ analysis' = [analysis EXCEPT ![u].deleted = TRUE]
  <2>1. deleter' \in [Deleters -> Deletion] /\ Deleting'
    BY <1>1, LetsGo
  <2>2. /\ analysis' \in [Units -> Analysis]
        /\ \A v \in Units : /\ analysis'[v].status = analysis[v].status
                            /\ analysis'[v].irpId = analysis[v].irpId
                            /\ v # u => analysis'[v].deleted = analysis[v].deleted
    BY <1>4 DEF Inductive, Typed, Analysis
  <2>3. Typed'
    BY <1>1, <2>1, <2>2 DEF Inductive, Typed
  <2>4. OneJob(u) => /\ Ended(u) \/ Only(u).status = "SUBMISSION_FAILED"
                     /\ Only(u).named => <<u, 1>> \notin rmLive
    <3> SUFFICES ASSUME OneJob(u)
                 PROVE  /\ Ended(u) \/ Only(u).status = "SUBMISSION_FAILED"
                        /\ Only(u).named => <<u, 1>> \notin rmLive
      OBVIOUS
    <3>1. CASE i = 0
      BY <1>1, <1>2, <3>1 DEF Saw
    <3>2. CASE i # 0
      <4>1. i = 1 /\ i \in DOMAIN irpJobs[u]
        BY <1>0, <3>2, RowFacts DEF OneJob, Rows, Inductive, Typed
      <4>2. irpJobs[u][i].status = "SUBMISSION_FAILED"
        BY <1>4, <3>2 DEF Claimable
      <4>3. irpJobs[u][i].named = FALSE
        BY <4>1, <4>2, Unnamed
      <4> QED
        BY <4>1, <4>2, <4>3 DEF Only
    <3> QED
      BY <3>1, <3>2
  <2>5. Deleted'
    <3> SUFFICES ASSUME NEW v \in Units, analysis'[v].deleted, OneJob(v)
                 PROVE  /\ Ended(v) \/ Only(v).status = "SUBMISSION_FAILED"
                        /\ Only(v).named => <<v, 1>> \notin rmLive
      BY <1>1 DEF Deleted, OneJob, Only, Ended
    <3>1. CASE v = u
      BY <2>4, <3>1
    <3>2. CASE v # u
      BY <2>2, <3>2 DEF Inductive, Deleted
    <3> QED
      BY <3>1, <3>2
  <2>6. irpJobs[u] # <<>>
    BY <1>1, <1>2 DEF Saw
  <2>7. spent.crashes \in Nat /\ spent.lost \in Nat
    BY DEF Inductive, Typed, Budget
  <2> QED
    BY <1>1, <2>1, <2>2, <2>3, <2>5, <2>6, <2>7, DeleterSteps
<1> QED
  BY <1>2, <1>3, <1>4 DEF DeleteLocal

LEMMA DeleteAbandonedKeeps ==
    ASSUME Inductive, NEW d \in Deleters, DeleteAbandoned(d)
    PROVE  Inductive'
<1>1. /\ deleter' = [deleter EXCEPT ![d] = Unasked] /\ Spends("crashes")
      /\ UNCHANGED <<analysis, irpJobs, task, worker, poller, rmLive, runs>>
  BY SpendEffect DEF DeleteAbandoned, Inductive
<1>2. deleter' \in [Deleters -> Deletion] /\ Deleting'
  BY <1>1, LetsGo
<1>3. /\ spent' \in Budget /\ spent'.crashes = spent.crashes + 1
      /\ spent'.stalls = spent.stalls /\ spent'.lost = spent.lost
      /\ spent.crashes \in Nat /\ spent.lost \in Nat
  <2>1. spent.crashes \in Nat /\ spent.lost \in Nat /\ spent.stalls \in Nat
    BY DEF Inductive, Typed, Budget
  <2> QED
    BY <1>1, <2>1 DEF Spends
<1>4. Typed'
  BY <1>1, <1>2, <1>3 DEF Inductive, Typed
<1>5. Deleted'
  BY <1>1 DEF Inductive, Deleted, OneJob, Only, Ended
<1> QED
  BY <1>1, <1>2, <1>3, <1>4, <1>5, DeleterSteps

-----------------------------------------------------------------------------
(* The specification *)

LEMMA InitInductive == Init => Inductive
<1> SUFFICES ASSUME Init
             PROVE  Inductive
  OBVIOUS
<1>1. Batch \in Tasks
  BY TaskFacts
<1>2. /\ \A w \in Workers : worker[w] = Idle
      /\ \A u \in Units : irpJobs[u] = <<>> /\ runs[u] = 0
      /\ \A t \in Tasks : task[t] = IF t = Batch THEN "pending" ELSE "absent"
      /\ \A d \in Deleters : deleter[d] = Unasked
      /\ rmLive = {} /\ poller = Resting
  BY DEF Init
<1>3. \A w \in Workers : worker[w].at = "idle" /\ worker[w].task = NoTask
  BY <1>2 DEF Idle
<1>4. \A u \in Units : Len(irpJobs[u]) = 0 /\ DOMAIN irpJobs[u] = {}
  BY <1>2
<1>5. \A u \in Units : /\ analysis[u].status = "none" /\ analysis[u].deleted = FALSE
                       /\ analysis[u].irpId = 0
  BY DEF Init
<1>6. /\ poller.at = "idle" /\ poller.todo = {}
      /\ spent.stalls = 0 /\ spent.crashes = 0 /\ spent.lost = 0
  BY <1>2 DEF Init, Resting
<1>7. Typed
  <2>1. analysis \in [Units -> Analysis] /\ irpJobs \in [Units -> Seq(IrpJob)]
    BY DEF Init, Analysis
  <2>2. task \in [Tasks -> TaskStatus]
    BY DEF Init, TaskStatus
  <2>3. worker \in [Workers -> Thread]
    <3>1. Idle \in Thread
      BY DEF Idle, Thread, WorkerAt
    <3>. HIDE DEF Idle
    <3> QED
      BY <3>1 DEF Init
  <2>4. poller \in Retry
    BY <1>2 DEF Resting, Retry, RetryAt
  <2>5. deleter \in [Deleters -> Deletion]
    <3>. HIDE DEF Unasked
    <3> QED
      BY UnaskedType DEF Init
  <2>6. runs \in [Units -> Nat] /\ spent \in Budget /\ rmLive \subseteq Units \X JobIndex
    BY DEF Init, Budget
  <2> QED
    BY <2>1, <2>2, <2>3, <2>4, <2>5, <2>6 DEF Typed
<1>8. Placed
  BY <1>2, <1>3 DEF Placed, SubmitAt, FinalizeAt, RetrieveAt
<1>9. Staffed
  <2>1. Batching = {}
    BY <1>1, <1>3, TaskFacts DEF Batching
  <2>2. Cardinality(Batching) = 0
    BY <2>1, FS_EmptySet
  <2> QED
    BY <1>6, <2>2, ConstantFacts DEF Staffed
<1>10. JobsCounted
  <2> SUFFICES ASSUME NEW u \in Units
               PROVE  Len(irpJobs[u]) + Cardinality(Submitting(u)) <= spent.stalls + 1
    BY DEF JobsCounted
  <2>1. Submitting(u) = {}
    BY <1>3 DEF Submitting, SubmittingAt, Outcomes
  <2>2. Cardinality(Submitting(u)) = 0
    BY <2>1, FS_EmptySet
  <2> QED
    BY <1>4, <1>6, <2>2
<1>11. RunsCounted
  <2> SUFFICES ASSUME NEW u \in Units
               PROVE  runs[u] <= Known(u)
    BY DEF RunsCounted
  <2>1. Known(u) \in Nat
    BY <1>7, KnownType DEF KnownTyped
  <2> QED
    BY <1>2, <2>1
<1>12. FinishedFirst
  <2>1. \A u \in Units, i \in JobIndex :
            /\ task[Finalize(u, i)] = "absent" /\ <<u, i>> \notin rmLive
            /\ \A w \in Workers : worker[w].task # Finalize(u, i)
    BY <1>2, <1>3, TaskFacts
  <2> QED
    BY <1>4, <1>5, <2>1 DEF FinishedFirst
<1>13. RetryHeld
  BY <1>6 DEF RetryHeld, RetryingAt
<1>14. RowsFollow
  BY <1>3, <1>5 DEF RowsFollow, Outcomes
<1>15. OnlyJob /\ Deleted
  BY <1>4, <1>5 DEF OnlyJob, OneJob, Deleted
<1>16. Deleting
  BY <1>2, UnaskedType DEF Deleting
<1> QED
  BY <1>7, <1>8, <1>9, <1>10, <1>11, <1>12, <1>13, <1>14, <1>15, <1>16 DEF Inductive

LEMMA StutterKeeps ==
    ASSUME Inductive, UNCHANGED vars
    PROVE  Inductive'
<1>1. UNCHANGED <<analysis, irpJobs, task, worker, poller, deleter, rmLive, runs, spent>>
  BY DEF vars
<1>2. Typed' /\ Deleting' /\ Deleted'
  BY <1>1 DEF Inductive, Typed, Deleting, Deleted, OneJob, Only, Ended
<1>3. spent.crashes \in Nat /\ spent.lost \in Nat
  BY DEF Inductive, Typed, Budget
<1> QED
  BY <1>1, <1>2, <1>3, DeleterSteps

LEMMA NextInductive ==
    ASSUME Inductive, [Next]_vars
    PROVE  Inductive'
<1>1. CASE UNCHANGED vars
  BY <1>1, StutterKeeps
<1>2. ASSUME NEW w \in Workers, ThreadStep(w) \/ Crash(w) \/ Raises(w)
      PROVE  Inductive'
  <2>1. CASE Crash(w) \/ Raises(w)
    BY <2>1, CrashKeeps, RaisesKeeps
  <2>2. ASSUME NEW t \in Tasks, Claim(w, t)
        PROVE  Inductive'
    BY <2>2, ClaimKeeps
  <2>3. CASE BatchStep(w)
    BY <2>3, CountJobsKeeps, SelectAnalysisKeeps, InsertAnalysisKeeps, SubmitUnitKeeps,
       RecordSubmitKeeps, MarkErrorKeeps DEF BatchStep
  <2>4. CASE ResultStep(w)
    BY <2>4, ResolveAnalysisKeeps, FetchMetadataKeeps, StoreMetadataKeeps, ChainRetrievalKeeps,
       ReadAnalysisKeeps, FetchResultsKeeps, StoreResultsKeeps DEF ResultStep
  <2>5. CASE Complete(w)
    BY <2>5, CompleteKeeps
  <2> QED
    BY <1>2, <2>1, <2>2, <2>3, <2>4, <2>5 DEF ThreadStep
<1>3. ASSUME NEW t \in Tasks, Reclaim(t) \/ Resubmit(t)
      PROVE  Inductive'
  BY <1>3, ReclaimKeeps, ResubmitKeeps
<1>4. ASSUME NEW u \in Units, RetryRetrieval(u)
      PROVE  Inductive'
  BY <1>4, RetryRetrievalKeeps
<1>5. ASSUME NEW u \in Units, NEW i \in JobIndex, TrackStep(u, i) \/ ReclaimRetrying(u, i)
      PROVE  Inductive'
  BY <1>5, TrackRunningKeeps, TrackFinishedKeeps, TrackFailedKeeps, ReclaimRetryingKeeps
     DEF TrackStep
<1>6. CASE RetryStep
  BY <1>6, RetrySelectKeeps, RetryClaimKeeps, RetrySubmitKeeps, RetryAcceptedKeeps,
     RetryFailedKeeps DEF RetryStep
<1>7. CASE RetryAbandoned
  BY <1>7, RetryAbandonedKeeps
<1>8. ASSUME NEW d \in Deleters, DeleteStep(d) \/ DeleteAbandoned(d)
      PROVE  Inductive'
  BY <1>8, DeleteReadKeeps, DeleteRemoteKeeps, DeleteLocalKeeps, DeleteAbandonedKeeps
     DEF DeleteStep
<1> QED
  BY <1>1, <1>2, <1>3, <1>4, <1>5, <1>6, <1>7, <1>8 DEF Next

(* The invariant holds in every state the batch, the queue, the poller and    *)
(* the analyst's requests reach.                                             *)
THEOREM AlwaysInductive == Spec => []Inductive
BY InitInductive, NextInductive, PTL DEF Spec

LEMMA InductiveTypes ==
    ASSUME Inductive
    PROVE  TypeOK
<1>1. /\ analysis \in [Units -> Analysis] /\ irpJobs \in [Units -> Seq(IrpJob)]
      /\ task \in [Tasks -> TaskStatus] /\ worker \in [Workers -> Thread]
      /\ poller \in Retry /\ deleter \in [Deleters -> Deletion]
      /\ rmLive \subseteq Units \X JobIndex /\ runs \in [Units -> Nat] /\ spent \in Budget
  BY DEF Inductive, Typed
<1>2. \A u \in Units : analysis[u].irpId \in DOMAIN irpJobs[u] \cup {0}
  BY DEF Inductive, FinishedFirst, Finished
<1>3. ASSUME NEW u \in Units
      PROVE  DOMAIN irpJobs[u] \subseteq JobIndex
  <2>1. Len(irpJobs[u]) \in Nat /\ DOMAIN irpJobs[u] = 1..Len(irpJobs[u])
    BY <1>1, RowFacts DEF Rows
  <2>2. Len(irpJobs[u]) + Cardinality(Submitting(u)) <= spent.stalls + 1
    BY DEF Inductive, JobsCounted
  <2>3. /\ Cardinality(Submitting(u)) \in Nat /\ spent.stalls \in Nat
        /\ spent.stalls <= MaxStalls /\ MaxStalls \in Nat
    BY <1>1, Counts, ConstantFacts DEF ThreadsCounted, Budget, Inductive, Staffed
  <2>4. Len(irpJobs[u]) <= MaxStalls + 1
    BY <2>1, <2>2, <2>3
  <2> QED
    BY <2>1, <2>3, <2>4, ConstantFacts
<1> QED
  BY <1>1, <1>2, <1>3 DEF TypeOK

LEMMA InductiveRuns ==
    ASSUME Inductive
    PROVE  RmRunsAccounted
<1> SUFFICES ASSUME NEW u \in Units
             PROVE  runs[u] <= 1 + spent.stalls + spent.crashes + spent.lost
  BY DEF RmRunsAccounted
<1>1. runs[u] <= Known(u)
  BY DEF Inductive, RunsCounted
<1>2. Len(irpJobs[u]) + Cardinality(Submitting(u)) <= spent.stalls + 1
  BY DEF Inductive, JobsCounted
<1>3. Cardinality(Heard(u)) <= Cardinality(Submitting(u))
  <2>1. Heard(u) \subseteq Submitting(u)
    BY DEF Heard, Submitting, SubmittingAt, Outcomes
  <2> QED
    BY <2>1, Counts, NoMore DEF ThreadsCounted
<1>4. Len(irpJobs[u]) \in Nat /\ DOMAIN irpJobs[u] = 1..Len(irpJobs[u])
  BY RowFacts DEF Rows, Inductive, Typed
<1>5. /\ IsFiniteSet(DOMAIN irpJobs[u]) /\ Cardinality(DOMAIN irpJobs[u]) = Len(irpJobs[u])
  <2>1. 1 \in Int /\ Len(irpJobs[u]) \in Int
    BY <1>4
  <2>2. Cardinality(1..Len(irpJobs[u])) = Len(irpJobs[u])
    BY <1>4, <2>1, FS_Interval
  <2> QED
    BY <1>4, <2>1, <2>2, FS_Interval
<1>6. Accepted(u) \subseteq DOMAIN irpJobs[u]
  BY DEF Accepted
<1>7. Cardinality(Accepted(u)) + RetryHeard(u) <= Len(irpJobs[u])
  <2>1. CASE poller.at = "record" /\ poller.unit = u
    <3>1. PICK i \in DOMAIN irpJobs[u] : irpJobs[u][i].status = "SUBMISSION_RETRYING"
      BY <2>1 DEF Inductive, RetryHeld, RetryingAt, RetryAt
    <3>2. Accepted(u) \subseteq DOMAIN irpJobs[u] \ {i}
      BY <1>6, <3>1 DEF Accepted, Taken
    <3>3. Cardinality(Accepted(u)) + 1 <= Cardinality(DOMAIN irpJobs[u])
      BY <1>5, <3>1, <3>2, OneLess
    <3> QED
      BY <1>5, <2>1, <3>3 DEF RetryHeard
  <2>2. CASE ~ (poller.at = "record" /\ poller.unit = u)
    <3>1. Cardinality(Accepted(u)) <= Cardinality(DOMAIN irpJobs[u])
      BY <1>5, <1>6, NoMore
    <3>2. Cardinality(Accepted(u)) \in Nat
      BY RowCounts DEF Counted, Inductive, Typed
    <3> QED
      BY <1>4, <1>5, <2>2, <3>1, <3>2 DEF RetryHeard
  <2> QED
    BY <2>1, <2>2
<1>8. /\ runs[u] \in Nat /\ spent.stalls \in Nat /\ spent.crashes \in Nat /\ spent.lost \in Nat
      /\ Cardinality(Accepted(u)) \in Nat /\ Cardinality(Heard(u)) \in Nat
      /\ Cardinality(Submitting(u)) \in Nat /\ RetryHeard(u) \in {0, 1}
  BY Counts, RowCounts, KnownType
     DEF ThreadsCounted, Counted, KnownTyped, Inductive, Typed, Budget
<1>9. RetryHeard(u) \in Nat
  BY <1>8
<1>10. Cardinality(Accepted(u)) + RetryHeard(u) + Cardinality(Heard(u)) <= spent.stalls + 1
  BY <1>2, <1>3, <1>4, <1>7, <1>8, <1>9
<1> QED
  BY <1>1, <1>8, <1>9, <1>10 DEF Known

LEMMA InductiveDeletions ==
    ASSUME Inductive
    PROVE  DeletedNeverResubmitted /\ DeletionLeavesNoOrphan
<1>1. DeletedNeverResubmitted
  <2> SUFFICES ASSUME poller.at \notin {"idle", "batch"}, OneJob(poller.unit),
                      analysis[poller.unit].deleted
               PROVE  FALSE
    BY DEF DeletedNeverResubmitted, OneJob
  <2>1. poller.at \in RetryingAt
    BY DEF Inductive, Typed, Retry, RetryingAt
  <2>2. PICK u \in Units : u = poller.unit
    BY <2>1 DEF Inductive, RetryHeld
  <2>3. /\ poller.job \in DOMAIN irpJobs[u]
        /\ irpJobs[u][poller.job].status = "SUBMISSION_RETRYING"
    BY <2>1, <2>2 DEF Inductive, RetryHeld
  <2>4. poller.job = 1
    BY <2>2, <2>3, RowFacts DEF OneJob, Rows, Inductive, Typed
  <2>5. Only(u).status \in {"FINISHED", "FAILED", "SUBMISSION_FAILED"}
    BY <2>2 DEF Inductive, Deleted, Ended
  <2> QED
    BY <2>3, <2>4, <2>5 DEF Only
<1>2. DeletionLeavesNoOrphan
  BY DEF DeletionLeavesNoOrphan, Inductive, Deleted, OneJob, Only
<1> QED
  BY <1>1, <1>2

(* For any number of work units, threads and delete requests, and whatever   *)
(* is lost, stalled or answered late: each of the rows the three workers,    *)
(* the poller and _delete_analyses write keeps its type, _submit_one never   *)
(* writes more irp_jobs for an analysis than there were threads on the       *)
(* batch, and irp_id names one of them.                                      *)
THEOREM TypeCorrect == Spec => []TypeOK
BY AlwaysInductive, InductiveTypes, PTL

(* However the batch, its resume and the poller's submission retry follow    *)
(* each other, Risk Modeler runs a unit once, and once more at most for      *)
(* every process lost, answer lost and stall.                                *)
THEOREM RunsAreAccounted == Spec => []RmRunsAccounted
BY AlwaysInductive, InductiveRuns, PTL

(* _claim_for_retry and the delete's lock on the failed irp_job exclude each *)
(* other: the poller never resubmits a deleted analysis.                     *)
THEOREM NoResubmitOfDeleted == Spec => []DeletedNeverResubmitted
BY AlwaysInductive, InductiveDeletions, PTL

(* Whenever _delete_analyses marks an analysis whose one run named its       *)
(* result, Risk Modeler holds that result no more.                           *)
THEOREM NoOrphanLeft == Spec => []DeletionLeavesNoOrphan
BY AlwaysInductive, InductiveDeletions, PTL

=============================================================================
