------------------------- MODULE ResultsExportProofs -------------------------
(***************************************************************************)
(* Proofs about ResultsExport, for any number of rows, threads, analysts,   *)
(* exports, retries, crashes and stalls: the state keeps its type, what is  *)
(* loaded is complete and loaded once, and an export whose jobs are over    *)
(* offers Retry on a row it has not loaded.                                 *)
(*                                                                          *)
(* All three follow from one inductive invariant.  It says where the        *)
(* threads are (Placed), that jobs and requests are about recorded exports  *)
(* (Keyed, Tracked), that no job is run by two threads (Alone), what a      *)
(* thread knows of the losses of the rows it visits (CompleteLoads), which  *)
(* rows the stage job and the submit job have still to deal with (Targets,  *)
(* Pending, Unsubmitted), and to whom a staged row is left (LeftToSome).    *)
(*                                                                          *)
(* What a step does to its thread, and to a row, is stated once per action  *)
(* (the lemmas named ...Effect); the steps of a body then differ, for most  *)
(* of the invariant, in nothing but what Advance says of all of them.       *)
(***************************************************************************)
EXTENDS ResultsExport, FiniteSetTheorems, WellFoundedInduction, TLAPS

\* The places of the three bodies, and those at which a loop has rows to visit.
SubmitAt == {"select", "find", "ask", "record", "stamp", "reject"}
StageAt  == {"stage", "discard", "check", "facts", "open", "upload", "staged", "missing",
             "unstage", "fail", "reread", "enqueue", "no_load"}
LoadAt   == {"list", "load", "catch", "refused"}
LoopAt   == {"find", "ask", "record", "stamp", "reject", "discard", "facts", "open", "upload",
             "staged", "missing", "fail", "enqueue", "no_load", "load", "catch", "refused"}

Typed ==
    /\ held \subseteq Rows
    /\ row \in [Rows -> Manifest]
    /\ elt \in [Rows -> Losses]
    /\ loads \in History
    /\ exports \in Seq({"RUNNING", "FINISHED", "FAILED"})
    /\ task \in [Tasks -> TaskStatus]
    /\ worker \in [Workers -> Thread]
    /\ request \in [Analysts -> Asked]
    /\ form \in {"enqueue", "done", "died"}
    /\ spent \in [requests : Nat, crashes : Nat, stalls : Nat]

\* Exports that are recorded, or about to be.
Recorded == DOMAIN exports
Counted  == Accepted <= MaxExports

\* A thread is in the body of the job it took, with rows to visit in a loop, and
\* its stage or load job is one of a recorded export.
InBody(t, recorded) ==
    /\ t.at = "idle" => t = Idle
    /\ t.at # "idle" => t.task \in Tasks
    /\ t.at \in SubmitAt => t.task = Submit
    /\ t.at \in StageAt => t.task = Stage(t.job)
    /\ t.at \in LoadAt  => t.task = Load(t.job)
    /\ t.at \in StageAt \cup LoadAt \cup {"stamp"} => t.job \in recorded
    /\ t.task \notin {Submit, Nobody} =>
          t.job \in recorded /\ t.task \in {Stage(t.job), Load(t.job)}
    /\ t.at \in LoopAt => t.todo # {}
    /\ t.at \in {"stage", "discard", "check", "facts"} => t.bad = {}
    /\ t.at \in {"discard", "check", "facts"} => t.rows # {}
    /\ t.at \in {"discard", "facts", "open", "upload", "staged"} => t.todo \subseteq t.rows
Placed == \A w \in Workers : InBody(worker[w], Recorded)

\* Jobs and requests are about exports that are recorded.
Keyed ==
    /\ \A m \in Rows : row[m].job \in Recorded \cup {0}
    /\ \A i \in Exports : task[Stage(i)] # "absent" \/ task[Load(i)] # "absent" => i \in Recorded
    /\ \A a \in Analysts :
          /\ request[a].at # "idle" => request[a].row \in Rows
          /\ request[a].at \in {"reset", "ensure"} => request[a].branch # "none"
          /\ request[a].branch \in {"load", "stage"} => request[a].job \in Recorded

\* Nothing has happened before the submit job is queued.
Fresh ==
    form = "enqueue" =>
        /\ Recorded = {}
        /\ \A t \in Tasks : task[t] = "absent"
        /\ \A w \in Workers : worker[w] = Idle
        /\ \A a \in Analysts : request[a] = Unasked
        /\ \A m \in Rows : row[m].stage = "pending" /\ row[m].load = "pending" /\ ~ row[m].closed

\* No job is taken from a live thread, so no job is run by two.
Exclusive ==
    /\ \A w \in Workers : worker[w].task # Nobody => task[worker[w].task] = "running"
    /\ \A w, v \in Workers :
          worker[w].task # Nobody /\ worker[w].task = worker[v].task => w = v
Alone == spent.stalls = 0 => Exclusive

Tracked == \A i \in Recorded : exports[i] # "RUNNING" => task[Stage(i)] # "absent"

-----------------------------------------------------------------------------
(* What is loaded *)

StagedIsFull == \A m \in Rows : row[m].stage = "staged" => elt[m].full
LoadedFull   == \A m \in Rows : \A k \in DOMAIN loads.took[m] : loads.took[m][k]
\* What a thread that runs a job alone knows of the rows.
KnowsLosses(w) ==
    /\ worker[w].at = "discard" => \A m \in worker[w].todo : row[m].stage # "staged"
    /\ worker[w].at = "staged"  => elt[First(worker[w].todo)].full
    /\ worker[w].at = "catch" => row[First(worker[w].todo)].load # "loaded"
LoadedOnce ==
    spent.requests = 0 => \A m \in Rows :
        \/ m \in loads.forgotten
        \/ Len(loads.took[m]) = IF row[m].load = "loaded" THEN 1 ELSE 0

CompleteLoads ==
    OneAtATime => /\ StagedIsFull /\ LoadedFull /\ LoadedOnce
                  /\ \A w \in Workers : KnowsLosses(w)

-----------------------------------------------------------------------------
(* What is left over *)

Undisturbed == OneAtATime /\ spent.requests = 0
Eligible(m) == row[m].stage # "staged" /\ row[m].load # "loaded"

NoRequest ==
    spent.requests = 0 => /\ \A a \in Analysts : request[a] = Unasked
                          /\ \A m \in Rows : ~ row[m].closed
                          /\ \A m \in Rows : row[m].stage = "pending" => row[m].load # "loaded"

\* A stage job has still to stage or to fail the rows it read, ...
HasTargets(t) ==
    /\ t.at \in {"discard", "check", "facts"} => \A m \in t.rows : Eligible(m)
    /\ t.at \in {"open", "upload", "staged"} =>
          t.todo \cap t.bad = {} /\ \A m \in t.todo \cup t.bad : Eligible(m)
    /\ t.at \in {"missing", "fail"} => \A m \in t.todo : Eligible(m)
    /\ t.at = "unstage" => \E m \in Rows : Eligible(m)
Targets == Undisturbed => \A w \in Workers : HasTargets(worker[w])

\* ... which are all the rows that are pending, unless it raises.
Ended == {"succeeded", "failed"}
HasPending(t) ==
    \A m \in Rows : row[m].stage = "pending" =>
        /\ t.at \in {"discard", "check", "facts"} => m \in t.rows
        /\ t.at \in {"open", "upload", "staged"} => m \in t.todo \cup t.bad
        /\ t.at \in {"missing", "fail"} => m \in t.todo
        /\ t.at \notin {"reread", "enqueue", "no_load"} \cup Ended
Pending ==
    Undisturbed =>
        /\ \A w \in Workers : worker[w].task = Stage(1) => HasPending(worker[w])
        /\ task[Stage(1)] \in Ended => \A m \in Rows : row[m].stage # "pending"

\* The submit job has still to stamp the rows without an export.
Unsubmitted ==
    Undisturbed /\ form = "done" => \A m \in Rows : row[m].stage = "pending" /\ row[m].job = 0 =>
        /\ task[Submit] \in {"pending", "running", "failed", "raised"}
        /\ \A w \in Workers : worker[w].task = Submit =>
              \/ worker[w].at \in {"select", "failed", "raised"}
              \/ worker[w].at \in SubmitAt /\ m \in worker[w].todo

\* A staged row that no load has met is left to a job that will, or that has given
\* it up without a stamp, or Retry is on offer for another one.
Staged(m)    == row[m].stage = "staged" /\ row[m].load = "pending"
Rejected(n)  == row[n].stage = "failed" /\ row[n].load # "loaded"
LoadWill(m)  == \/ task[Load(1)] = "pending"
                \/ /\ task[Load(1)] = "running"
                   /\ \A w \in Workers : worker[w].task = Load(1) =>
                         \/ worker[w].at \in {"list", "failed", "raised"}
                         \/ /\ worker[w].at \in {"load", "catch", "refused"}
                            /\ m \in worker[w].todo \cup worker[w].bad
StageWill(m) == \/ task[Stage(1)] = "pending"
                \/ /\ task[Stage(1)] = "running"
                   /\ \A w \in Workers : worker[w].task = Stage(1) =>
                         \/ worker[w].at \in (StageAt \ {"enqueue", "no_load"}) \cup {"raised"}
                         \/ worker[w].at \in {"enqueue", "no_load"} /\ m \in worker[w].todo
GivenUp == task[Stage(1)] = "raised" \/ task[Load(1)] \in {"failed", "raised"}
LeftToSome ==
    Undisturbed /\ ~ loads.late => \A m \in Rows : Staged(m) =>
        LoadWill(m) \/ StageWill(m) \/ GivenUp \/ \E n \in Rows : Rejected(n)

Inductive ==
    /\ Typed /\ Counted /\ Placed /\ Keyed /\ Fresh /\ Alone /\ Tracked
    /\ CompleteLoads /\ NoRequest /\ Targets /\ Pending /\ Unsubmitted /\ LeftToSome

-----------------------------------------------------------------------------
(* The constants, the rows and the jobs *)

LEMMA ConstantFacts ==
    /\ NumRows \in Nat \ {0} /\ Rows = 1..NumRows
    /\ MaxExports \in Nat \ {0} /\ Exports = 1..MaxExports /\ 1 \in Exports /\ 0 \notin Exports
    /\ {MaxRequests, MaxCrashes, MaxStalls} \subseteq Nat
    /\ IsFiniteSet(Workers) /\ Nobody \notin Workers
BY ResultsExportAssumption DEF Rows, Exports

\* A loop over some rows takes one of them first: of the parts of S up to one of
\* its rows, the smallest ends with it.
LEMMA FirstIn ==
    ASSUME NEW S, S \subseteq Rows, S # {}
    PROVE  First(S) \in S
<1>. DEFINE UpTo(k) == {n \in S : n <= k}
            parts   == {UpTo(k) : k \in S}
            order   == StrictSubsetOrdering(S)
<1>0. NumRows \in Int /\ 1 \in Int /\ Rows = 1..NumRows
  BY ConstantFacts
<1>1. S \subseteq Nat /\ IsFiniteSet(S)
  <2>1. IsFiniteSet(Rows)
    BY <1>0, FS_Interval
  <2>2. S \in SUBSET Rows
    OBVIOUS
  <2>3. IsFiniteSet(S)
    BY <2>1, <2>2, FS_Subset
  <2> QED
    BY <1>0, <2>3
<1>2. parts \subseteq SUBSET S /\ parts # {}
  OBVIOUS
<1>3. IsWellFoundedOn(order, SUBSET S)
  BY <1>1, FS_FiniteSubsetsOfFinite, FS_StrictSubsetOrderingWellFounded
<1>. HIDE DEF order
<1>4. \E p \in parts : \A q \in parts : ~ (<<q, p>> \in order)
  BY <1>2, <1>3, WFMin
<1>5. PICK m \in S : \A k \in S : ~ (<<UpTo(k), UpTo(m)>> \in order)
  BY <1>4
<1>6. \A n \in S : m <= n
  <2> SUFFICES ASSUME NEW n \in S, n < m PROVE FALSE
    BY <1>1
  <2>1. m \in UpTo(m) /\ m \notin UpTo(n)
    BY <1>1
  <2>2. UpTo(n) \subseteq UpTo(m)
    <3> SUFFICES ASSUME NEW x \in S, x <= n PROVE x <= m
      OBVIOUS
    <3>1. x \in Nat /\ n \in Nat /\ m \in Nat
      BY <1>1
    <3> QED
      BY <3>1
  <2>3. UpTo(n) \in SUBSET S /\ UpTo(m) \in SUBSET S
    OBVIOUS
  <2>4. ~ (<<UpTo(n), UpTo(m)>> \in order)
    BY <1>5
  <2>. HIDE DEF UpTo
  <2> QED
    BY <2>1, <2>2, <2>3, <2>4 DEF order, StrictSubsetOrdering
<1> QED
  BY <1>6 DEF First

\* The jobs of the three kinds are distinct.
LEMMA TaskFacts ==
    /\ Nobody \notin Tasks /\ Submit \in Tasks
    /\ \A i \in Exports : /\ Stage(i) \in Tasks /\ Load(i) \in Tasks
                          /\ Stage(i) # Submit /\ Load(i) # Submit
                          /\ Stage(i)[2] = i /\ Load(i)[2] = i
                          /\ \A j \in Exports : Stage(i) # Load(j)
                          /\ \A j \in Exports : Stage(i) = Stage(j) => i = j
                          /\ \A j \in Exports : Load(i) = Load(j) => i = j
    /\ \A t \in Tasks : \/ t = Submit
                        \/ \E i \in Exports : t = Stage(i)
                        \/ \E i \in Exports : t = Load(i)
    /\ Submit[2] = 0
<1>1. \A i \in Exports : Stage(i)[2] = i /\ Load(i)[2] = i /\ Stage(i) # Submit /\ Load(i) # Submit
  BY DEF Stage, Load, Submit
<1>2. \A i, j \in Exports : Stage(i) # Load(j)
  BY DEF Stage, Load
<1>3. \A i, j \in Exports : (Stage(i) = Stage(j) => i = j) /\ (Load(i) = Load(j) => i = j)
  BY <1>1
<1>4. Submit[2] = 0
  BY DEF Submit
<1>5. Nobody \notin Tasks
  BY ResultsExportAssumption DEF Tasks, Submit, Stage, Load, Exports
<1> QED
  BY <1>1, <1>2, <1>3, <1>4, <1>5 DEF Tasks

LEMMA FirstSteps ==
    /\ FirstStep(Submit) = "select"
    /\ \A i \in Exports : FirstStep(Stage(i)) = "stage" /\ FirstStep(Load(i)) = "list"
BY DEF FirstStep, Submit, Stage, Load

LEMMA IdleFacts ==
    /\ Idle \in Thread /\ Idle.at = "idle" /\ Idle.task = Nobody /\ Unasked \in Asked
    /\ Unasked.at = "idle" /\ Unasked.branch = "none"
BY DEF Idle, Thread, WorkerAt, Unasked, Asked, RequestAt, Branch

-----------------------------------------------------------------------------
(* What one step does to a thread *)

\* Only thread w moves, within the job it runs.
Becomes(w, at, rows, todo, bad, job) ==
    /\ worker' \in [Workers -> Thread]
    /\ \A v \in Workers \ {w} : worker'[v] = worker[v]
    /\ worker'[w].at = at /\ worker'[w].task = worker[w].task /\ worker'[w].rows = rows
    /\ worker'[w].todo = todo /\ worker'[w].bad = bad /\ worker'[w].job = job

LEMMA Puts ==
    ASSUME NEW w \in Workers, worker \in [Workers -> Thread], NEW r \in Thread,
           worker' = [worker EXCEPT ![w] = r], r.task = worker[w].task
    PROVE  Becomes(w, r.at, r.rows, r.todo, r.bad, r.job)
BY DEF Becomes

LEMMA Goes ==
    ASSUME NEW w \in Workers, worker \in [Workers -> Thread], NEW at \in WorkerAt, Go(w, at)
    PROVE  Becomes(w, at, worker[w].rows, worker[w].todo, worker[w].bad, worker[w].job)
BY DEF Go, Becomes, Thread

LEMMA Visits ==
    ASSUME NEW w \in Workers, worker \in [Workers -> Thread], NEW S, S \subseteq Rows,
           NEW at \in WorkerAt, NEW past \in WorkerAt, Visit(w, S, at, past)
    PROVE  Becomes(w, IF S = {} THEN past ELSE at, worker[w].rows, S, worker[w].bad, worker[w].job)
<1>. DEFINE p == IF S = {} THEN past ELSE at
<1>1. p \in WorkerAt
  OBVIOUS
<1>2. worker' = [worker EXCEPT ![w].todo = S, ![w].at = p]
  BY DEF Visit
<1>. HIDE DEF p
<1>3. worker[w] \in Thread
  OBVIOUS
<1>4. Becomes(w, p, worker[w].rows, S, worker[w].bad, worker[w].job)
  BY <1>1, <1>2, <1>3 DEF Becomes, Thread
<1> QED
  BY <1>4 DEF p

Rest(w) == worker[w].todo \ {First(worker[w].todo)}

LEMMA VisitsOne ==
    ASSUME NEW w \in Workers, worker \in [Workers -> Thread], NEW past \in WorkerAt,
           Visited(w, past)
    PROVE  Becomes(w, IF Rest(w) = {} THEN past ELSE worker[w].at, worker[w].rows, Rest(w),
                   worker[w].bad, worker[w].job)
<1>. DEFINE S == Rest(w)
            p == IF S = {} THEN past ELSE worker[w].at
<1>1. worker[w] \in Thread
  OBVIOUS
<1>2. p \in WorkerAt /\ S \in SUBSET Rows
  BY <1>1 DEF Thread, Rest
<1>3. worker' = [worker EXCEPT ![w].todo = S, ![w].at = p]
  BY <1>1 DEF Visited, Rest
<1>. HIDE DEF p, S
<1>4. Becomes(w, p, worker[w].rows, S, worker[w].bad, worker[w].job)
  BY <1>1, <1>2, <1>3 DEF Becomes, Thread
<1> QED
  BY <1>4 DEF p, S

LEMMA NextTargets ==
    ASSUME NEW w \in Workers, worker \in [Workers -> Thread], NEW bad \in SUBSET Rows,
           NextTarget(w, bad)
    PROVE  Becomes(w, IF Rest(w) # {} THEN "open" ELSE IF bad = {} THEN "reread"
                      ELSE IF bad = worker[w].rows THEN "unstage" ELSE "missing",
                   worker[w].rows, IF Rest(w) = {} THEN bad ELSE Rest(w), bad, worker[w].job)
<1>. DEFINE S == IF Rest(w) = {} THEN bad ELSE Rest(w)
            p == IF Rest(w) # {} THEN "open" ELSE IF bad = {} THEN "reread"
                 ELSE IF bad = worker[w].rows THEN "unstage" ELSE "missing"
<1>1. worker[w] \in Thread
  OBVIOUS
<1>2. p \in WorkerAt /\ S \in SUBSET Rows
  BY <1>1 DEF Thread, Rest, WorkerAt
<1>3. worker' = [worker EXCEPT ![w].bad = bad, ![w].todo = S, ![w].at = p]
  BY <1>1 DEF NextTarget, Rest
<1>. HIDE DEF p, S
<1>4. Becomes(w, p, worker[w].rows, S, bad, worker[w].job)
  BY <1>1, <1>2, <1>3 DEF Becomes, Thread
<1> QED
  BY <1>4 DEF p, S

-----------------------------------------------------------------------------
(* What one step does to a row *)

RowIs(m, stage, load, job) ==
    /\ row' \in [Rows -> Manifest]
    /\ \A n \in Rows \ {m} : row'[n] = row[n]
    /\ row'[m].stage = stage /\ row'[m].load = load /\ row'[m].job = job
    /\ row'[m].closed = row[m].closed

LEMMA StageStamps ==
    ASSUME NEW m \in Rows, row \in [Rows -> Manifest], NEW st \in {"pending", "failed", "staged"},
           row' = [row EXCEPT ![m].stage = st]
    PROVE  RowIs(m, st, row[m].load, row[m].job)
BY DEF RowIs, Manifest

LEMMA LoadStamps ==
    ASSUME NEW m \in Rows, row \in [Rows -> Manifest], NEW st \in {"pending", "loaded", "failed"},
           row' = [row EXCEPT ![m].load = st]
    PROVE  RowIs(m, row[m].stage, st, row[m].job)
BY DEF RowIs, Manifest

LEMMA JobStamps ==
    ASSUME NEW m \in Rows, row \in [Rows -> Manifest], NEW i \in Exports \cup {0},
           row' = [row EXCEPT ![m].job = i]
    PROVE  RowIs(m, row[m].stage, row[m].load, i)
BY DEF RowIs, Manifest

LEMMA Refusals ==
    ASSUME NEW m \in Rows, row \in [Rows -> Manifest],
           row' = [row EXCEPT ![m].load = IF @ = "loaded" THEN @ ELSE "failed"]
    PROVE  RowIs(m, row[m].stage, IF row[m].load = "loaded" THEN "loaded" ELSE "failed", row[m].job)
BY DEF RowIs, Manifest

LEMMA ZipStamps ==
    ASSUME NEW m \in Rows, row \in [Rows -> Manifest], row' = [row EXCEPT ![m].zip = TRUE]
    PROVE  RowIs(m, row[m].stage, row[m].load, row[m].job)
BY DEF RowIs, Manifest

-----------------------------------------------------------------------------
(* What each step of the three bodies does *)

Core == Typed /\ Counted /\ Placed /\ Keyed /\ Fresh

LEMMA RecordedFacts ==
    ASSUME Typed, Counted
    PROVE  /\ Len(exports) \in Nat /\ Recorded = 1..Len(exports) /\ Recorded \subseteq Exports
           /\ \A w \in Workers : worker[w].at = "record" => Len(exports) + 1 \in Exports
           /\ Running \subseteq Recorded
<1>. DEFINE At == {w \in Workers : worker[w].at = "record"}
<1>1. Len(exports) \in Nat /\ Recorded = 1..Len(exports)
  BY DEF Typed, Recorded
<1>2. IsFiniteSet(At)
  <2>1. At \in SUBSET Workers
    OBVIOUS
  <2>. HIDE DEF At
  <2> QED
    BY <2>1, ConstantFacts, FS_Subset
<1>3. Cardinality(At) \in Nat
  BY <1>2, FS_CardinalityType
<1>4. Len(exports) + Cardinality(At) <= MaxExports
  BY DEF Counted, Accepted
<1>5. \A w \in Workers : worker[w].at = "record" => Cardinality(At) >= 1
  <2> SUFFICES ASSUME NEW w \in Workers, worker[w].at = "record" PROVE Cardinality(At) >= 1
    OBVIOUS
  <2>1. {w} \in SUBSET At
    OBVIOUS
  <2>2. Cardinality({w}) = 1
    BY FS_Singleton
  <2>. HIDE DEF At
  <2>3. Cardinality({w}) <= Cardinality(At)
    BY <1>2, <2>1, FS_Subset
  <2> QED
    BY <1>3, <2>2, <2>3
<1>. HIDE DEF At
<1>6. Recorded \subseteq Exports
  BY <1>1, <1>3, <1>4, ConstantFacts
<1>7. \A w \in Workers : worker[w].at = "record" => Len(exports) + 1 \in Exports
  BY <1>1, <1>3, <1>4, <1>5, ConstantFacts
<1>8. Running \subseteq Recorded
  BY DEF Running, Recorded
<1> QED
  BY <1>1, <1>6, <1>7, <1>8

\* What is known of the thread that takes a step.
LEMMA ThreadFacts ==
    ASSUME Core, NEW w \in Workers
    PROVE  /\ worker \in [Workers -> Thread] /\ worker[w] \in Thread
           /\ worker[w].rows \in SUBSET Rows /\ worker[w].todo \in SUBSET Rows
           /\ worker[w].bad \in SUBSET Rows /\ worker[w].at \in WorkerAt
           /\ worker[w].task \in Tasks \cup {Nobody} /\ worker[w].job \in Exports \cup {0}
           /\ InBody(worker[w], Recorded)
           /\ worker[w].todo # {} => First(worker[w].todo) \in worker[w].todo
           /\ worker[w].todo # {} => First(worker[w].todo) \in Rows
           /\ worker[w].rows # {} => First(worker[w].rows) \in Rows
<1>1. worker \in [Workers -> Thread] /\ worker[w] \in Thread
  BY DEF Core, Typed
<1>2. /\ worker[w].rows \in SUBSET Rows /\ worker[w].todo \in SUBSET Rows
      /\ worker[w].bad \in SUBSET Rows /\ worker[w].at \in WorkerAt
      /\ worker[w].task \in Tasks \cup {Nobody} /\ worker[w].job \in Exports \cup {0}
  BY <1>1 DEF Thread
<1>3. /\ worker[w].todo # {} => First(worker[w].todo) \in worker[w].todo
      /\ worker[w].rows # {} => First(worker[w].rows) \in worker[w].rows
  BY <1>2, FirstIn
<1>4. InBody(worker[w], Recorded)
  BY DEF Core, Placed
<1> QED
  BY <1>1, <1>2, <1>3, <1>4

\* Thread w only moves on; of what it keeps, some is replaced.
Moves(w, at)       == Becomes(w, at, worker[w].rows, worker[w].todo, worker[w].bad, worker[w].job)
Turns(w, at, todo) == Becomes(w, at, worker[w].rows, todo, worker[w].bad, worker[w].job)
Next1(w)           == First(worker[w].todo)
Loops(w, past)     == Turns(w, IF Rest(w) = {} THEN past ELSE worker[w].at, Rest(w))

LEMMA SelectRowsEffect ==
    ASSUME Core, NEW w \in Workers, SelectRows(w)
    PROVE  \E S \in SUBSET Rows :
              /\ S = {m \in Rows : row[m].stage = "pending" /\ row[m].job = 0}
              /\ Turns(w, IF S = {} THEN "succeeded" ELSE "find", S)
<1>1. {"find", "succeeded"} \subseteq WorkerAt
  BY DEF WorkerAt, Outcome
<1> QED
  BY <1>1, ThreadFacts, Visits DEF SelectRows, Turns

LEMMA FindExportEffect ==
    ASSUME Core, NEW w \in Workers, FindExport(w)
    PROVE  \/ Moves(w, "ask")
           \/ \E i \in Recorded : Becomes(w, "stamp", worker[w].rows, worker[w].todo,
                                          worker[w].bad, i)
<1>1. {"ask", "stamp"} \subseteq WorkerAt
  BY DEF WorkerAt
<1>2. Recorded \subseteq Exports /\ Running \subseteq Recorded
  BY RecordedFacts DEF Core
<1>3. CASE Running = {}
  BY <1>1, <1>3, ThreadFacts, Goes DEF FindExport, Moves
<1>4. CASE Running # {}
  <2>1. PICK i \in Running : worker' = [worker EXCEPT ![w].at = "stamp", ![w].job = i]
    BY <1>4 DEF FindExport
  <2>2. i \in Exports /\ i \in Recorded
    BY <1>2
  <2>3. Becomes(w, "stamp", worker[w].rows, worker[w].todo, worker[w].bad, i)
    BY <1>1, <2>1, <2>2, ThreadFacts DEF Becomes, Thread
  <2> QED
    BY <2>2, <2>3
<1> QED
  BY <1>3, <1>4

LEMMA AskExportEffect ==
    ASSUME Core, NEW w \in Workers, AskExport(w)
    PROVE  \/ Accepted < MaxExports /\ Moves(w, "record")
           \/ Moves(w, "reject") \/ Moves(w, "failed")
<1>1. {"record", "reject", "failed"} \subseteq WorkerAt
  BY DEF WorkerAt, Outcome
<1> QED
  BY <1>1, ThreadFacts, Goes DEF AskExport, Moves

LEMMA RecordExportEffect ==
    ASSUME Core, NEW w \in Workers, RecordExport(w)
    PROVE  /\ exports' \in Seq({"RUNNING", "FINISHED", "FAILED"})
           /\ Len(exports') = Len(exports) + 1 /\ Recorded' = Recorded \cup {Len(exports) + 1}
           /\ \A i \in Recorded : exports'[i] = exports[i]
           /\ exports'[Len(exports) + 1] = "RUNNING"
           /\ Becomes(w, "stamp", worker[w].rows, worker[w].todo, worker[w].bad, Len(exports) + 1)
<1>1. "stamp" \in WorkerAt
  BY DEF WorkerAt
<1>2. exports \in Seq({"RUNNING", "FINISHED", "FAILED"}) /\ exports' = Append(exports, "RUNNING")
  BY DEF RecordExport, Core, Typed
<1>3. Len(exports) + 1 \in Exports
  BY RecordedFacts DEF Core, RecordExport
<1>4. worker' = [worker EXCEPT ![w].at = "stamp", ![w].job = Len(exports) + 1]
  BY DEF RecordExport
<1>5. Becomes(w, "stamp", worker[w].rows, worker[w].todo, worker[w].bad, Len(exports) + 1)
  BY <1>1, <1>3, <1>4, ThreadFacts DEF Becomes, Thread
<1>6. /\ exports' \in Seq({"RUNNING", "FINISHED", "FAILED"})
      /\ Len(exports') = Len(exports) + 1 /\ DOMAIN exports' = DOMAIN exports \cup {Len(exports) + 1}
      /\ \A i \in DOMAIN exports : exports'[i] = exports[i]
      /\ exports'[Len(exports) + 1] = "RUNNING"
  BY <1>2
<1> QED
  BY <1>5, <1>6 DEF Recorded

LEMMA StampRowEffect ==
    ASSUME Core, NEW w \in Workers, StampRow(w)
    PROVE  /\ Next1(w) \in worker[w].todo /\ Next1(w) \in Rows
           /\ Loops(w, "succeeded")
           /\ \/ /\ worker[w].at = "stamp" /\ worker[w].job \in Recorded
                 /\ RowIs(Next1(w), row[Next1(w)].stage, row[Next1(w)].load, worker[w].job)
              \/ /\ worker[w].at = "reject"
                 /\ RowIs(Next1(w), "failed", row[Next1(w)].load, row[Next1(w)].job)
<1>1. worker[w].at \in {"stamp", "reject"} /\ Visited(w, "succeeded")
  BY DEF StampRow
<1>2. worker[w].todo # {}
  BY <1>1, ThreadFacts DEF InBody, LoopAt
<1>3. Next1(w) \in worker[w].todo /\ Next1(w) \in Rows
  BY <1>2, ThreadFacts DEF Next1
<1>4. Loops(w, "succeeded")
  BY <1>1, ThreadFacts, VisitsOne DEF Loops, Turns, WorkerAt, Outcome
<1>5. row \in [Rows -> Manifest]
  BY DEF Core, Typed
<1>6. CASE worker[w].at = "stamp" /\ row' = [row EXCEPT ![Next1(w)].job = worker[w].job]
  <2>1. worker[w].job \in Recorded /\ worker[w].job \in Exports \cup {0}
    BY <1>6, ThreadFacts DEF InBody
  <2> QED
    BY <1>3, <1>4, <1>5, <1>6, <2>1, JobStamps
<1>7. CASE worker[w].at = "reject" /\ row' = [row EXCEPT ![Next1(w)].stage = "failed"]
  BY <1>3, <1>4, <1>5, <1>7, StageStamps
<1> QED
  BY <1>6, <1>7 DEF StampRow, Next1

LEMMA ReadTargetsEffect ==
    ASSUME Core, NEW w \in Workers, ReadTargets(w)
    PROVE  \/ AllLoaded /\ Moves(w, "succeeded")
           \/ ~ AllLoaded /\ \E S \in SUBSET Rows :
                 /\ S = StageEligible
                 /\ Becomes(w, IF S = {} THEN "reread" ELSE "discard", S, S,
                            worker[w].bad, worker[w].job)
<1>1. {"succeeded", "reread", "discard"} \subseteq WorkerAt
  BY DEF WorkerAt, Outcome
<1>2. CASE AllLoaded
  BY <1>1, <1>2, ThreadFacts, Goes DEF ReadTargets, Moves
<1>3. CASE ~ AllLoaded
  <2>. DEFINE S == StageEligible
              p == IF S = {} THEN "reread" ELSE "discard"
  <2>1. S \in SUBSET Rows /\ p \in WorkerAt
    BY <1>1 DEF StageEligible
  <2>2. worker' = [worker EXCEPT ![w].rows = S, ![w].todo = S, ![w].at = p]
    BY <1>3 DEF ReadTargets
  <2>. HIDE DEF S, p
  <2>3. Becomes(w, p, S, S, worker[w].bad, worker[w].job)
    BY <2>1, <2>2, ThreadFacts DEF Becomes, Thread
  <2> QED
    BY <1>3, <2>1, <2>3 DEF S, p
<1> QED
  BY <1>2, <1>3

\* A loop visits its first row.
LEMMA LoopEffect ==
    ASSUME Core, NEW w \in Workers, worker[w].at \in LoopAt
    PROVE  /\ worker[w].todo # {} /\ Next1(w) \in worker[w].todo /\ Next1(w) \in Rows
           /\ \A past \in WorkerAt : Visited(w, past) => Loops(w, past)
<1>1. worker[w].todo # {}
  BY ThreadFacts DEF InBody
<1>2. Next1(w) \in worker[w].todo /\ Next1(w) \in Rows
  BY <1>1, ThreadFacts DEF Next1
<1>3. ASSUME NEW past \in WorkerAt, Visited(w, past) PROVE Loops(w, past)
  BY <1>3, ThreadFacts, VisitsOne DEF Loops, Turns
<1> QED
  BY <1>1, <1>2, <1>3

LEMMA DiscardEffect ==
    ASSUME Core, NEW w \in Workers, Discard(w)
    PROVE  /\ Next1(w) \in worker[w].todo /\ Next1(w) \in Rows /\ Loops(w, "check")
           /\ elt' = [elt EXCEPT ![Next1(w)] = NoLosses] /\ elt' \in [Rows -> Losses]
<1>1. worker[w].at \in LoopAt /\ "check" \in WorkerAt /\ NoLosses \in Losses
  BY DEF Discard, LoopAt, WorkerAt, NoLosses, Losses
<1> QED
  BY <1>1, LoopEffect DEF Discard, Core, Typed, Next1

LEMMA FetchArchiveEffect ==
    ASSUME Core, NEW w \in Workers, FetchArchive(w)
    PROVE  /\ Turns(w, "facts", worker[w].rows)
           /\ row' \in [Rows -> Manifest]
           /\ \A m \in Rows : /\ row'[m].stage = row[m].stage /\ row'[m].load = row[m].load
                              /\ row'[m].job = row[m].job /\ row'[m].closed = row[m].closed
<1>1. row \in [Rows -> Manifest] /\ "facts" \in WorkerAt
  BY DEF Core, Typed, WorkerAt
<1>2. First(worker[w].rows) \in Rows
  BY ThreadFacts DEF FetchArchive, InBody
<1>3. worker' = [worker EXCEPT ![w].at = "facts", ![w].todo = worker[w].rows]
  BY DEF FetchArchive
<1>4. Turns(w, "facts", worker[w].rows)
  BY <1>1, <1>3, ThreadFacts DEF Turns, Becomes, Thread
<1>5. CASE row' = row
  BY <1>1, <1>4, <1>5
<1>6. CASE row' = [row EXCEPT ![First(worker[w].rows)].zip = TRUE]
  BY <1>1, <1>2, <1>4, <1>6, ZipStamps DEF RowIs
<1> QED
  BY <1>5, <1>6 DEF FetchArchive

LEMMA ForgetArchiveEffect ==
    ASSUME Core, NEW w \in Workers, ForgetArchive(w)
    PROVE  /\ Moves(w, "unstage")
           /\ row' \in [Rows -> Manifest]
           /\ \A m \in Rows : /\ row'[m].stage = row[m].stage /\ row'[m].load = row[m].load
                              /\ row'[m].job = row[m].job /\ row'[m].closed = row[m].closed
<1>1. row \in [Rows -> Manifest] /\ "unstage" \in WorkerAt
  BY DEF Core, Typed, WorkerAt
<1>2. Moves(w, "unstage")
  BY <1>1, ThreadFacts, Goes DEF ForgetArchive, Moves
<1>3. row' = [m \in Rows |-> [row[m] EXCEPT !.zip = @ /\ m \notin worker[w].rows]]
  BY DEF ForgetArchive
<1>4. \A m \in Rows :
          LET r == [row[m] EXCEPT !.zip = @ /\ m \notin worker[w].rows] IN
          /\ r \in Manifest /\ r.stage = row[m].stage /\ r.load = row[m].load
          /\ r.job = row[m].job /\ r.closed = row[m].closed
  <2> TAKE m \in Rows
  <2>. DEFINE z == row[m].zip /\ m \notin worker[w].rows
  <2>1. z \in BOOLEAN /\ row[m] \in Manifest
    BY <1>1 DEF Manifest
  <2>2. [row[m] EXCEPT !.zip = @ /\ m \notin worker[w].rows] = [row[m] EXCEPT !.zip = z]
    BY <2>1 DEF Manifest
  <2>. HIDE DEF z
  <2> QED
    BY <2>1, <2>2 DEF Manifest
<1> QED
  BY <1>1, <1>2, <1>3, <1>4

LEMMA StampFactsEffect ==
    ASSUME Core, NEW w \in Workers, StampFacts(w)
    PROVE  /\ Next1(w) \in worker[w].todo /\ Next1(w) \in Rows /\ worker[w].job \in Recorded
           /\ Turns(w, IF Rest(w) = {} THEN "open" ELSE "facts",
                    IF Rest(w) = {} THEN worker[w].rows ELSE Rest(w))
           /\ RowIs(Next1(w), row[Next1(w)].stage, row[Next1(w)].load, worker[w].job)
<1>1. worker[w].at = "facts" /\ {"open", "facts"} \subseteq WorkerAt /\ row \in [Rows -> Manifest]
  BY DEF StampFacts, WorkerAt, Core, Typed
<1>2. Next1(w) \in worker[w].todo /\ Next1(w) \in Rows
  BY <1>1, LoopEffect DEF LoopAt
<1>3. worker[w].job \in Recorded /\ worker[w].job \in Exports \cup {0}
  BY <1>1, ThreadFacts DEF InBody, StageAt
<1>4. row' = [row EXCEPT ![Next1(w)].zip = TRUE, ![Next1(w)].job = worker[w].job]
  BY DEF StampFacts, Next1
<1>5. RowIs(Next1(w), row[Next1(w)].stage, row[Next1(w)].load, worker[w].job)
  BY <1>1, <1>2, <1>3, <1>4 DEF RowIs, Manifest
<1>6. Turns(w, IF Rest(w) = {} THEN "open" ELSE "facts",
            IF Rest(w) = {} THEN worker[w].rows ELSE Rest(w))
  <2>. DEFINE S == IF Rest(w) = {} THEN worker[w].rows ELSE Rest(w)
              p == IF Rest(w) = {} THEN "open" ELSE "facts"
  <2>1. p \in WorkerAt /\ S \in SUBSET Rows
    BY <1>1, ThreadFacts DEF Rest
  <2>2. worker' = [worker EXCEPT ![w].todo = S, ![w].at = p]
    BY <1>1, ThreadFacts DEF StampFacts, Rest
  <2>. HIDE DEF S, p
  <2>3. Turns(w, p, S)
    BY <2>1, <2>2, ThreadFacts DEF Turns, Becomes, Thread
  <2> QED
    BY <2>3 DEF S, p
<1> QED
  BY <1>2, <1>3, <1>5, <1>6

\* After a row of the table: the next one, or what is left to do.
Targeted(w, bad) ==
    Becomes(w, IF Rest(w) # {} THEN "open" ELSE IF bad = {} THEN "reread"
               ELSE IF bad = worker[w].rows THEN "unstage" ELSE "missing",
            worker[w].rows, IF Rest(w) = {} THEN bad ELSE Rest(w), bad, worker[w].job)

LEMMA OpenFileEffect ==
    ASSUME Core, NEW w \in Workers, OpenFile(w)
    PROVE  /\ Next1(w) \in worker[w].todo /\ Next1(w) \in Rows
           /\ elt' \in [Rows -> Losses] /\ \A m \in Rows : elt'[m].full = elt[m].full
           /\ \/ Moves(w, "upload")
              \/ Moves(w, "unstage")
              \/ Targeted(w, worker[w].bad \cup {Next1(w)})
<1>1. /\ worker[w].at \in LoopAt /\ {"upload", "unstage"} \subseteq WorkerAt
      /\ elt \in [Rows -> Losses]
  BY DEF OpenFile, LoopAt, WorkerAt, Core, Typed
<1>2. Next1(w) \in worker[w].todo /\ Next1(w) \in Rows
  BY <1>1, LoopEffect
<1>3. CASE elt' = [elt EXCEPT ![Next1(w)].file = w] /\ Go(w, "upload")
  <2>1. elt' \in [Rows -> Losses] /\ \A m \in Rows : elt'[m].full = elt[m].full
    BY <1>1, <1>2, <1>3 DEF Losses
  <2>2. Moves(w, "upload")
    BY <1>1, <1>3, ThreadFacts, Goes DEF Moves
  <2> QED
    BY <1>2, <2>1, <2>2
<1>4. CASE Go(w, "unstage") /\ elt' = elt
  BY <1>1, <1>2, <1>4, ThreadFacts, Goes DEF Moves
<1>5. CASE NextTarget(w, worker[w].bad \cup {Next1(w)}) /\ elt' = elt
  <2>. DEFINE b == worker[w].bad \cup {Next1(w)}
  <2>1. b \in SUBSET Rows
    BY <1>2, ThreadFacts
  <2>2. NextTarget(w, b)
    BY <1>5
  <2>. HIDE DEF b
  <2>3. Targeted(w, b)
    BY <2>1, <2>2, ThreadFacts, NextTargets DEF Targeted
  <2> QED
    BY <1>1, <1>2, <1>5, <2>3 DEF b
<1> QED
  BY <1>3, <1>4, <1>5 DEF OpenFile, Next1

LEMMA UploadFileEffect ==
    ASSUME Core, NEW w \in Workers, UploadFile(w)
    PROVE  /\ Next1(w) \in worker[w].todo /\ Next1(w) \in Rows
           /\ elt' \in [Rows -> Losses]
           /\ \/ /\ Moves(w, "staged") /\ elt'[Next1(w)].full
                 /\ \A m \in Rows : elt[m].full => elt'[m].full
              \/ Moves(w, "unstage") /\ elt' = elt
<1>1. /\ worker[w].at \in LoopAt /\ {"staged", "unstage"} \subseteq WorkerAt
      /\ elt \in [Rows -> Losses]
  BY DEF UploadFile, LoopAt, WorkerAt, Core, Typed
<1>2. Next1(w) \in worker[w].todo /\ Next1(w) \in Rows
  BY <1>1, LoopEffect
<1>3. CASE elt' = [elt EXCEPT ![Next1(w)].full = TRUE] /\ Go(w, "staged")
  <2>1. /\ elt' \in [Rows -> Losses] /\ elt'[Next1(w)].full
        /\ \A m \in Rows : elt[m].full => elt'[m].full
    BY <1>1, <1>2, <1>3 DEF Losses
  <2>2. Moves(w, "staged")
    BY <1>1, <1>3, ThreadFacts, Goes DEF Moves
  <2> QED
    BY <1>2, <2>1, <2>2
<1>4. CASE Go(w, "unstage") /\ elt' = elt
  BY <1>1, <1>2, <1>4, ThreadFacts, Goes DEF Moves
<1> QED
  BY <1>3, <1>4 DEF UploadFile, Next1

LEMMA MarkStagedEffect ==
    ASSUME Core, NEW w \in Workers, MarkStaged(w)
    PROVE  /\ Next1(w) \in worker[w].todo /\ Next1(w) \in Rows
           /\ Targeted(w, worker[w].bad)
           /\ RowIs(Next1(w), "staged", row[Next1(w)].load, row[Next1(w)].job)
<1>1. worker[w].at \in LoopAt /\ row \in [Rows -> Manifest]
  BY DEF MarkStaged, LoopAt, Core, Typed
<1>2. Next1(w) \in worker[w].todo /\ Next1(w) \in Rows
  BY <1>1, LoopEffect
<1>3. worker[w].bad \in SUBSET Rows /\ worker \in [Workers -> Thread]
  BY ThreadFacts
<1>4. NextTarget(w, worker[w].bad) /\ row' = [row EXCEPT ![Next1(w)].stage = "staged"]
  BY DEF MarkStaged, Next1
<1>5. Targeted(w, worker[w].bad)
  BY <1>3, <1>4, NextTargets DEF Targeted
<1> QED
  BY <1>1, <1>2, <1>4, <1>5, StageStamps

LEMMA FailMissingEffect ==
    ASSUME Core, NEW w \in Workers, FailMissing(w)
    PROVE  /\ Next1(w) \in worker[w].todo /\ Next1(w) \in Rows /\ Loops(w, "reread")
           /\ RowIs(Next1(w), "failed", row[Next1(w)].load, row[Next1(w)].job)
<1>1. worker[w].at \in LoopAt /\ "reread" \in WorkerAt /\ row \in [Rows -> Manifest]
  BY DEF FailMissing, LoopAt, WorkerAt, Core, Typed
<1>2. row' = [row EXCEPT ![Next1(w)].stage = "failed"] /\ Visited(w, "reread")
  BY DEF FailMissing, Next1
<1> QED
  BY <1>1, <1>2, LoopEffect, StageStamps

LEMMA StageFailsEffect ==
    ASSUME Core, NEW w \in Workers, StageFails(w)
    PROVE  Moves(w, "unstage")
<1>1. "unstage" \in WorkerAt
  BY DEF WorkerAt
<1> QED
  BY <1>1, ThreadFacts, Goes DEF StageFails, Moves

LEMMA ReadUnstagedEffect ==
    ASSUME Core, NEW w \in Workers, ReadUnstaged(w)
    PROVE  Turns(w, IF StageEligible = {} THEN "failed" ELSE "fail", StageEligible)
<1>1. {"fail", "failed"} \subseteq WorkerAt /\ StageEligible \subseteq Rows
  BY DEF WorkerAt, Outcome, StageEligible
<1> QED
  BY <1>1, ThreadFacts, Visits DEF ReadUnstaged, Turns

LEMMA FailUnstagedEffect ==
    ASSUME Core, NEW w \in Workers, FailUnstaged(w)
    PROVE  /\ Next1(w) \in worker[w].todo /\ Next1(w) \in Rows /\ Loops(w, "failed")
           /\ RowIs(Next1(w), "failed", row[Next1(w)].load, row[Next1(w)].job)
<1>1. worker[w].at \in LoopAt /\ "failed" \in WorkerAt /\ row \in [Rows -> Manifest]
  BY DEF FailUnstaged, LoopAt, WorkerAt, Outcome, Core, Typed
<1>2. row' = [row EXCEPT ![Next1(w)].stage = "failed"] /\ Visited(w, "failed")
  BY DEF FailUnstaged, Next1
<1> QED
  BY <1>1, <1>2, LoopEffect, StageStamps

LEMMA Outcomes ==
    /\ \A w : StageOutcome(w) \in Ended /\ LoadOutcome(w) \in Ended
    /\ Ended \subseteq Outcome /\ Outcome \subseteq WorkerAt
BY DEF StageOutcome, LoadOutcome, Ended, Outcome, WorkerAt

LEMMA ReadLoadableEffect ==
    ASSUME Core, NEW w \in Workers, ReadLoadable(w)
    PROVE  Turns(w, IF LoadEligible = {} THEN StageOutcome(w) ELSE "enqueue", LoadEligible)
<1>1. "enqueue" \in WorkerAt /\ StageOutcome(w) \in WorkerAt /\ LoadEligible \subseteq Rows
  BY Outcomes DEF WorkerAt, LoadEligible
<1> QED
  BY <1>1, ThreadFacts, Visits DEF ReadLoadable, Turns

\* A job is armed unless it is under way.
Armed(t) ==
    /\ task' \in [Tasks -> TaskStatus]
    /\ \A x \in Tasks \ {t} : task'[x] = task[x]
    /\ task'[t] = IF task[t] \in {"pending", "running"} THEN task[t] ELSE "pending"

LEMMA Rearms ==
    ASSUME Core, NEW t \in Tasks, Rearm(t)
    PROVE  Armed(t)
BY DEF Core, Typed, Rearm, Armed, TaskStatus

LEMMA EnqueueLoadEffect ==
    ASSUME Core, NEW w \in Workers, EnqueueLoad(w)
    PROVE  /\ worker[w].job \in Recorded /\ worker[w].job \in Exports
           /\ loads' \in History /\ loads'.took = loads.took /\ loads'.forgotten = loads.forgotten
           /\ \/ /\ Armed(Load(worker[w].job)) /\ Moves(w, StageOutcome(w))
                 /\ loads'.late = (loads.late \/ task[Load(worker[w].job)] = "running")
              \/ Moves(w, "no_load") /\ task' = task /\ loads' = loads
<1>1. worker[w].at = "enqueue" /\ "no_load" \in WorkerAt /\ loads \in History
  BY DEF EnqueueLoad, WorkerAt, Core, Typed
<1>2. worker[w].job \in Recorded /\ worker[w].job \in Exports
  BY <1>1, ThreadFacts, RecordedFacts DEF InBody, StageAt, Core
<1>3. Load(worker[w].job) \in Tasks
  BY <1>2, TaskFacts
<1>4. CASE /\ Rearm(Load(worker[w].job)) /\ Go(w, StageOutcome(w))
           /\ loads' = [loads EXCEPT !.late = @ \/ task[Load(worker[w].job)] = "running"]
  <2>. DEFINE late == loads.late \/ task[Load(worker[w].job)] = "running"
  <2>1. late \in BOOLEAN /\ loads' = [loads EXCEPT !.late = late]
    BY <1>1, <1>4 DEF History
  <2>. HIDE DEF late
  <2>2. /\ loads' \in History /\ loads'.took = loads.took /\ loads'.forgotten = loads.forgotten
        /\ loads'.late = late
    BY <1>1, <2>1 DEF History
  <2>3. Armed(Load(worker[w].job))
    BY <1>3, <1>4, Rearms
  <2>4. Moves(w, StageOutcome(w))
    BY <1>4, Outcomes, ThreadFacts, Goes DEF Moves
  <2> QED
    BY <1>2, <2>2, <2>3, <2>4 DEF late
<1>5. CASE Go(w, "no_load") /\ task' = task /\ loads' = loads
  BY <1>1, <1>2, <1>5, ThreadFacts, Goes DEF Moves
<1> QED
  BY <1>4, <1>5 DEF EnqueueLoad

LEMMA FailUnqueuedEffect ==
    ASSUME Core, NEW w \in Workers, FailUnqueued(w)
    PROVE  /\ Next1(w) \in worker[w].todo /\ Next1(w) \in Rows /\ Loops(w, "failed")
           /\ RowIs(Next1(w), row[Next1(w)].stage, "failed", row[Next1(w)].job)
           /\ loads' \in History /\ loads'.took = loads.took /\ loads'.late = loads.late
           /\ loads'.forgotten = IF row[Next1(w)].load = "loaded"
                                   THEN loads.forgotten \cup {Next1(w)} ELSE loads.forgotten
<1>1. /\ worker[w].at \in LoopAt /\ "failed" \in WorkerAt /\ row \in [Rows -> Manifest]
      /\ loads \in History
  BY DEF FailUnqueued, LoopAt, WorkerAt, Outcome, Core, Typed
<1>2. row' = [row EXCEPT ![Next1(w)].load = "failed"] /\ Visited(w, "failed")
  BY DEF FailUnqueued, Next1
<1>3. Next1(w) \in Rows /\ Next1(w) \in worker[w].todo
  BY <1>1, LoopEffect
<1>. DEFINE f == IF row[Next1(w)].load = "loaded" THEN loads.forgotten \cup {Next1(w)}
                 ELSE loads.forgotten
<1>4. f \in SUBSET Rows /\ loads' = [loads EXCEPT !.forgotten = f]
  BY <1>1, <1>3 DEF History, FailUnqueued, Next1
<1>. HIDE DEF f
<1>5. /\ loads' \in History /\ loads'.took = loads.took /\ loads'.late = loads.late
      /\ loads'.forgotten = f
  BY <1>1, <1>4 DEF History
<1>6. RowIs(Next1(w), row[Next1(w)].stage, "failed", row[Next1(w)].job)
  BY <1>1, <1>2, <1>3, LoadStamps
<1> QED
  BY <1>1, <1>2, <1>3, <1>5, <1>6, LoopEffect DEF f

LEMMA ListLoadableEffect ==
    ASSUME Core, NEW w \in Workers, ListLoadable(w)
    PROVE  \/ AllLoaded /\ Moves(w, "succeeded")
           \/ Turns(w, IF LoadEligible = {} THEN "failed" ELSE "load", LoadEligible)
<1>1. {"succeeded", "failed", "load"} \subseteq WorkerAt /\ LoadEligible \subseteq Rows
  BY DEF WorkerAt, Outcome, LoadEligible
<1> QED
  BY <1>1, ThreadFacts, Goes, Visits DEF ListLoadable, Turns, Moves

LEMMA LoadRowEffect ==
    ASSUME Core, NEW w \in Workers, LoadRow(w)
    PROVE  /\ Next1(w) \in worker[w].todo /\ Next1(w) \in Rows /\ Loops(w, LoadOutcome(w))
           /\ Claimable(Next1(w))
           /\ RowIs(Next1(w), row[Next1(w)].stage, "loaded", row[Next1(w)].job)
           /\ loads' \in History /\ loads'.late = loads.late /\ loads'.forgotten = loads.forgotten
           /\ \A m \in Rows \ {Next1(w)} : loads'.took[m] = loads.took[m]
           /\ loads'.took[Next1(w)] = Append(loads.took[Next1(w)], elt[Next1(w)].full)
           /\ elt[Next1(w)].full \in BOOLEAN
<1>1. /\ worker[w].at \in LoopAt /\ LoadOutcome(w) \in WorkerAt /\ row \in [Rows -> Manifest]
      /\ loads \in History /\ elt \in [Rows -> Losses]
  BY Outcomes DEF LoadRow, LoopAt, Core, Typed
<1>2. /\ row' = [row EXCEPT ![Next1(w)].load = "loaded"] /\ Visited(w, LoadOutcome(w))
      /\ Claimable(Next1(w))
  BY DEF LoadRow, Next1
<1>3. Next1(w) \in Rows /\ Next1(w) \in worker[w].todo
  BY <1>1, LoopEffect
<1>4. elt[Next1(w)].full \in BOOLEAN
  BY <1>1, <1>3 DEF Losses
<1>. DEFINE t == [loads.took EXCEPT ![Next1(w)] = Append(@, elt[Next1(w)].full)]
<1>5. loads' = [loads EXCEPT !.took = t]
  <2>1. loads' = [loads EXCEPT !.took[Next1(w)] = Append(@, elt[Next1(w)].full)]
    BY DEF LoadRow, Next1
  <2> QED
    BY <1>1, <2>1 DEF History
<1>6. /\ t \in [Rows -> Seq(BOOLEAN)]
      /\ \A m \in Rows \ {Next1(w)} : t[m] = loads.took[m]
      /\ t[Next1(w)] = Append(loads.took[Next1(w)], elt[Next1(w)].full)
  BY <1>1, <1>3, <1>4 DEF History
<1>. HIDE DEF t
<1>7. loads' \in History /\ loads'.took = t /\ loads'.late = loads.late
      /\ loads'.forgotten = loads.forgotten
  BY <1>1, <1>5, <1>6 DEF History
<1>8. RowIs(Next1(w), row[Next1(w)].stage, "loaded", row[Next1(w)].job)
  BY <1>1, <1>2, <1>3, LoadStamps
<1> QED
  BY <1>1, <1>2, <1>3, <1>4, <1>6, <1>7, <1>8, LoopEffect

LEMMA LoadRowFailsEffect ==
    ASSUME Core, NEW w \in Workers, LoadRowFails(w)
    PROVE  \/ Moves(w, "refused")
           \/ Claimable(Next1(w)) /\ Moves(w, "catch")
<1>1. {"refused", "catch"} \subseteq WorkerAt
  BY DEF WorkerAt
<1> QED
  BY <1>1, ThreadFacts, Goes DEF LoadRowFails, Moves, Next1

LEMMA CatchLoadEffect ==
    ASSUME Core, NEW w \in Workers, CatchLoad(w)
    PROVE  /\ Next1(w) \in worker[w].todo /\ Next1(w) \in Rows /\ Moves(w, "refused")
           /\ RowIs(Next1(w), row[Next1(w)].stage, "failed", row[Next1(w)].job)
<1>1. worker[w].at \in LoopAt /\ "refused" \in WorkerAt /\ row \in [Rows -> Manifest]
  BY DEF CatchLoad, LoopAt, WorkerAt, Core, Typed
<1>2. row' = [row EXCEPT ![Next1(w)].load = "failed"] /\ Go(w, "refused")
  BY DEF CatchLoad, Next1
<1>3. Moves(w, "refused")
  BY <1>1, <1>2, ThreadFacts, Goes DEF Moves
<1> QED
  BY <1>1, <1>2, <1>3, LoopEffect, LoadStamps

LEMMA StampRefusedEffect ==
    ASSUME Core, NEW w \in Workers, StampRefused(w)
    PROVE  /\ Next1(w) \in worker[w].todo /\ Next1(w) \in Rows
           /\ Becomes(w, IF Rest(w) = {} THEN "failed" ELSE "load", worker[w].rows, Rest(w),
                      worker[w].bad \cup {Next1(w)}, worker[w].job)
           /\ RowIs(Next1(w), row[Next1(w)].stage,
                    IF row[Next1(w)].load = "loaded" THEN "loaded" ELSE "failed", row[Next1(w)].job)
<1>1. /\ worker[w].at \in LoopAt /\ {"failed", "load"} \subseteq WorkerAt
      /\ row \in [Rows -> Manifest]
  BY DEF StampRefused, LoopAt, WorkerAt, Outcome, Core, Typed
<1>2. row' = [row EXCEPT ![Next1(w)].load = IF @ = "loaded" THEN @ ELSE "failed"]
  BY DEF StampRefused, Next1
<1>3. Next1(w) \in worker[w].todo /\ Next1(w) \in Rows
  BY <1>1, LoopEffect
<1>. DEFINE S == Rest(w)
            b == worker[w].bad \cup {Next1(w)}
            p == IF S = {} THEN "failed" ELSE "load"
<1>4. S \in SUBSET Rows /\ b \in SUBSET Rows /\ p \in WorkerAt
  BY <1>1, <1>3, ThreadFacts DEF Rest
<1>5. worker' = [worker EXCEPT ![w].bad = b, ![w].todo = S, ![w].at = p]
  BY ThreadFacts DEF StampRefused, Rest, Next1
<1>. HIDE DEF S, b, p
<1>6. Becomes(w, p, worker[w].rows, S, b, worker[w].job)
  BY <1>4, <1>5, ThreadFacts DEF Becomes, Thread
<1> QED
  BY <1>1, <1>2, <1>3, <1>6, Refusals DEF S, b, p

\* A body that raises, or loses a stamp, changes nothing but the place of its thread.
LEMMA DropEffect ==
    ASSUME Core, NEW w \in Workers, Raises(w) \/ StampLost(w)
    PROVE  /\ UNCHANGED <<held, row, elt, loads, exports, task, request, form>>
           /\ Spend("crashes") /\ worker[w] # Idle
           /\ worker' \in [Workers -> Thread] /\ \A v \in Workers \ {w} : worker'[v] = worker[v]
           /\ worker'[w].task = worker[w].task /\ InBody(worker'[w], Recorded)
           /\ \/ worker'[w].at = "raised"
              \/ /\ worker[w].at = "refused" /\ worker'[w].at \in {"failed", "load"}
                 /\ worker[w].todo \cup worker[w].bad \subseteq worker'[w].todo \cup worker'[w].bad
<1>1. CASE Raises(w)
  <2>1. Moves(w, "raised")
    BY <1>1, Outcomes, ThreadFacts, Goes DEF Raises, Moves, Outcome
  <2>2. worker[w].at # "idle" /\ worker[w] # Idle
    BY <1>1, IdleFacts DEF Raises
  <2>3. InBody(worker'[w], Recorded)
    BY <2>1, <2>2, ThreadFacts DEF Moves, Becomes, InBody, SubmitAt, StageAt, LoadAt, LoopAt
  <2> QED
    BY <1>1, <2>1, <2>2, <2>3 DEF Raises, Moves, Becomes
<1>2. CASE StampLost(w)
  <2>1. /\ worker[w].at \in LoopAt /\ worker[w].at = "refused" /\ worker[w].at \in LoadAt
        /\ {"failed", "load"} \subseteq WorkerAt
    BY <1>2 DEF StampLost, LoopAt, LoadAt, WorkerAt, Outcome
  <2>2. Next1(w) \in worker[w].todo /\ Next1(w) \in Rows
    BY <2>1, LoopEffect
  <2>. DEFINE S == Rest(w)
              b == worker[w].bad \cup {Next1(w)}
              p == IF S = {} THEN "failed" ELSE "load"
  <2>3. S \in SUBSET Rows /\ b \in SUBSET Rows /\ p \in WorkerAt
    BY <2>1, <2>2, ThreadFacts DEF Rest
  <2>4. worker' = [worker EXCEPT ![w].bad = b, ![w].todo = S, ![w].at = p]
    BY <1>2, ThreadFacts DEF StampLost, Rest, Next1
  <2>5. worker[w].todo \cup worker[w].bad \subseteq S \cup b
    BY DEF Rest, Next1
  <2>6. p \in {"failed", "load"} /\ (p = "load" => S # {})
    OBVIOUS
  <2>. HIDE DEF S, b, p
  <2>7. Becomes(w, p, worker[w].rows, S, b, worker[w].job)
    BY <2>3, <2>4, ThreadFacts DEF Becomes, Thread
  <2>8. InBody(worker'[w], Recorded)
    BY <2>1, <2>6, <2>7, ThreadFacts DEF Becomes, InBody, SubmitAt, StageAt, LoadAt, LoopAt
  <2>9. worker[w] # Idle
    BY <2>1, IdleFacts
  <2> QED
    BY <1>2, <2>1, <2>5, <2>6, <2>7, <2>8, <2>9 DEF StampLost, Becomes
<1> QED
  BY <1>1, <1>2

-----------------------------------------------------------------------------
(* Types and places *)

LEMMA BodyCore ==
    ASSUME Core, NEW w \in Workers, worker[w].at # "idle",
           worker' \in [Workers -> Thread], \A v \in Workers \ {w} : worker'[v] = worker[v],
           InBody(worker'[w], Recorded), worker'[w].at # "record",
           UNCHANGED <<held, exports, request, form, spent>>,
           row' \in [Rows -> Manifest], \A m \in Rows : row'[m].job \in Recorded \cup {0},
           elt' \in [Rows -> Losses], loads' \in History, task' \in [Tasks -> TaskStatus],
           \A i \in Exports : task'[Stage(i)] # "absent" \/ task'[Load(i)] # "absent"
                                  => i \in Recorded
    PROVE  Core'
<1>1. Typed'
  BY DEF Core, Typed
<1>2. Recorded' = Recorded
  BY DEF Recorded
<1>3. Placed'
  BY <1>2 DEF Core, Placed
<1>4. Keyed'
  BY <1>2 DEF Core, Keyed
<1>5. Fresh'
  BY IdleFacts DEF Core, Fresh
<1>6. Counted'
  <2>. DEFINE At == {v \in Workers : worker[v].at = "record"}
  <2>1. IsFiniteSet(At)
    <3>1. At \in SUBSET Workers
      OBVIOUS
    <3>. HIDE DEF At
    <3> QED
      BY <3>1, ConstantFacts, FS_Subset
  <2>2. At' \in SUBSET At
    OBVIOUS
  <2>3. Len(exports) + Cardinality(At) <= MaxExports
    BY DEF Core, Counted, Accepted
  <2>. HIDE DEF At
  <2>4. Cardinality(At') <= Cardinality(At) /\ IsFiniteSet(At')
    BY <2>1, <2>2, FS_Subset
  <2>5. Cardinality(At') \in Nat /\ Cardinality(At) \in Nat
    BY <2>1, <2>4, FS_CardinalityType
  <2>6. Len(exports) \in Nat /\ MaxExports \in Nat
    BY ConstantFacts, RecordedFacts DEF Core
  <2>7. Len(exports') + Cardinality(At') <= MaxExports
    BY <2>3, <2>4, <2>5, <2>6
  <2> QED
    BY <2>7 DEF At, Counted, Accepted
<1> QED
  BY <1>1, <1>3, <1>4, <1>5, <1>6 DEF Core

LEMMA CoreFacts ==
    ASSUME Core
    PROVE  /\ row \in [Rows -> Manifest] /\ elt \in [Rows -> Losses] /\ loads \in History
           /\ task \in [Tasks -> TaskStatus]
           /\ \A m \in Rows : row[m].job \in Recorded \cup {0}
           /\ \A i \in Exports : task[Stage(i)] # "absent" \/ task[Load(i)] # "absent"
                                     => i \in Recorded
BY DEF Core, Typed, Keyed

LEMMA SubmitCore ==
    ASSUME Core, NEW w \in Workers,
           SelectRows(w) \/ FindExport(w) \/ StampRow(w)
    PROVE  Core'
<1>1. CASE SelectRows(w)
  <2>1. InBody(worker'[w], Recorded) /\ worker'[w].at # "record"
    BY <1>1, SelectRowsEffect, ThreadFacts
    DEF SelectRows, Turns, Becomes, InBody, SubmitAt, StageAt, LoadAt, LoopAt
  <2> QED
    BY <1>1, <2>1, SelectRowsEffect, CoreFacts, BodyCore DEF SelectRows, Turns, Becomes
<1>2. CASE FindExport(w)
  <2>1. InBody(worker'[w], Recorded) /\ worker'[w].at # "record"
    BY <1>2, FindExportEffect, ThreadFacts
    DEF FindExport, Moves, Becomes, InBody, SubmitAt, StageAt, LoadAt, LoopAt
  <2> QED
    BY <1>2, <2>1, FindExportEffect, CoreFacts, BodyCore DEF FindExport, Moves, Becomes
<1>3. CASE StampRow(w)
  <2>1. InBody(worker'[w], Recorded) /\ worker'[w].at # "record"
    BY <1>3, StampRowEffect, ThreadFacts
    DEF StampRow, Loops, Turns, Becomes, InBody, SubmitAt, StageAt, LoadAt, LoopAt
  <2>2. row' \in [Rows -> Manifest] /\ \A m \in Rows : row'[m].job \in Recorded \cup {0}
    BY <1>3, StampRowEffect, CoreFacts DEF RowIs
  <2> QED
    BY <1>3, <2>1, <2>2, StampRowEffect, CoreFacts, BodyCore DEF StampRow, Loops, Turns, Becomes
<1> QED
  BY <1>1, <1>2, <1>3

LEMMA StageCore ==
    ASSUME Core, NEW w \in Workers,
           ReadTargets(w) \/ Discard(w) \/ FetchArchive(w) \/ ForgetArchive(w) \/
           StampFacts(w) \/ OpenFile(w) \/ UploadFile(w) \/ MarkStaged(w) \/
           FailMissing(w) \/ StageFails(w) \/ ReadUnstaged(w) \/ FailUnstaged(w) \/
           ReadLoadable(w) \/ EnqueueLoad(w) \/ FailUnqueued(w)
    PROVE  Core'
<1>1. CASE ReadTargets(w)
  <2>1. InBody(worker'[w], Recorded) /\ worker'[w].at # "record"
    BY ZenonT(60), <1>1, ReadTargetsEffect, ThreadFacts
    DEF ReadTargets, Moves, Becomes, InBody, SubmitAt, StageAt, LoadAt, LoopAt, Rest
  <2> QED
    BY ZenonT(60), <1>1, <2>1, ReadTargetsEffect, ThreadFacts, CoreFacts, BodyCore
    DEF ReadTargets, Moves, Becomes, InBody
<1>2. CASE Discard(w)
  <2>1. InBody(worker'[w], Recorded) /\ worker'[w].at # "record"
    BY ZenonT(60), <1>2, DiscardEffect, ThreadFacts
    DEF Discard, Loops, Turns, Becomes, InBody, SubmitAt, StageAt, LoadAt, LoopAt, Rest
  <2> QED
    BY <1>2, <2>1, DiscardEffect, ThreadFacts, CoreFacts, BodyCore
    DEF Discard, Loops, Turns, Becomes, InBody
<1>3. CASE FetchArchive(w)
  <2>1. InBody(worker'[w], Recorded) /\ worker'[w].at # "record"
    BY <1>3, FetchArchiveEffect, ThreadFacts
    DEF FetchArchive, Turns, Becomes, InBody, SubmitAt, StageAt, LoadAt, LoopAt, Rest
  <2>2. row' \in [Rows -> Manifest] /\ \A m \in Rows : row'[m].job \in Recorded \cup {0}
    BY <1>3, FetchArchiveEffect, CoreFacts
  <2> QED
    BY <1>3, <2>1, <2>2, FetchArchiveEffect, ThreadFacts, CoreFacts, BodyCore
    DEF FetchArchive, Turns, Becomes, InBody
<1>4. CASE ForgetArchive(w)
  <2>1. InBody(worker'[w], Recorded) /\ worker'[w].at # "record"
    BY ZenonT(60), <1>4, ForgetArchiveEffect, ThreadFacts
    DEF ForgetArchive, Moves, Becomes, InBody, SubmitAt, StageAt, LoadAt, LoopAt, Rest
  <2>2. row' \in [Rows -> Manifest] /\ \A m \in Rows : row'[m].job \in Recorded \cup {0}
    BY <1>4, ForgetArchiveEffect, CoreFacts
  <2> QED
    BY <1>4, <2>1, <2>2, ForgetArchiveEffect, ThreadFacts, CoreFacts, BodyCore
    DEF ForgetArchive, Moves, Becomes, InBody
<1>5. CASE StampFacts(w)
  <2>1. InBody(worker'[w], Recorded) /\ worker'[w].at # "record"
    BY <1>5, StampFactsEffect, ThreadFacts
    DEF StampFacts, Turns, Becomes, InBody, SubmitAt, StageAt, LoadAt, LoopAt, Rest
  <2>2. row' \in [Rows -> Manifest] /\ \A m \in Rows : row'[m].job \in Recorded \cup {0}
    BY <1>5, StampFactsEffect, CoreFacts DEF RowIs
  <2> QED
    BY <1>5, <2>1, <2>2, StampFactsEffect, ThreadFacts, CoreFacts, BodyCore
    DEF StampFacts, Turns, Becomes, InBody
<1>6. CASE OpenFile(w)
  <2>1. InBody(worker'[w], Recorded) /\ worker'[w].at # "record"
    BY ZenonT(60), <1>6, OpenFileEffect, ThreadFacts
    DEF OpenFile, Moves, Targeted, Becomes, InBody, SubmitAt, StageAt, LoadAt, LoopAt, Rest
  <2> QED
    BY <1>6, <2>1, OpenFileEffect, ThreadFacts, CoreFacts, BodyCore
    DEF OpenFile, Moves, Targeted, Becomes, InBody
<1>7. CASE UploadFile(w)
  <2>1. InBody(worker'[w], Recorded) /\ worker'[w].at # "record"
    BY <1>7, UploadFileEffect, ThreadFacts
    DEF UploadFile, Moves, Becomes, InBody, SubmitAt, StageAt, LoadAt, LoopAt, Rest
  <2> QED
    BY <1>7, <2>1, UploadFileEffect, ThreadFacts, CoreFacts, BodyCore
    DEF UploadFile, Moves, Becomes, InBody
<1>8. CASE MarkStaged(w)
  <2>0. worker[w].at = "staged"
    BY <1>8 DEF MarkStaged
  <2>1. InBody(worker'[w], Recorded) /\ worker'[w].at # "record"
    BY ZenonT(60), <1>8, <2>0, MarkStagedEffect, ThreadFacts
    DEF Targeted, Becomes, InBody, SubmitAt, StageAt, LoadAt, LoopAt, Rest
  <2>2. row' \in [Rows -> Manifest] /\ \A m \in Rows : row'[m].job \in Recorded \cup {0}
    BY <1>8, MarkStagedEffect, CoreFacts DEF RowIs
  <2> QED
    BY <1>8, <2>1, <2>2, MarkStagedEffect, ThreadFacts, CoreFacts, BodyCore
    DEF MarkStaged, Targeted, Becomes, InBody
<1>9. CASE FailMissing(w)
  <2>0. worker[w].at = "missing"
    BY <1>9 DEF FailMissing
  <2>1. InBody(worker'[w], Recorded) /\ worker'[w].at # "record"
    BY <1>9, <2>0, FailMissingEffect, ThreadFacts
    DEF Loops, Turns, Becomes, InBody, SubmitAt, StageAt, LoadAt, LoopAt, Rest
  <2>2. row' \in [Rows -> Manifest] /\ \A m \in Rows : row'[m].job \in Recorded \cup {0}
    BY <1>9, FailMissingEffect, CoreFacts DEF RowIs
  <2> QED
    BY <1>9, <2>1, <2>2, FailMissingEffect, ThreadFacts, CoreFacts, BodyCore
    DEF FailMissing, Loops, Turns, Becomes, InBody
<1>10. CASE StageFails(w)
  <2>1. InBody(worker'[w], Recorded) /\ worker'[w].at # "record"
    BY <1>10, StageFailsEffect, ThreadFacts
    DEF StageFails, InTry, Moves, Becomes, InBody, SubmitAt, StageAt, LoadAt, LoopAt, Rest
  <2> QED
    BY <1>10, <2>1, StageFailsEffect, ThreadFacts, CoreFacts, BodyCore
    DEF StageFails, InTry, Moves, Becomes, InBody
<1>11. CASE ReadUnstaged(w)
  <2>1. InBody(worker'[w], Recorded) /\ worker'[w].at # "record"
    BY <1>11, ReadUnstagedEffect, ThreadFacts
    DEF ReadUnstaged, Turns, Becomes, InBody, SubmitAt, StageAt, LoadAt, LoopAt, Rest
  <2> QED
    BY <1>11, <2>1, ReadUnstagedEffect, ThreadFacts, CoreFacts, BodyCore
    DEF ReadUnstaged, Turns, Becomes, InBody
<1>12. CASE FailUnstaged(w)
  <2>0. worker[w].at = "fail"
    BY <1>12 DEF FailUnstaged
  <2>1. InBody(worker'[w], Recorded) /\ worker'[w].at # "record"
    BY <1>12, <2>0, FailUnstagedEffect, ThreadFacts
    DEF Loops, Turns, Becomes, InBody, SubmitAt, StageAt, LoadAt, LoopAt, Rest
  <2>2. row' \in [Rows -> Manifest] /\ \A m \in Rows : row'[m].job \in Recorded \cup {0}
    BY <1>12, FailUnstagedEffect, CoreFacts DEF RowIs
  <2> QED
    BY <1>12, <2>1, <2>2, FailUnstagedEffect, ThreadFacts, CoreFacts, BodyCore
    DEF FailUnstaged, Loops, Turns, Becomes, InBody
<1>13. CASE ReadLoadable(w)
  <2>1. InBody(worker'[w], Recorded) /\ worker'[w].at # "record"
    BY <1>13, ReadLoadableEffect, ThreadFacts, Outcomes
    DEF ReadLoadable, Turns, Becomes, InBody, SubmitAt, StageAt, LoadAt, LoopAt, Rest, Outcome
  <2> QED
    BY <1>13, <2>1, ReadLoadableEffect, ThreadFacts, CoreFacts, BodyCore
    DEF ReadLoadable, Turns, Becomes, InBody
<1>14. CASE EnqueueLoad(w)
  <2>1. InBody(worker'[w], Recorded) /\ worker'[w].at # "record"
    BY <1>14, EnqueueLoadEffect, ThreadFacts, Outcomes
    DEF EnqueueLoad, Moves, Becomes, InBody, SubmitAt, StageAt, LoadAt, LoopAt, Rest, Outcome
  <2>2. /\ task' \in [Tasks -> TaskStatus]
        /\ \A i \in Exports : task'[Stage(i)] # "absent" \/ task'[Load(i)] # "absent"
                                  => i \in Recorded
    BY <1>14, EnqueueLoadEffect, CoreFacts, TaskFacts DEF Armed
  <2> QED
    BY <1>14, <2>1, <2>2, EnqueueLoadEffect, ThreadFacts, CoreFacts, BodyCore
    DEF EnqueueLoad, Moves, Becomes, InBody
<1>15. CASE FailUnqueued(w)
  <2>0. worker[w].at = "no_load"
    BY <1>15 DEF FailUnqueued
  <2>1. InBody(worker'[w], Recorded) /\ worker'[w].at # "record"
    BY ZenonT(60), <1>15, <2>0, FailUnqueuedEffect, ThreadFacts
    DEF Loops, Turns, Becomes, InBody, SubmitAt, StageAt, LoadAt, LoopAt, Rest
  <2>2. row' \in [Rows -> Manifest] /\ \A m \in Rows : row'[m].job \in Recorded \cup {0}
    BY <1>15, FailUnqueuedEffect, CoreFacts DEF RowIs
  <2> QED
    BY <1>15, <2>1, <2>2, FailUnqueuedEffect, ThreadFacts, CoreFacts, BodyCore
    DEF FailUnqueued, Loops, Turns, Becomes, InBody
<1> QED
  BY <1>1, <1>2, <1>3, <1>4, <1>5, <1>6, <1>7, <1>8, <1>9, <1>10, <1>11, <1>12, <1>13, <1>14, <1>15

LEMMA LoadCore ==
    ASSUME Core, NEW w \in Workers,
           ListLoadable(w) \/ LoadRow(w) \/ LoadRowFails(w) \/ CatchLoad(w) \/
           StampRefused(w)
    PROVE  Core'
<1>1. CASE ListLoadable(w)
  <2>1. InBody(worker'[w], Recorded) /\ worker'[w].at # "record"
    BY SMTT(60), <1>1, ListLoadableEffect, ThreadFacts
    DEF ListLoadable, Moves, Turns, Becomes, InBody, SubmitAt, StageAt, LoadAt, LoopAt, Rest
  <2> QED
    BY <1>1, <2>1, ListLoadableEffect, ThreadFacts, CoreFacts, BodyCore
    DEF ListLoadable, Moves, Turns, Becomes, InBody
<1>2. CASE LoadRow(w)
  <2>3. /\ worker[w].at \in LoadAt /\ worker'[w].task = worker[w].task
        /\ worker'[w].job = worker[w].job /\ worker'[w].todo = Rest(w)
        /\ worker'[w].at \in {"load", "succeeded", "failed"}
        /\ worker'[w].at = "load" => Rest(w) # {}
    BY <1>2, LoadRowEffect, Outcomes, ThreadFacts DEF LoadRow, Loops, Turns, Becomes, LoadAt, Ended
  <2>1. InBody(worker'[w], Recorded) /\ worker'[w].at # "record"
    BY <2>3, ThreadFacts DEF InBody, SubmitAt, StageAt, LoadAt, LoopAt
  <2>2. row' \in [Rows -> Manifest] /\ \A m \in Rows : row'[m].job \in Recorded \cup {0}
    BY <1>2, LoadRowEffect, CoreFacts DEF RowIs
  <2> QED
    BY <1>2, <2>1, <2>2, LoadRowEffect, ThreadFacts, CoreFacts, BodyCore
    DEF LoadRow, Loops, Turns, Becomes, InBody
<1>3. CASE LoadRowFails(w)
  <2>1. InBody(worker'[w], Recorded) /\ worker'[w].at # "record"
    BY <1>3, LoadRowFailsEffect, ThreadFacts
    DEF LoadRowFails, Moves, Becomes, InBody, SubmitAt, StageAt, LoadAt, LoopAt, Rest
  <2> QED
    BY <1>3, <2>1, LoadRowFailsEffect, ThreadFacts, CoreFacts, BodyCore
    DEF LoadRowFails, Moves, Becomes, InBody
<1>4. CASE CatchLoad(w)
  <2>1. InBody(worker'[w], Recorded) /\ worker'[w].at # "record"
    BY <1>4, CatchLoadEffect, ThreadFacts
    DEF CatchLoad, Moves, Becomes, InBody, SubmitAt, StageAt, LoadAt, LoopAt, Rest
  <2>2. row' \in [Rows -> Manifest] /\ \A m \in Rows : row'[m].job \in Recorded \cup {0}
    BY SMTT(60), <1>4, CatchLoadEffect, CoreFacts DEF RowIs
  <2> QED
    BY <1>4, <2>1, <2>2, CatchLoadEffect, ThreadFacts, CoreFacts, BodyCore
    DEF CatchLoad, Moves, Becomes, InBody
<1>5. CASE StampRefused(w)
  <2>3. /\ worker[w].at \in LoadAt /\ worker'[w].task = worker[w].task
        /\ worker'[w].job = worker[w].job /\ worker'[w].todo = Rest(w)
        /\ worker'[w].at \in {"load", "succeeded", "failed"}
        /\ worker'[w].at = "load" => Rest(w) # {}
    <3>1. worker[w].at \in LoadAt
      BY <1>5 DEF StampRefused, LoadAt
    <3> QED
      BY <1>5, <3>1, StampRefusedEffect DEF Becomes
  <2>1. InBody(worker'[w], Recorded) /\ worker'[w].at # "record"
    BY <2>3, ThreadFacts DEF InBody, SubmitAt, StageAt, LoadAt, LoopAt
  <2>2. row' \in [Rows -> Manifest] /\ \A m \in Rows : row'[m].job \in Recorded \cup {0}
    BY <1>5, StampRefusedEffect, CoreFacts DEF RowIs
  <2> QED
    BY <1>5, <2>1, <2>2, StampRefusedEffect, ThreadFacts, CoreFacts, BodyCore
    DEF StampRefused, Becomes, InBody
<1> QED
  BY <1>1, <1>2, <1>3, <1>4, <1>5

LEMMA AskCore ==
    ASSUME Core, NEW w \in Workers, AskExport(w) \/ RecordExport(w)
    PROVE  Core'
<1>. DEFINE At == {v \in Workers : worker[v].at = "record"}
<1>1. worker[w].at \in {"ask", "record"} /\ worker[w].at # "idle" /\ w \in Workers
  BY DEF AskExport, RecordExport
<1>2. IsFiniteSet(At) /\ Cardinality(At) \in Nat
  <2>1. At \in SUBSET Workers
    OBVIOUS
  <2>. HIDE DEF At
  <2> QED
    BY <2>1, ConstantFacts, FS_Subset, FS_CardinalityType
<1>3. Len(exports) + Cardinality(At) = Accepted /\ Accepted <= MaxExports
  BY DEF Core, Counted, Accepted
<1>4. Len(exports) \in Nat /\ MaxExports \in Nat
  BY ConstantFacts, RecordedFacts DEF Core
<1>5. CASE AskExport(w) /\ worker'[w].at # "record"
  <2>1. InBody(worker'[w], Recorded) /\ worker'[w].at # "record"
    BY <1>5, AskExportEffect, ThreadFacts
    DEF AskExport, Moves, Becomes, InBody, SubmitAt, StageAt, LoadAt, LoopAt
  <2> QED
    BY <1>5, <2>1, AskExportEffect, CoreFacts, BodyCore DEF AskExport, Moves, Becomes
<1>6. CASE AskExport(w) /\ worker'[w].at = "record"
  <2>1. Accepted < MaxExports /\ Moves(w, "record")
    BY <1>6, AskExportEffect DEF Moves, Becomes
  <2>2. InBody(worker'[w], Recorded)
    BY <1>6, <2>1, ThreadFacts
    DEF AskExport, Moves, Becomes, InBody, SubmitAt, StageAt, LoadAt, LoopAt
  <2>3. Typed'
    BY <1>6, <2>1 DEF Moves, Becomes, AskExport, Core, Typed
  <2>4. Recorded' = Recorded /\ exports' = exports
    BY <1>6 DEF Recorded, AskExport
  <2>5. Placed'
    BY <2>1, <2>2, <2>4 DEF Core, Placed, Moves, Becomes
  <2>6. Keyed'
    BY <1>6, <2>4 DEF Core, Keyed, AskExport
  <2>7. Fresh'
    BY <1>1, <1>6, IdleFacts DEF Core, Fresh, AskExport
  <2>8. At' = At \cup {w}
    BY <2>1 DEF Moves, Becomes
  <2>. HIDE DEF At
  <2>9. Cardinality(At') <= Cardinality(At) + 1 /\ Cardinality(At') \in Nat
    <3>1. IsFiniteSet(At \cup {w})
          /\ Cardinality(At \cup {w}) = IF w \in At THEN Cardinality(At) ELSE Cardinality(At) + 1
      BY <1>2, FS_AddElement
    <3>2. Cardinality(At \cup {w}) \in Nat
      BY <3>1, FS_CardinalityType
    <3> QED
      BY <1>2, <2>8, <3>1, <3>2
  <2>10. Len(exports') + Cardinality(At') <= MaxExports
    BY <1>2, <1>3, <1>4, <2>1, <2>4, <2>9
  <2>11. Counted'
    BY <2>10 DEF At, Counted, Accepted
  <2> QED
    BY <2>3, <2>5, <2>6, <2>7, <2>11 DEF Core
<1>7. CASE RecordExport(w)
  <2>1. /\ exports' \in Seq({"RUNNING", "FINISHED", "FAILED"})
        /\ Len(exports') = Len(exports) + 1 /\ Recorded' = Recorded \cup {Len(exports) + 1}
        /\ Becomes(w, "stamp", worker[w].rows, worker[w].todo, worker[w].bad, Len(exports) + 1)
    BY <1>7, RecordExportEffect
  <2>2. InBody(worker'[w], Recorded')
    BY <1>7, <2>1, ThreadFacts
    DEF RecordExport, Becomes, InBody, SubmitAt, StageAt, LoadAt, LoopAt
  <2>3. Typed'
    BY <1>7, <2>1 DEF Becomes, RecordExport, Core, Typed
  <2>4. \A t : InBody(t, Recorded) => InBody(t, Recorded')
    BY <2>1 DEF InBody
  <2>5. Placed'
    BY <2>1, <2>2, <2>4 DEF Core, Placed, Becomes
  <2>6. Keyed'
    BY <1>7, <2>1 DEF Core, Keyed, RecordExport
  <2>7. Fresh'
    BY <1>1, <1>7, IdleFacts DEF Core, Fresh, RecordExport
  <2>8. At' = At \ {w} /\ w \in At
    BY <1>7, <2>1 DEF Becomes, RecordExport
  <2>. HIDE DEF At
  <2>9. Cardinality(At') = Cardinality(At) - 1
    BY <1>2, <2>8, FS_RemoveElement
  <2>10. Len(exports') + Cardinality(At') <= MaxExports
    BY <1>2, <1>3, <1>4, <2>1, <2>9
  <2>11. Counted'
    BY <2>10 DEF At, Counted, Accepted
  <2> QED
    BY <2>3, <2>5, <2>6, <2>7, <2>11 DEF Core
<1> QED
  BY <1>5, <1>6, <1>7

\* What is not a step of a body leaves every thread where it is, takes one from
\* idle, or lets one go.
Settled(v) == \/ worker'[v] = worker[v]
              \/ worker'[v].at # "record" /\ InBody(worker'[v], Recorded)

LEMMA OtherCore ==
    ASSUME Core, worker' \in [Workers -> Thread], Typed',
           \A v \in Workers : Settled(v),
           Len(exports') = Len(exports), Keyed', Fresh'
    PROVE  Core'
<1>. DEFINE At == {v \in Workers : worker[v].at = "record"}
<1>1. Recorded' = Recorded
  BY DEF Recorded, Core, Typed
<1>2. Placed'
  BY <1>1 DEF Core, Placed, Settled
<1>3. At \in SUBSET Workers /\ At' \in SUBSET At
  BY DEF Settled
<1>4. Len(exports) + Cardinality(At) <= MaxExports
  BY DEF Core, Counted, Accepted
<1>5. Len(exports) \in Nat /\ MaxExports \in Nat
  BY ConstantFacts, RecordedFacts DEF Core
<1>. HIDE DEF At
<1>6. IsFiniteSet(At)
  BY <1>3, ConstantFacts, FS_Subset
<1>7. Cardinality(At') <= Cardinality(At) /\ IsFiniteSet(At')
  BY <1>3, <1>6, FS_Subset
<1>8. Cardinality(At') \in Nat /\ Cardinality(At) \in Nat
  BY <1>6, <1>7, FS_CardinalityType
<1>9. Len(exports') + Cardinality(At') <= MaxExports
  BY <1>4, <1>5, <1>7, <1>8
<1>10. Counted'
  BY <1>9 DEF At, Counted, Accepted
<1> QED
  BY <1>2, <1>10 DEF Core

-----------------------------------------------------------------------------
(* The work queue, the poller and the analysts *)

\* Thread w takes job t, or lets go of its own.
Taken(w, t) ==
    /\ worker' \in [Workers -> Thread] /\ \A v \in Workers \ {w} : worker'[v] = worker[v]
    /\ worker'[w].task = t /\ worker'[w].job = t[2] /\ worker'[w].at = FirstStep(t)
    /\ worker'[w].rows = {} /\ worker'[w].todo = {} /\ worker'[w].bad = {}
Freed(w) ==
    /\ worker' \in [Workers -> Thread] /\ \A v \in Workers \ {w} : worker'[v] = worker[v]
    /\ worker'[w] = Idle

\* One job changes its status.
TaskIs(t, st) ==
    /\ task' \in [Tasks -> TaskStatus]
    /\ \A x \in Tasks \ {t} : task'[x] = task[x]
    /\ task'[t] = st

LEMMA TaskSets ==
    ASSUME Core, NEW t \in Tasks, NEW st \in TaskStatus, task' = [task EXCEPT ![t] = st]
    PROVE  TaskIs(t, st)
BY DEF Core, Typed, TaskIs

LEMMA Frees ==
    ASSUME Core, NEW w \in Workers, worker' = [worker EXCEPT ![w] = Idle]
    PROVE  Freed(w)
BY IdleFacts DEF Core, Typed, Freed

LEMMA ClaimEffect ==
    ASSUME Core, NEW w \in Workers, NEW t \in Tasks, Claim(w, t)
    PROVE  /\ worker[w] = Idle /\ task[t] = "pending" /\ TaskIs(t, "running") /\ Taken(w, t)
           /\ InBody(worker'[w], Recorded) /\ worker'[w].at \in {"select", "stage", "list"}
           /\ form # "enqueue"
<1>1. task[t] = "pending" /\ task' = [task EXCEPT ![t] = "running"]
  BY DEF Claim
<1>2. TaskIs(t, "running")
  BY <1>1, TaskSets DEF TaskStatus
<1>. DEFINE p == FirstStep(t)
            n == t[2]
<1>3. /\ p \in {"select", "stage", "list"} /\ p \in WorkerAt
      /\ n \in Exports \cup {0}
      /\ t = Submit => p = "select"
      /\ t # Submit => n \in Recorded /\ \/ p = "stage" /\ t = Stage(n)
                                         \/ p = "list" /\ t = Load(n)
  BY <1>1, TaskFacts, FirstSteps, CoreFacts DEF WorkerAt
<1>4. worker' = [worker EXCEPT ![w] = [Idle EXCEPT !.at = p, !.task = t, !.job = n]]
  BY DEF Claim
<1>. HIDE DEF p, n
<1>. DEFINE r == [Idle EXCEPT !.at = p, !.task = t, !.job = n]
<1>5. /\ r \in Thread /\ r.at = p /\ r.task = t /\ r.job = n /\ r.rows = {} /\ r.todo = {}
      /\ r.bad = {}
  BY <1>3 DEF Idle, Thread
<1>. HIDE DEF r
<1>6. /\ worker' \in [Workers -> Thread] /\ \A v \in Workers \ {w} : worker'[v] = worker[v]
      /\ worker'[w] = r
  BY <1>4, <1>5, ThreadFacts DEF r
<1>7. Taken(w, t)
  BY <1>5, <1>6 DEF Taken, p, n
<1>8. InBody(worker'[w], Recorded) /\ worker'[w].at \in {"select", "stage", "list"}
  BY <1>3, <1>5, <1>6, TaskFacts DEF InBody, SubmitAt, StageAt, LoadAt, LoopAt
<1>9. form # "enqueue"
  BY <1>1 DEF Core, Fresh
<1> QED
  BY <1>1, <1>2, <1>7, <1>8, <1>9 DEF Claim

LEMMA CompleteEffect ==
    ASSUME Core, NEW w \in Workers, Complete(w)
    PROVE  /\ worker[w].task \in Tasks /\ worker[w].at \in Outcome /\ Freed(w)
           /\ TaskIs(worker[w].task, IF task[worker[w].task] = "running" THEN worker[w].at
                                     ELSE task[worker[w].task])
<1>1. worker[w].at \in Outcome /\ worker[w].task \in Tasks
  BY ThreadFacts DEF Complete, InBody, Outcome
<1>. DEFINE t  == worker[w].task
            st == IF task[t] = "running" THEN worker[w].at ELSE task[t]
<1>2. st \in TaskStatus /\ task' = [task EXCEPT ![t] = st]
  BY <1>1, CoreFacts DEF Complete, Outcome, TaskStatus
<1>. HIDE DEF t, st
<1>3. TaskIs(t, st)
  BY <1>1, <1>2, TaskSets DEF t
<1>4. Freed(w)
  BY Frees DEF Complete
<1> QED
  BY <1>1, <1>3, <1>4 DEF t, st

LEMMA SpendFacts ==
    ASSUME Core, NEW what \in {"requests", "crashes", "stalls"}, Spend(what)
    PROVE  /\ spent' \in [requests : Nat, crashes : Nat, stalls : Nat]
           /\ spent'[what] = spent[what] + 1
           /\ \A x \in {"requests", "crashes", "stalls"} \ {what} : spent'[x] = spent[x]
BY DEF Core, Typed, Spend

LEMMA FreedFacts ==
    ASSUME NEW w \in Workers, Freed(w)
    PROVE  worker' \in [Workers -> Thread] /\ \A v \in Workers : Settled(v)
<1>1. InBody(Idle, Recorded) /\ Idle.at # "record"
  BY IdleFacts DEF InBody, SubmitAt, StageAt, LoadAt, LoopAt
<1> QED
  BY <1>1 DEF Freed, Settled

LEMMA QueueCore ==
    ASSUME Core, NEW w \in Workers, NEW t \in Tasks,
           Claim(w, t) \/ Complete(w) \/ Crash(w) \/ Raises(w) \/ StampLost(w)
    PROVE  Core'
<1>. USE DEF Recorded
<1>1. CASE Claim(w, t)
  <2>1. UNCHANGED <<held, row, elt, loads, exports, request, form, spent>>
    BY <1>1 DEF Claim
  <2>2. Typed'
    BY <1>1, <2>1, ClaimEffect DEF Core, Typed, Taken, TaskIs
  <2>3. Keyed'
    BY <1>1, <2>1, ClaimEffect, TaskFacts DEF Core, Keyed, TaskIs
  <2>4. Fresh'
    BY <1>1, <2>1, ClaimEffect DEF Fresh
  <2>5. worker' \in [Workers -> Thread] /\ \A v \in Workers \ {w} : worker'[v] = worker[v]
    BY <1>1, ClaimEffect DEF Taken
  <2>6. worker'[w].at # "record" /\ InBody(worker'[w], Recorded)
    BY <1>1, ClaimEffect
  <2> QED
    BY <2>1, <2>2, <2>3, <2>4, <2>5, <2>6, OtherCore DEF Settled
<1>2. Freed(w) => worker' \in [Workers -> Thread] /\ \A v \in Workers : Settled(v)
  BY FreedFacts
<1>3. CASE Complete(w)
  <2>1. UNCHANGED <<held, row, elt, loads, exports, request, form, spent>>
    BY <1>3 DEF Complete
  <2>2. Typed'
    BY <1>3, <2>1, CompleteEffect DEF Core, Typed, Freed, TaskIs
  <2>3. Keyed'
    BY <1>3, <2>1, CompleteEffect, TaskFacts DEF Core, Keyed, TaskIs
  <2>4. Fresh'
    BY <1>3, <2>1, CompleteEffect, IdleFacts DEF Core, Fresh, Outcome
  <2> QED
    BY <1>2, <1>3, <2>1, <2>2, <2>3, <2>4, CompleteEffect, OtherCore
<1>4. CASE Crash(w)
  <2>1. /\ UNCHANGED <<held, row, elt, loads, exports, task, request, form>>
        /\ worker[w] # Idle /\ Spend("crashes") /\ Freed(w)
    BY <1>4, Frees DEF Crash
  <2>2. Typed'
    BY <2>1, SpendFacts DEF Core, Typed, Freed
  <2>3. Keyed'
    BY <2>1 DEF Core, Keyed
  <2>4. Fresh'
    BY <2>1 DEF Core, Fresh
  <2> QED
    BY <1>2, <2>1, <2>2, <2>3, <2>4, OtherCore
<1>5. CASE Raises(w) \/ StampLost(w)
  <2>1. /\ UNCHANGED <<held, row, elt, loads, exports, task, request, form>>
        /\ worker[w] # Idle /\ Spend("crashes") /\ worker' \in [Workers -> Thread]
        /\ \A v \in Workers : Settled(v)
    BY <1>5, DropEffect DEF Settled
  <2>2. Typed'
    BY <2>1, SpendFacts DEF Core, Typed
  <2>3. Keyed'
    BY <2>1 DEF Core, Keyed
  <2>4. Fresh'
    BY <2>1 DEF Core, Fresh
  <2> QED
    BY <2>1, <2>2, <2>3, <2>4, OtherCore
<1> QED
  BY <1>1, <1>3, <1>4, <1>5

LEMMA RequeueCore ==
    ASSUME Core, NEW t \in Tasks, Reclaim(t) \/ Resubmit(t)
    PROVE  Core'
<1>. USE DEF Recorded
<1>1. CASE Reclaim(t)
  <2>1. /\ UNCHANGED <<held, row, elt, loads, exports, worker, request, form>>
        /\ task[t] = "running" /\ TaskIs(t, "pending")
        /\ Spend("stalls") \/ UNCHANGED spent
    BY <1>1, TaskSets DEF Reclaim, TaskStatus
  <2>2. Typed'
    BY <2>1, SpendFacts DEF Core, Typed, TaskIs
  <2>3. Keyed'
    BY <2>1, TaskFacts DEF Core, Keyed, TaskIs
  <2>4. Fresh'
    BY <2>1 DEF Core, Fresh
  <2> QED
    BY <2>1, <2>2, <2>3, <2>4, OtherCore DEF Core, Typed, Settled
<1>2. CASE Resubmit(t)
  <2>1. /\ UNCHANGED <<held, row, elt, loads, exports, worker, request, form>>
        /\ task[t] # "absent" /\ TaskIs(t, "pending") /\ Spend("requests")
    BY <1>2, TaskSets DEF Resubmit, TaskStatus
  <2>2. Typed'
    BY <2>1, SpendFacts DEF Core, Typed, TaskIs
  <2>3. Keyed'
    BY <2>1, TaskFacts DEF Core, Keyed, TaskIs
  <2>4. Fresh'
    BY <2>1 DEF Core, Fresh
  <2> QED
    BY <2>1, <2>2, <2>3, <2>4, OtherCore DEF Core, Typed, Settled
<1> QED
  BY <1>1, <1>2

LEMMA FormCore ==
    ASSUME Core, EnqueueSubmit \/ EnqueueFails \/ FormDies
    PROVE  Core'
<1>. USE DEF Recorded
<1>1. CASE EnqueueSubmit
  <2>1. /\ UNCHANGED <<held, row, elt, loads, exports, worker, request, spent>>
        /\ form' = "done" /\ TaskIs(Submit, "pending")
    BY <1>1, TaskSets, TaskFacts DEF EnqueueSubmit, TaskStatus
  <2>2. Typed'
    BY <2>1 DEF Core, Typed, TaskIs
  <2>3. Keyed' /\ Fresh'
    BY <2>1, TaskFacts DEF Core, Keyed, Fresh, TaskIs
  <2> QED
    BY <2>1, <2>2, <2>3, OtherCore DEF Typed, Settled
<1>2. CASE EnqueueFails
  <2>1. /\ UNCHANGED <<held, elt, loads, exports, task, worker, request, spent>>
        /\ form' = "done" /\ row' = [m \in Rows |-> [row[m] EXCEPT !.stage = "failed"]]
    BY <1>2 DEF EnqueueFails
  <2>2. row' \in [Rows -> Manifest] /\ \A m \in Rows : row'[m].job = row[m].job
    BY ZenonT(60), <2>1, CoreFacts DEF Manifest
  <2>3. Typed'
    BY <2>1, <2>2 DEF Core, Typed
  <2>4. Keyed' /\ Fresh'
    BY <2>1, <2>2 DEF Core, Keyed, Fresh
  <2> QED
    BY <2>1, <2>3, <2>4, OtherCore DEF Typed, Settled
<1>3. CASE FormDies
  <2>1. /\ UNCHANGED <<held, row, elt, loads, exports, task, worker, request>>
        /\ form' = "died" /\ Spend("crashes")
    BY <1>3 DEF FormDies
  <2>2. Typed'
    BY <2>1, SpendFacts DEF Core, Typed
  <2>3. Keyed' /\ Fresh'
    BY <2>1 DEF Core, Keyed, Fresh
  <2> QED
    BY <2>1, <2>2, <2>3, OtherCore DEF Typed, Settled
<1> QED
  BY <1>1, <1>2, <1>3

LEMMA TrackExportEffect ==
    ASSUME Core, NEW i \in Exports, NEW st \in {"FINISHED", "FAILED"}, TrackExport(i, st)
    PROVE  /\ UNCHANGED <<held, row, elt, loads, worker, request, form, spent>>
           /\ i \in Recorded /\ Len(exports') = Len(exports) /\ Recorded' = Recorded
           /\ exports' \in Seq({"RUNNING", "FINISHED", "FAILED"})
           /\ \A j \in Recorded \ {i} : exports'[j] = exports[j]
           /\ TaskIs(Stage(i), IF task[Stage(i)] = "absent" THEN "pending" ELSE task[Stage(i)])
<1>1. /\ UNCHANGED <<held, row, elt, loads, worker, request, form, spent>>
      /\ i \in Recorded
  BY DEF TrackExport, Running, Recorded
<1>2. exports \in Seq({"RUNNING", "FINISHED", "FAILED"}) /\ exports' = [exports EXCEPT ![i] = st]
  BY DEF Core, Typed, TrackExport
<1>3. /\ Len(exports') = Len(exports) /\ DOMAIN exports' = DOMAIN exports
      /\ exports' \in Seq({"RUNNING", "FINISHED", "FAILED"})
      /\ \A j \in DOMAIN exports \ {i} : exports'[j] = exports[j]
  BY <1>1, <1>2 DEF Recorded
<1>. DEFINE x == IF task[Stage(i)] = "absent" THEN "pending" ELSE task[Stage(i)]
<1>4. Stage(i) \in Tasks /\ x \in TaskStatus
  BY TaskFacts, CoreFacts DEF TaskStatus
<1>5. task' = [task EXCEPT ![Stage(i)] = x]
  BY <1>4, CoreFacts DEF TrackExport
<1>. HIDE DEF x
<1>6. TaskIs(Stage(i), x)
  BY <1>4, <1>5, TaskSets
<1> QED
  BY <1>1, <1>3, <1>6 DEF Recorded, x

LEMMA TrackCore ==
    ASSUME Core, NEW i \in Exports, NEW st \in {"FINISHED", "FAILED"}, TrackExport(i, st)
    PROVE  Core'
<1>1. Typed'
  BY TrackExportEffect DEF Core, Typed, TaskIs
<1>2. Keyed'
  BY TrackExportEffect, TaskFacts DEF Core, Keyed, TaskIs
<1>3. form # "enqueue"
  <2>1. i \in Recorded
    BY TrackExportEffect
  <2> QED
    BY <2>1 DEF Core, Fresh, Recorded
<1>4. Fresh'
  BY <1>3, TrackExportEffect DEF Fresh
<1> QED
  BY <1>1, <1>2, <1>4, TrackExportEffect, OtherCore DEF Core, Typed, Settled

\* One request moves on.
Asks(a) ==
    /\ request' \in [Analysts -> Asked]
    /\ \A b \in Analysts \ {a} : request'[b] = request[b]

LEMMA AskCloseEffect ==
    ASSUME Core, NEW a \in Analysts, NEW m \in Rows, AskClose(a, m)
    PROVE  /\ Asks(a) /\ request[a] = Unasked
           /\ request'[a].at = "close" /\ request'[a].row = m /\ request'[a].branch = "none"
           /\ Spend("requests")
           /\ UNCHANGED <<held, row, elt, loads, exports, task, worker, form>>
<1>. DEFINE r == [Unasked EXCEPT !.at = "close", !.row = m]
<1>1. r \in Asked /\ r.at = "close" /\ r.row = m /\ r.branch = "none"
  BY DEF Unasked, Asked, RequestAt, Branch
<1>2. request' = [request EXCEPT ![a] = r] /\ request \in [Analysts -> Asked]
  BY DEF AskClose, Core, Typed
<1>. HIDE DEF r
<1>3. Asks(a) /\ request'[a] = r
  BY <1>1, <1>2 DEF Asks
<1> QED
  BY <1>1, <1>3 DEF AskClose

LEMMA AskRetryEffect ==
    ASSUME Core, NEW a \in Analysts, NEW m \in Rows, AskRetry(a, m)
    PROVE  /\ Asks(a) /\ request[a] = Unasked
           /\ request'[a].at = "reset" /\ request'[a].row = m /\ request'[a].branch # "none"
           /\ request'[a].branch \in {"load", "stage"} => request'[a].job \in Recorded
           /\ Spend("requests")
           /\ UNCHANGED <<held, row, elt, loads, exports, task, worker, form>>
<1>1. row[m].job \in Recorded \cup {0} /\ row[m].job \in Exports \cup {0}
  BY CoreFacts DEF Manifest
<1>2. PICK b \in Decisions(m) :
         /\ b = "load" => row[m].job # 0
         /\ request' = [request EXCEPT ![a] = [at |-> "reset", row |-> m, branch |-> b,
                                               job |-> row[m].job]]
  BY DEF AskRetry
<1>3. b \in {"load", "stage", "submit"} /\ (b \in {"load", "stage"} => row[m].job \in Recorded)
  BY <1>1, <1>2 DEF Decisions
<1>. DEFINE r == [at |-> "reset", row |-> m, branch |-> b, job |-> row[m].job]
<1>4. r \in Asked /\ r.at = "reset" /\ r.row = m /\ r.branch = b /\ r.job = row[m].job
  BY <1>1, <1>3 DEF Asked, RequestAt, Branch
<1>5. request' = [request EXCEPT ![a] = r] /\ request \in [Analysts -> Asked]
  BY <1>2 DEF Core, Typed
<1>. HIDE DEF r
<1>6. Asks(a) /\ request'[a] = r
  BY <1>4, <1>5 DEF Asks
<1> QED
  BY <1>3, <1>4, <1>6 DEF AskRetry

\* A request that is over, or one that has to arm a job yet.
LEMMA RequestEnds ==
    ASSUME Core, NEW a \in Analysts, request' = [request EXCEPT ![a] = Unasked]
    PROVE  Asks(a) /\ request'[a] = Unasked
BY IdleFacts DEF Core, Typed, Asks

LEMMA CloseRowEffect ==
    ASSUME Core, NEW a \in Analysts, CloseRow(a)
    PROVE  /\ Asks(a) /\ request'[a] = Unasked /\ request[a].at = "close"
           /\ row' \in [Rows -> Manifest]
           /\ \A m \in Rows : /\ row'[m].stage = row[m].stage /\ row'[m].load = row[m].load
                              /\ row'[m].job = row[m].job
           /\ UNCHANGED <<held, elt, loads, exports, task, worker, form, spent>>
<1>1. request[a].at = "close" /\ request[a].row \in Rows /\ row \in [Rows -> Manifest]
  BY DEF CloseRow, Core, Keyed, Typed
<1>2. row' = [row EXCEPT ![request[a].row].closed = TRUE]
  BY DEF CloseRow
<1>3. /\ row' \in [Rows -> Manifest]
      /\ \A m \in Rows : /\ row'[m].stage = row[m].stage /\ row'[m].load = row[m].load
                         /\ row'[m].job = row[m].job
  BY <1>1, <1>2 DEF Manifest
<1> QED
  BY <1>1, <1>3, RequestEnds DEF CloseRow

LEMMA ResetRowEffect ==
    ASSUME Core, NEW a \in Analysts, ResetRow(a)
    PROVE  /\ Asks(a) /\ request'[a].at = "ensure" /\ request[a].at = "reset"
           /\ request'[a].row = request[a].row /\ request'[a].branch = request[a].branch
           /\ request'[a].job = request[a].job /\ request[a].row \in Rows
           /\ \/ RowIs(request[a].row, row[request[a].row].stage, "pending", row[request[a].row].job)
              \/ RowIs(request[a].row, "pending", row[request[a].row].load, row[request[a].row].job)
              \/ RowIs(request[a].row, "pending", row[request[a].row].load, 0)
           /\ UNCHANGED <<held, elt, loads, exports, task, worker, form, spent>>
<1>1. /\ request[a].at = "reset" /\ request[a].row \in Rows /\ row \in [Rows -> Manifest]
      /\ request[a].branch \in {"load", "stage", "submit"} /\ request[a] \in Asked
      /\ request \in [Analysts -> Asked]
  BY DEF ResetRow, Core, Keyed, Typed, Asked, Branch
<1>2. /\ Asks(a) /\ request'[a].at = "ensure"
      /\ request'[a].row = request[a].row /\ request'[a].branch = request[a].branch
      /\ request'[a].job = request[a].job
  BY <1>1 DEF ResetRow, Asks, Asked, RequestAt
<1>. DEFINE n == request[a].row
<1>3. CASE request[a].branch = "load"
  <2>1. row' = [row EXCEPT ![n].load = "pending"]
    BY <1>1, <1>3 DEF ResetRow
  <2>2. RowIs(n, row[n].stage, "pending", row[n].job)
    BY <1>1, <2>1, LoadStamps
  <2> QED
    BY <1>1, <1>2, <2>2 DEF ResetRow
<1>4. CASE request[a].branch = "stage"
  <2>1. row' = [row EXCEPT ![n].stage = "pending"]
    BY <1>1, <1>4 DEF ResetRow
  <2>2. RowIs(n, "pending", row[n].load, row[n].job)
    BY <1>1, <2>1, StageStamps
  <2> QED
    BY <1>1, <1>2, <2>2 DEF ResetRow
<1>5. CASE request[a].branch = "submit"
  <2>1. row' = [row EXCEPT ![n] = [@ EXCEPT !.stage = "pending", !.job = 0]]
    BY <1>1, <1>5 DEF ResetRow
  <2>2. RowIs(n, "pending", row[n].load, 0)
    BY <1>1, <2>1 DEF RowIs, Manifest
  <2> QED
    BY <1>1, <1>2, <2>2 DEF ResetRow
<1> QED
  BY <1>1, <1>3, <1>4, <1>5

LEMMA RearmJobEffect ==
    ASSUME Core, NEW a \in Analysts, RearmJob(a)
    PROVE  /\ Asks(a) /\ request'[a] = Unasked /\ request[a].at = "ensure"
           /\ \/ Armed(Submit)
              \/ request[a].job \in Recorded /\ Armed(Load(request[a].job))
              \/ request[a].job \in Recorded /\ Armed(Stage(request[a].job))
           /\ UNCHANGED <<held, row, elt, loads, exports, worker, form, spent>>
<1>1. /\ request[a].at = "ensure" /\ request[a].branch \in {"load", "stage", "submit"}
      /\ request[a].branch \in {"load", "stage"} => request[a].job \in Recorded
  BY DEF RearmJob, Core, Keyed, Typed, Asked, Branch
<1>2. Recorded \subseteq Exports
  BY RecordedFacts DEF Core
<1>3. CASE request[a].branch = "load"
  <2>1. Rearm(Load(request[a].job)) /\ Load(request[a].job) \in Tasks
    BY <1>1, <1>2, <1>3, TaskFacts DEF RearmJob
  <2> QED
    BY <1>1, <1>3, <2>1, Rearms, RequestEnds DEF RearmJob
<1>4. CASE request[a].branch = "stage"
  <2>1. Rearm(Stage(request[a].job)) /\ Stage(request[a].job) \in Tasks
    BY <1>1, <1>2, <1>4, TaskFacts DEF RearmJob
  <2> QED
    BY <1>1, <1>4, <2>1, Rearms, RequestEnds DEF RearmJob
<1>5. CASE request[a].branch = "submit"
  <2>1. Rearm(Submit) /\ Submit \in Tasks
    BY <1>5, TaskFacts DEF RearmJob
  <2> QED
    BY <1>1, <2>1, Rearms, RequestEnds DEF RearmJob
<1> QED
  BY <1>1, <1>3, <1>4, <1>5

LEMMA RequestCore ==
    ASSUME Core, NEW a \in Analysts, Ask(a) \/ Answer(a) \/ RequestDies(a)
    PROVE  Core'
<1>1. \A v \in Workers : worker' = worker => Settled(v)
  BY DEF Settled
<1>2. ASSUME NEW m \in Rows, AskClose(a, m) \/ AskRetry(a, m) PROVE Core'
  <2>1. /\ UNCHANGED <<held, row, elt, loads, exports, task, worker, form>>
        /\ Asks(a) /\ request'[a].at # "idle" /\ request'[a].row \in Rows
        /\ request'[a].at = "reset" => request'[a].branch # "none"
        /\ request'[a].at # "ensure"
        /\ request'[a].branch \in {"load", "stage"} => request'[a].job \in Recorded
        /\ request[a] = Unasked /\ Spend("requests")
    BY <1>2, AskCloseEffect, AskRetryEffect
  <2>2. Typed'
    BY <2>1, SpendFacts DEF Core, Typed, Asks
  <2>3. Recorded' = Recorded
    BY <2>1 DEF Recorded
  <2>4. Keyed'
    BY <2>1, <2>3 DEF Core, Keyed, Asks
  <2>5. form # "enqueue"
    BY <1>2 DEF AskClose, AskRetry, Failed, Core, Fresh
  <2>6. Fresh'
    BY <2>1, <2>5 DEF Fresh
  <2> QED
    BY <1>1, <2>1, <2>2, <2>4, <2>6, OtherCore DEF Core, Typed
<1>3. ASSUME Answer(a) \/ RequestDies(a) PROVE Core'
  <2>1. /\ UNCHANGED <<held, elt, loads, exports, worker, form>> /\ Asks(a)
        /\ request'[a] = Unasked \/ /\ request'[a].at = "ensure" /\ request[a].at = "reset"
                                    /\ request'[a].row = request[a].row
                                    /\ request'[a].branch = request[a].branch
                                    /\ request'[a].job = request[a].job
        /\ spent' = spent \/ Spend("crashes")
        /\ request[a] # Unasked
    BY <1>3, CloseRowEffect, ResetRowEffect, RearmJobEffect, RequestEnds, IdleFacts
    DEF Answer, RequestDies
  <2>2. row' \in [Rows -> Manifest] /\ \A m \in Rows : row'[m].job \in Recorded \cup {0}
    BY <1>3, CloseRowEffect, ResetRowEffect, CoreFacts
    DEF Answer, RearmJob, RequestDies, RowIs
  <2>3. /\ task' \in [Tasks -> TaskStatus]
        /\ \A i \in Exports : task'[Stage(i)] # "absent" \/ task'[Load(i)] # "absent"
                                  => i \in Recorded
    <3>1. CASE RearmJob(a)
      <4>1. Recorded \subseteq Exports
        BY RecordedFacts DEF Core
      <4>2. \/ Armed(Submit)
            \/ \E j \in Recorded : Armed(Load(j)) \/ Armed(Stage(j))
        BY <3>1, RearmJobEffect
      <4> QED
        BY <4>1, <4>2, CoreFacts, TaskFacts DEF Armed
    <3>2. CASE ~ RearmJob(a)
      BY <1>3, <3>2, CoreFacts DEF Answer, CloseRow, ResetRow, RequestDies
    <3> QED
      BY <3>1, <3>2
  <2>4. Typed'
    BY <2>1, <2>2, <2>3, SpendFacts DEF Core, Typed, Asks
  <2>5. Recorded' = Recorded
    BY <2>1 DEF Recorded
  <2>6. Keyed'
    BY <2>1, <2>2, <2>3, <2>5, IdleFacts DEF Core, Keyed, Asks
  <2>7. Fresh'
    BY <2>1 DEF Core, Fresh
  <2> QED
    BY <1>1, <2>1, <2>4, <2>6, <2>7, OtherCore DEF Core, Typed
<1> QED
  BY <1>2, <1>3 DEF Ask

LEMMA CoreStep ==
    ASSUME Core, [Next]_vars
    PROVE  Core'
<1>1. CASE EnqueueSubmit \/ EnqueueFails \/ FormDies
  BY <1>1, FormCore
<1>2. ASSUME NEW w \in Workers,
             (\E t \in Tasks : Claim(w, t)) \/ SubmitStep(w) \/ StageStep(w) \/ LoadStep(w)
             \/ Complete(w) \/ Crash(w) \/ Raises(w) \/ StampLost(w)
      PROVE  Core'
  <2>1. CASE \E t \in Tasks : Claim(w, t)
    BY <2>1, QueueCore
  <2>2. CASE Complete(w) \/ Crash(w) \/ Raises(w) \/ StampLost(w)
    BY <2>2, QueueCore, TaskFacts
  <2>3. CASE SubmitStep(w)
    BY <2>3, SubmitCore, AskCore DEF SubmitStep
  <2>4. CASE StageStep(w)
    BY <2>4, StageCore DEF StageStep
  <2>5. CASE LoadStep(w)
    BY <2>5, LoadCore DEF LoadStep
  <2> QED
    BY <1>2, <2>1, <2>2, <2>3, <2>4, <2>5
<1>3. ASSUME NEW t \in Tasks, Reclaim(t) \/ Resubmit(t) PROVE Core'
  BY <1>3, RequeueCore
<1>4. ASSUME NEW i \in Exports, NEW st \in {"FINISHED", "FAILED"}, TrackExport(i, st) PROVE Core'
  BY <1>4, TrackCore
<1>5. ASSUME NEW a \in Analysts, Ask(a) \/ Answer(a) \/ RequestDies(a) PROVE Core'
  BY <1>5, RequestCore
<1>6. CASE UNCHANGED vars
  <2>1. Typed' /\ Placed' /\ Keyed' /\ Fresh' /\ Counted'
    BY <1>6 DEF vars, Core, Typed, Placed, Keyed, Fresh, Counted, Accepted, Recorded
  <2> QED
    BY <2>1 DEF Core
<1> QED
  BY <1>1, <1>2, <1>3, <1>4, <1>5, <1>6 DEF Next

LEMMA CoreInit ==
    ASSUME Init
    PROVE  Core
<1>1. \A m \in Rows : [stage |-> "pending", load |-> "pending", job |-> 0, zip |-> FALSE,
                       closed |-> FALSE] \in Manifest
  BY DEF Manifest
<1>2. Typed
  BY <1>1, IdleFacts DEF Init, Typed, Losses, NoLosses, History, TaskStatus
<1>3. exports = <<>> /\ Recorded = {} /\ Len(exports) = 0
  BY DEF Init, Recorded
<1>4. Placed
  <2>1. InBody(Idle, Recorded)
    BY IdleFacts DEF InBody, SubmitAt, StageAt, LoadAt, LoopAt
  <2> QED
    BY <2>1 DEF Init, Placed
<1>5. Keyed
  BY <1>3, IdleFacts, TaskFacts DEF Init, Keyed
<1>6. Fresh
  BY <1>3 DEF Init, Fresh
<1>7. Counted
  <2>1. {w \in Workers : worker[w].at = "record"} = {}
    BY IdleFacts DEF Init
  <2>2. Accepted = 0
    BY <1>3, <2>1, FS_EmptySet DEF Accepted
  <2> QED
    BY <2>2, ConstantFacts DEF Counted
<1> QED
  BY <1>2, <1>4, <1>5, <1>6, <1>7 DEF Core

-----------------------------------------------------------------------------
(* What a step of a body does to the rows and the jobs *)

RowMoves(w, m) ==
    /\ row'[m].closed = row[m].closed
    /\ row'[m].stage = "pending" => row[m].stage = "pending" /\ (row'[m].job = 0 => row[m].job = 0)
    /\ row'[m].stage = "staged" /\ row[m].stage # "staged" => worker[w].at = "staged"
    /\ row'[m].load = "loaded" /\ row[m].load # "loaded" =>
          worker[w].at = "load" /\ row[m].stage = "staged"
    /\ row'[m].load = "pending" => row[m].load = "pending"

\* Thread w takes a step of its body.  It queues nothing but the load of its export.
Advance(w) ==
    /\ worker' \in [Workers -> Thread] /\ \A v \in Workers \ {w} : worker'[v] = worker[v]
    /\ worker[w].at \in SubmitAt \cup StageAt \cup LoadAt
    /\ worker'[w].task = worker[w].task
    /\ UNCHANGED <<request, form, spent>>
    /\ \A m \in Rows : RowMoves(w, m)
    /\ \/ task' = task
       \/ worker[w].at = "enqueue" /\ worker[w].job \in Recorded /\ Armed(Load(worker[w].job))
    /\ loads.late => loads'.late
    /\ \/ exports' = exports
       \/ worker[w].at = "record" /\ RecordExport(w)

LEMMA RowStays ==
    ASSUME NEW w \in Workers,
           \A m \in Rows : /\ row'[m].stage = row[m].stage /\ row'[m].load = row[m].load
                           /\ row'[m].job = row[m].job /\ row'[m].closed = row[m].closed
    PROVE  \A m \in Rows : RowMoves(w, m)
BY DEF RowMoves

LEMMA SubmitAdvance ==
    ASSUME Core, NEW w \in Workers, SubmitStep(w)
    PROVE  Advance(w)
<1>0. row \in [Rows -> Manifest] /\ 0 \notin Recorded
  BY RecordedFacts, CoreFacts, ConstantFacts DEF Core
<1>1. CASE SelectRows(w)
  BY <1>1, RowStays, SelectRowsEffect DEF SelectRows, Turns, Becomes, Advance, SubmitAt
<1>2. CASE FindExport(w)
  BY <1>2, RowStays, FindExportEffect DEF FindExport, Moves, Becomes, Advance, SubmitAt
<1>3. CASE AskExport(w)
  BY <1>3, RowStays, AskExportEffect DEF AskExport, Moves, Becomes, Advance, SubmitAt
<1>4. CASE RecordExport(w)
  <2>1. worker[w].at = "record" /\ UNCHANGED <<row, loads, task, request, form, spent>>
    BY <1>4 DEF RecordExport
  <2> QED
    BY <1>4, <2>1, RowStays, RecordExportEffect DEF Becomes, Advance, SubmitAt
<1>5. CASE StampRow(w)
  <2>1. /\ worker[w].at \in {"stamp", "reject"}
        /\ UNCHANGED <<loads, exports, task, request, form, spent>>
    BY <1>5 DEF StampRow
  <2>2. \A m \in Rows : RowMoves(w, m)
    BY <1>0, <1>5, StampRowEffect DEF RowIs, RowMoves
  <2> QED
    BY <1>5, <2>1, <2>2, StampRowEffect DEF Loops, Turns, Becomes, Advance, SubmitAt
<1> QED
  BY <1>1, <1>2, <1>3, <1>4, <1>5 DEF SubmitStep

LEMMA StageAdvance ==
    ASSUME Core, NEW w \in Workers, StageStep(w)
    PROVE  Advance(w)
<1>0. row \in [Rows -> Manifest] /\ 0 \notin Recorded
  BY RecordedFacts, CoreFacts, ConstantFacts DEF Core
<1>1. CASE ReadTargets(w)
  BY <1>1, RowStays, ReadTargetsEffect DEF ReadTargets, Moves, Becomes, Advance, StageAt
<1>2. CASE Discard(w)
  BY <1>2, RowStays, DiscardEffect DEF Discard, Loops, Turns, Becomes, Advance, StageAt
<1>3. CASE FetchArchive(w)
  <2>1. worker[w].at = "check" /\ UNCHANGED <<loads, exports, task, request, form, spent>>
    BY <1>3 DEF FetchArchive
  <2> QED
    BY <1>3, <2>1, RowStays, FetchArchiveEffect DEF Turns, Becomes, Advance, StageAt
<1>4. CASE ForgetArchive(w)
  <2>1. worker[w].at = "facts" /\ UNCHANGED <<loads, exports, task, request, form, spent>>
    BY <1>4 DEF ForgetArchive
  <2> QED
    BY <1>4, <2>1, RowStays, ForgetArchiveEffect DEF Moves, Becomes, Advance, StageAt
<1>5. CASE StampFacts(w)
  <2>1. worker[w].at = "facts" /\ UNCHANGED <<loads, exports, task, request, form, spent>>
    BY <1>5 DEF StampFacts
  <2>2. \A m \in Rows : RowMoves(w, m)
    BY <1>0, <1>5, StampFactsEffect DEF RowIs, RowMoves
  <2> QED
    BY <1>5, <2>1, <2>2, StampFactsEffect DEF Turns, Becomes, Advance, StageAt
<1>6. CASE OpenFile(w)
  BY <1>6, RowStays, OpenFileEffect DEF OpenFile, Moves, Targeted, Becomes, Advance, StageAt
<1>7. CASE UploadFile(w)
  BY <1>7, RowStays, UploadFileEffect DEF UploadFile, Moves, Becomes, Advance, StageAt
<1>8. CASE MarkStaged(w)
  <2>1. worker[w].at = "staged" /\ UNCHANGED <<loads, exports, task, request, form, spent>>
    BY <1>8 DEF MarkStaged
  <2>2. \A m \in Rows : RowMoves(w, m)
    BY <1>0, <1>8, <2>1, MarkStagedEffect DEF RowIs, RowMoves
  <2> QED
    BY <1>8, <2>1, <2>2, MarkStagedEffect DEF Targeted, Becomes, Advance, StageAt
<1>9. CASE FailMissing(w)
  <2>1. worker[w].at = "missing" /\ UNCHANGED <<loads, exports, task, request, form, spent>>
    BY <1>9 DEF FailMissing
  <2>2. \A m \in Rows : RowMoves(w, m)
    BY <1>0, <1>9, FailMissingEffect DEF RowIs, RowMoves
  <2> QED
    BY <1>9, <2>1, <2>2, FailMissingEffect DEF Loops, Turns, Becomes, Advance, StageAt
<1>10. CASE StageFails(w)
  BY <1>10, RowStays, StageFailsEffect DEF StageFails, InTry, Moves, Becomes, Advance, StageAt
<1>11. CASE ReadUnstaged(w)
  BY <1>11, RowStays, ReadUnstagedEffect DEF ReadUnstaged, Turns, Becomes, Advance, StageAt
<1>12. CASE FailUnstaged(w)
  <2>1. worker[w].at = "fail" /\ UNCHANGED <<loads, exports, task, request, form, spent>>
    BY <1>12 DEF FailUnstaged
  <2>2. \A m \in Rows : RowMoves(w, m)
    BY <1>0, <1>12, FailUnstagedEffect DEF RowIs, RowMoves
  <2> QED
    BY <1>12, <2>1, <2>2, FailUnstagedEffect DEF Loops, Turns, Becomes, Advance, StageAt
<1>13. CASE ReadLoadable(w)
  BY <1>13, RowStays, ReadLoadableEffect DEF ReadLoadable, Turns, Becomes, Advance, StageAt
<1>14. CASE EnqueueLoad(w)
  <2>1. worker[w].at = "enqueue" /\ UNCHANGED <<row, exports, request, form, spent>>
    BY <1>14 DEF EnqueueLoad
  <2> QED
    BY <1>14, <2>1, RowStays, EnqueueLoadEffect DEF Moves, Becomes, Advance, StageAt
<1>15. CASE FailUnqueued(w)
  <2>1. worker[w].at = "no_load" /\ UNCHANGED <<exports, task, request, form, spent>>
    BY <1>15 DEF FailUnqueued
  <2>2. \A m \in Rows : RowMoves(w, m)
    BY <1>0, <1>15, FailUnqueuedEffect DEF RowIs, RowMoves
  <2> QED
    BY <1>15, <2>1, <2>2, FailUnqueuedEffect DEF Loops, Turns, Becomes, Advance, StageAt
<1> QED
  BY SMTT(60), <1>1, <1>2, <1>3, <1>4, <1>5, <1>6, <1>7, <1>8, <1>9, <1>10, <1>11, <1>12, <1>13, <1>14,
     <1>15 DEF StageStep

LEMMA LoadAdvance ==
    ASSUME Core, NEW w \in Workers, LoadStep(w)
    PROVE  Advance(w)
<1>0. row \in [Rows -> Manifest]
  BY CoreFacts
<1>1. CASE ListLoadable(w)
  BY <1>1, RowStays, ListLoadableEffect DEF ListLoadable, Moves, Turns, Becomes, Advance, LoadAt
<1>2. CASE LoadRow(w)
  <2>1. worker[w].at = "load" /\ UNCHANGED <<exports, task, request, form, spent>>
    BY <1>2 DEF LoadRow
  <2>2. \A m \in Rows : RowMoves(w, m)
    BY <1>0, <1>2, <2>1, LoadRowEffect DEF RowIs, RowMoves, Claimable
  <2> QED
    BY <1>2, <2>1, <2>2, LoadRowEffect DEF Loops, Turns, Becomes, Advance, LoadAt
<1>3. CASE LoadRowFails(w)
  BY <1>3, RowStays, LoadRowFailsEffect DEF LoadRowFails, Moves, Becomes, Advance, LoadAt
<1>4. CASE CatchLoad(w)
  <2>1. worker[w].at = "catch" /\ UNCHANGED <<loads, exports, task, request, form, spent>>
    BY <1>4 DEF CatchLoad
  <2>2. \A m \in Rows : RowMoves(w, m)
    BY <1>0, <1>4, CatchLoadEffect DEF RowIs, RowMoves
  <2> QED
    BY <1>4, <2>1, <2>2, CatchLoadEffect DEF Moves, Becomes, Advance, LoadAt
<1>5. CASE StampRefused(w)
  <2>1. worker[w].at = "refused" /\ UNCHANGED <<loads, exports, task, request, form, spent>>
    BY <1>5 DEF StampRefused
  <2>2. \A m \in Rows : RowMoves(w, m)
    BY <1>0, <1>5, StampRefusedEffect DEF RowIs, RowMoves
  <2> QED
    BY <1>5, <2>1, <2>2, StampRefusedEffect DEF Becomes, Advance, LoadAt
<1> QED
  BY <1>1, <1>2, <1>3, <1>4, <1>5 DEF LoadStep

-----------------------------------------------------------------------------
(* The other steps, and what no step undoes *)

\* A step of the queue, the form or the poller, or one of a thread that stops.
Housekeeping ==
    /\ worker' \in [Workers -> Thread]
    /\ UNCHANGED <<elt, loads, request>>
    /\ \A v \in Workers : \/ worker'[v] = worker[v]
                          \/ worker'[v].at \in {"idle", "select", "stage", "list",
                                               "raised", "failed", "load"}
    /\ \/ row' = row
       \/ form = "enqueue" /\ \A m \in Rows : /\ row'[m].stage = "failed"
                                              /\ row'[m].load = row[m].load
                                              /\ row'[m].closed = row[m].closed
    /\ spent' = spent \/ Spend("requests") \/ Spend("crashes") \/ Spend("stalls")
    /\ Len(exports') = Len(exports)

LEMMA QueueKeeps ==
    ASSUME Core, NEW w \in Workers,
           (\E t \in Tasks : Claim(w, t)) \/ Complete(w) \/ Crash(w) \/ Raises(w) \/ StampLost(w)
    PROVE  Housekeeping /\ exports' = exports /\ row' = row /\ form' = form
<1>1. ASSUME NEW t \in Tasks, Claim(w, t)
      PROVE  Housekeeping /\ exports' = exports /\ row' = row /\ form' = form
  BY <1>1, ClaimEffect DEF Claim, Taken, Housekeeping
<1>2. CASE Complete(w)
  BY <1>2, CompleteEffect, IdleFacts DEF Complete, Freed, Housekeeping
<1>3. CASE Crash(w)
  <2>1. Freed(w) /\ Spend("crashes") /\ UNCHANGED <<row, elt, loads, exports, request, form>>
    BY <1>3, Frees DEF Crash
  <2> QED
    BY <2>1, IdleFacts DEF Freed, Housekeeping
<1>4. CASE Raises(w) \/ StampLost(w)
  BY <1>4, DropEffect DEF Housekeeping
<1> QED
  BY <1>1, <1>2, <1>3, <1>4

LEMMA JobKeeps ==
    ASSUME Core, NEW t \in Tasks, Reclaim(t) \/ Resubmit(t)
    PROVE  Housekeeping /\ exports' = exports /\ row' = row /\ form' = form /\ worker' = worker
BY DEF Reclaim, Resubmit, Housekeeping, Core, Typed

LEMMA FormKeeps ==
    ASSUME Core, EnqueueSubmit \/ EnqueueFails \/ FormDies
    PROVE  Housekeeping /\ exports' = exports /\ worker' = worker /\ form = "enqueue"
<1>1. CASE EnqueueSubmit \/ FormDies
  BY <1>1 DEF EnqueueSubmit, FormDies, Housekeeping, Core, Typed
<1>2. CASE EnqueueFails
  <2>1. /\ form = "enqueue" /\ UNCHANGED <<elt, loads, request, worker, exports, spent>>
        /\ row' = [m \in Rows |-> [row[m] EXCEPT !.stage = "failed"]]
    BY <1>2 DEF EnqueueFails
  <2>2. \A m \in Rows : /\ row'[m].stage = "failed" /\ row'[m].load = row[m].load
                        /\ row'[m].closed = row[m].closed
    BY <2>1, CoreFacts DEF Manifest
  <2> QED
    BY <2>1, <2>2 DEF Housekeeping, Core, Typed
<1> QED
  BY <1>1, <1>2

LEMMA TrackKeeps ==
    ASSUME Core, NEW i \in Exports, NEW st \in {"FINISHED", "FAILED"}, TrackExport(i, st)
    PROVE  Housekeeping /\ row' = row /\ worker' = worker /\ form' = form /\ spent' = spent
BY TrackExportEffect DEF Housekeeping, Core, Typed

LEMMA StutterKeeps ==
    ASSUME Core, UNCHANGED vars
    PROVE  Housekeeping
BY DEF vars, Housekeeping, Core, Typed

\* A step of a request.
LEMMA RequestKeeps ==
    ASSUME Core, NEW a \in Analysts, Ask(a) \/ Answer(a) \/ RequestDies(a)
    PROVE  /\ UNCHANGED <<elt, loads, exports, worker, form>>
           /\ \A m \in Rows : /\ row'[m].stage = "staged" => row[m].stage = "staged"
                              /\ row'[m].load = "loaded" => row[m].load = "loaded"
           /\ \/ (spent' = spent \/ Spend("crashes")) /\ request[a] # Unasked
              \/ Spend("requests")
           /\ task' = task \/ \E t \in Tasks : Armed(t)
<1>1. ASSUME NEW m \in Rows, AskClose(a, m) \/ AskRetry(a, m)
      PROVE  UNCHANGED <<row, elt, loads, exports, task, worker, form>> /\ Spend("requests")
  BY <1>1 DEF AskClose, AskRetry
<1>2. CASE CloseRow(a) \/ ResetRow(a) \/ RequestDies(a)
  <2>1. /\ UNCHANGED <<elt, loads, exports, task, worker, form>> /\ request[a] # Unasked
        /\ spent' = spent \/ Spend("crashes")
    BY <1>2, IdleFacts DEF CloseRow, ResetRow, RequestDies
  <2>2. CASE ResetRow(a)
    BY <2>1, <2>2, ResetRowEffect DEF RowIs
  <2>3. CASE CloseRow(a)
    BY <2>1, <2>3, CloseRowEffect
  <2>4. CASE RequestDies(a)
    BY <2>1, <2>4 DEF RequestDies
  <2> QED
    BY <1>2, <2>2, <2>3, <2>4
<1>3. CASE RearmJob(a)
  <2>1. Recorded \subseteq Exports
    BY RecordedFacts DEF Core
  <2>2. \E t \in Tasks : Armed(t)
    BY <1>3, <2>1, RearmJobEffect, TaskFacts
  <2> QED
    BY <1>3, <2>2, RearmJobEffect, IdleFacts
<1> QED
  BY <1>1, <1>2, <1>3 DEF Ask, Answer

LEMMA StepKinds ==
    ASSUME Core, [Next]_vars
    PROVE  \/ Housekeeping
           \/ \E w \in Workers : Advance(w) /\ (SubmitStep(w) \/ StageStep(w) \/ LoadStep(w))
           \/ \E a \in Analysts : Ask(a) \/ Answer(a) \/ RequestDies(a)
<1>1. CASE EnqueueSubmit \/ EnqueueFails \/ FormDies
  BY <1>1, FormKeeps
<1>2. ASSUME NEW w \in Workers,
             \/ (\E t \in Tasks : Claim(w, t)) \/ Complete(w) \/ Crash(w)
             \/ Raises(w) \/ StampLost(w)
      PROVE  Housekeeping
  BY <1>2, QueueKeeps
<1>3. ASSUME NEW w \in Workers, SubmitStep(w) \/ StageStep(w) \/ LoadStep(w)
      PROVE  Advance(w)
  BY <1>3, SubmitAdvance, StageAdvance, LoadAdvance
<1>4. ASSUME NEW t \in Tasks, Reclaim(t) \/ Resubmit(t) PROVE Housekeeping
  BY <1>4, JobKeeps
<1>5. ASSUME NEW i \in Exports, NEW st \in {"FINISHED", "FAILED"}, TrackExport(i, st)
      PROVE  Housekeeping
  BY <1>5, TrackKeeps
<1>6. CASE UNCHANGED vars
  BY <1>6, StutterKeeps
<1> QED
  BY <1>1, <1>2, <1>3, <1>4, <1>5, <1>6 DEF Next

\* What is spent stays spent, and what is recorded stays recorded.
LEMMA Earlier ==
    ASSUME Core, [Next]_vars
    PROVE  /\ OneAtATime' => OneAtATime
           /\ Undisturbed' => Undisturbed
           /\ spent'.requests = 0 => spent.requests = 0
           /\ loads.late => loads'.late
           /\ spent'.stalls = 0 => spent.stalls = 0
<1>1. Len(exports) \in Nat /\ spent \in [requests : Nat, crashes : Nat, stalls : Nat]
  BY RecordedFacts DEF Core, Typed
<1>. DEFINE Kept == /\ Len(exports) <= Len(exports') /\ (loads.late => loads'.late)
                    /\ \/ spent' = spent
                       \/ Spend("requests") \/ Spend("crashes") \/ Spend("stalls")
<1>2. ASSUME Housekeeping PROVE Kept
  BY <1>1, <1>2 DEF Housekeeping
<1>3. ASSUME NEW w \in Workers, Advance(w) PROVE Kept
  BY <1>1, <1>3, RecordExportEffect DEF Advance
<1>4. ASSUME NEW a \in Analysts, Ask(a) \/ Answer(a) \/ RequestDies(a) PROVE Kept
  BY <1>1, <1>4, RequestKeeps
<1>5. Kept
  BY <1>2, <1>3, <1>4, StepKinds
<1>6. /\ spent'.requests = 0 => spent.requests = 0
      /\ spent'.stalls = 0 => spent.stalls = 0
  <2>1. CASE spent' = spent
    BY <2>1
  <2>2. \A what \in {"requests", "crashes", "stalls"} : Spend(what) =>
            /\ spent'.requests = 0 => spent.requests = 0
            /\ spent'.stalls = 0 => spent.stalls = 0
    BY <1>1, SpendFacts
  <2> QED
    BY <1>5, <2>1, <2>2
<1>7. Len(exports') <= 1 => Len(exports) <= 1
  <2>1. CASE exports' = exports
    BY <2>1
  <2>2. Len(exports') \in Nat
    BY CoreStep, RecordedFacts DEF Core, Typed
  <2> QED
    BY <1>1, <1>5, <2>2
<1> QED
  BY <1>5, <1>6, <1>7 DEF OneAtATime, Undisturbed

\* No analyst interferes.
LEMMA NoneAsks ==
    ASSUME Core, NoRequest, spent'.requests = 0,
           NEW a \in Analysts, Ask(a) \/ Answer(a) \/ RequestDies(a)
    PROVE  FALSE
<1>1. spent \in [requests : Nat, crashes : Nat, stalls : Nat]
  BY DEF Core, Typed
<1>2. ~ Spend("requests")
  BY <1>1, SpendFacts
<1>3. spent.requests = 0
  BY <1>1, <1>2, RequestKeeps, SpendFacts
<1> QED
  BY <1>2, <1>3, RequestKeeps DEF NoRequest

LEMMA NoneResubmits ==
    ASSUME Core, spent'.requests = 0, NEW t \in Tasks, Resubmit(t)
    PROVE  FALSE
<1>1. spent \in [requests : Nat, crashes : Nat, stalls : Nat] /\ Spend("requests")
  BY DEF Core, Typed, Resubmit
<1> QED
  BY <1>1, SpendFacts

-----------------------------------------------------------------------------
(* Jobs run alone, and an export that is over has its stage job *)

LEMMA AloneStep ==
    ASSUME Core, Alone, [Next]_vars
    PROVE  Alone'
<1> SUFFICES ASSUME spent'.stalls = 0 PROVE Alone'
  BY DEF Alone
<1>. USE DEF Exclusive
<1>1. Exclusive
  BY Earlier DEF Alone
<1>2. \A v \in Workers : worker[v].task \in Tasks \cup {Nobody}
  BY ThreadFacts
<1>3. ASSUME NEW t \in Tasks, Armed(t), worker' = worker PROVE Exclusive'
  BY <1>1, <1>2, <1>3 DEF Armed
<1>4. ASSUME NEW t \in Tasks, NEW st \in TaskStatus, TaskIs(t, st), task[t] # "running",
             worker' = worker
      PROVE  Exclusive'
  BY <1>1, <1>2, <1>4 DEF TaskIs
<1>5. CASE EnqueueSubmit \/ EnqueueFails \/ FormDies
  <2>1. worker' = worker /\ \A v \in Workers : worker[v].task = Nobody
    BY <1>5, FormKeeps, IdleFacts DEF Core, Fresh
  <2> QED
    BY <1>1, <2>1 DEF Alone
<1>6. ASSUME NEW w \in Workers, Advance(w) PROVE Exclusive'
  <2>1. \A v \in Workers : worker'[v].task = worker[v].task
    BY <1>6 DEF Advance
  <2>2. CASE task' = task
    BY <1>1, <2>1, <2>2
  <2>3. CASE worker[w].job \in Recorded /\ Armed(Load(worker[w].job))
    <3>1. Load(worker[w].job) \in Tasks
      BY <2>3, RecordedFacts, TaskFacts DEF Core
    <3> QED
      BY <1>1, <1>2, <2>1, <2>3, <3>1 DEF Armed
  <2> QED
    BY <1>6, <2>2, <2>3 DEF Advance
<1>7. ASSUME NEW w \in Workers, NEW t \in Tasks, Claim(w, t) PROVE Exclusive'
  BY <1>1, <1>2, <1>7, ClaimEffect DEF Taken, TaskIs
<1>8. ASSUME NEW w \in Workers, Complete(w) PROVE Exclusive'
  BY <1>1, <1>2, <1>8, CompleteEffect, IdleFacts, TaskFacts DEF Freed, TaskIs
<1>9. ASSUME NEW w \in Workers, Crash(w) \/ Raises(w) \/ StampLost(w) PROVE Exclusive'
  <2>1. CASE Crash(w)
    <3>1. Freed(w) /\ task' = task
      BY <2>1, Frees DEF Crash
    <3> QED
      BY <1>1, <3>1, IdleFacts DEF Freed
  <2>2. CASE Raises(w) \/ StampLost(w)
    <3>1. task' = task /\ \A v \in Workers : worker'[v].task = worker[v].task
      BY <2>2, DropEffect
    <3> QED
      BY <1>1, <3>1
  <2> QED
    BY <1>9, <2>1, <2>2
<1>10. ASSUME NEW t \in Tasks, Reclaim(t) PROVE Exclusive'
  <2>1. worker' = worker /\ TaskIs(t, "pending")
    BY <1>10, TaskSets DEF Reclaim, TaskStatus
  <2>2. ~ \E w \in Workers : worker[w].task = t
    BY <1>10, SpendFacts DEF Reclaim, Core, Typed
  <2> QED
    BY <1>1, <1>2, <2>1, <2>2 DEF TaskIs
<1>11. ASSUME NEW t \in Tasks, Resubmit(t) PROVE Exclusive'
  <2>1. worker' = worker /\ TaskIs(t, "pending") /\ task[t] # "running"
    BY <1>11, TaskSets DEF Resubmit, TaskStatus
  <2> QED
    BY <1>4, <2>1 DEF TaskStatus
<1>12. ASSUME NEW i \in Exports, NEW st \in {"FINISHED", "FAILED"}, TrackExport(i, st) PROVE Exclusive'
  <2>1. /\ worker' = worker /\ Stage(i) \in Tasks
        /\ TaskIs(Stage(i), IF task[Stage(i)] = "absent" THEN "pending" ELSE task[Stage(i)])
    BY <1>12, TrackExportEffect, TaskFacts
  <2> QED
    BY <1>1, <1>2, <2>1 DEF TaskIs
<1>13. ASSUME NEW a \in Analysts, Ask(a) \/ Answer(a) \/ RequestDies(a) PROVE Exclusive'
  BY <1>1, <1>3, <1>13, RequestKeeps
<1>14. CASE UNCHANGED vars
  <2>1. worker' = worker /\ task' = task
    BY <1>14 DEF vars
  <2> QED
    BY <1>1, <2>1 DEF Alone
<1>15. Exclusive' => Alone'
  BY DEF Alone
<1>. HIDE DEF Exclusive
<1> QED
  BY <1>5, <1>6, <1>7, <1>8, <1>9, <1>10, <1>11, <1>12, <1>13, <1>14, <1>15, SubmitAdvance,
     StageAdvance, LoadAdvance DEF Next

LEMMA TrackedStep ==
    ASSUME Core, Tracked, [Next]_vars
    PROVE  Tracked'
<1>0. Recorded \subseteq Exports /\ task \in [Tasks -> TaskStatus]
  BY RecordedFacts, CoreFacts DEF Core
<1>1. \A i \in Recorded : Stage(i) \in Tasks
  BY <1>0, TaskFacts
<1>2. ASSUME exports' = exports, \A t \in Tasks : task[t] # "absent" => task'[t] # "absent"
      PROVE  Tracked'
  BY <1>1, <1>2 DEF Tracked, Recorded
<1>3. ASSUME NEW t \in Tasks, Armed(t), exports' = exports PROVE Tracked'
  BY <1>2, <1>3 DEF Armed
<1>4. ASSUME NEW t \in Tasks, NEW st, TaskIs(t, st), st # "absent", exports' = exports PROVE Tracked'
  BY <1>2, <1>4 DEF TaskIs
<1>5. CASE EnqueueSubmit \/ EnqueueFails \/ FormDies
  <2>1. Recorded = {} /\ exports' = exports
    BY <1>5, FormKeeps DEF Core, Fresh
  <2> QED
    BY <2>1 DEF Tracked, Recorded
<1>6. ASSUME NEW w \in Workers, Advance(w) PROVE Tracked'
  <2>1. \A i \in Recorded : Stage(i) \in Tasks /\ (task[Stage(i)] # "absent" => task'[Stage(i)] # "absent")
    <3>1. worker[w].job \in Recorded => Load(worker[w].job) \in Tasks
      BY <1>0, TaskFacts
    <3> QED
      BY <1>1, <1>6, <3>1 DEF Advance, Armed
  <2>2. CASE exports' = exports
    BY <2>1, <2>2 DEF Tracked, Recorded
  <2>3. CASE RecordExport(w)
    BY <2>1, <2>3, RecordExportEffect DEF Tracked
  <2> QED
    BY <1>6, <2>2, <2>3 DEF Advance
<1>7. ASSUME NEW w \in Workers, NEW t \in Tasks, Claim(w, t) PROVE Tracked'
  BY <1>4, <1>7, ClaimEffect, QueueKeeps
<1>8. ASSUME NEW w \in Workers, Complete(w) PROVE Tracked'
  <2>1. exports' = exports
    BY <1>8, QueueKeeps
  <2>2. \A t \in Tasks : task[t] # "absent" => task'[t] # "absent"
    BY <1>8, CompleteEffect DEF TaskIs, Outcome
  <2> QED
    BY <1>2, <2>1, <2>2
<1>9. ASSUME NEW w \in Workers, Crash(w) \/ Raises(w) \/ StampLost(w) PROVE Tracked'
  BY <1>2, <1>9, DropEffect DEF Crash
<1>10. ASSUME NEW t \in Tasks, Reclaim(t) \/ Resubmit(t) PROVE Tracked'
  BY <1>4, <1>10, TaskSets DEF Reclaim, Resubmit, TaskStatus
<1>11. ASSUME NEW i \in Exports, NEW st \in {"FINISHED", "FAILED"}, TrackExport(i, st) PROVE Tracked'
  BY <1>0, <1>1, <1>11, TrackExportEffect DEF Tracked, TaskIs
<1>12. ASSUME NEW a \in Analysts, Ask(a) \/ Answer(a) \/ RequestDies(a) PROVE Tracked'
  BY <1>2, <1>3, <1>12, RequestKeeps
<1>13. CASE UNCHANGED vars
  BY <1>2, <1>13 DEF vars
<1> QED
  BY <1>5, <1>6, <1>7, <1>8, <1>9, <1>10, <1>11, <1>12, <1>13, SubmitAdvance, StageAdvance,
     LoadAdvance DEF Next

-----------------------------------------------------------------------------
(* What is loaded is complete *)

\* With one export, and no job taken from a live thread, the threads that run a
\* stage job, or a load job, are one.
LEMMA Solo ==
    ASSUME Core, Alone, OneAtATime, NEW w \in Workers
    PROVE  /\ worker[w].at \in StageAt => worker[w].task = Stage(1) /\ worker[w].job = 1
           /\ worker[w].at \in LoadAt => worker[w].task = Load(1) /\ worker[w].job = 1
           /\ worker[w].at # "idle" => worker[w].task # Nobody
           /\ worker[w].task # Nobody => task[worker[w].task] = "running"
           /\ \A v \in Workers : worker[w].task # Nobody /\ worker[v].task = worker[w].task => v = w
           /\ \A v \in Workers : \/ worker[w].at \in StageAt /\ worker[v].at \in StageAt
                                 \/ worker[w].at \in LoadAt /\ worker[v].at \in LoadAt
                                 => v = w
           /\ Recorded \subseteq {1} /\ 1 \in Exports
<1>1. Recorded \subseteq {1}
  BY RecordedFacts DEF Core, OneAtATime
<1>2. Exclusive
  BY DEF Alone, OneAtATime
<1>3. \A v \in Workers : InBody(worker[v], Recorded)
  BY ThreadFacts
<1>4. \A v \in Workers :
         /\ worker[v].at \in StageAt => worker[v].task = Stage(1) /\ worker[v].job = 1
         /\ worker[v].at \in LoadAt => worker[v].task = Load(1) /\ worker[v].job = 1
         /\ worker[v].at # "idle" => worker[v].task # Nobody
  BY ZenonT(60), <1>1, <1>3, TaskFacts DEF InBody
<1>5. "idle" \notin StageAt \cup LoadAt
  BY DEF StageAt, LoadAt
<1> QED
  BY <1>1, <1>2, <1>4, <1>5, ConstantFacts DEF Exclusive

LEMMA KnowsMore ==
    ASSUME Core, Alone, OneAtATime, CompleteLoads, NEW w \in Workers, Advance(w),
           \A m \in Rows : /\ row'[m].stage = "staged" => row[m].stage = "staged"
                           /\ row'[m].load = "loaded" => row[m].load = "loaded"
                           /\ elt[m].full => elt'[m].full
                           /\ row[m].load = "loaded" /\ row'[m].load # "loaded" =>
                                 m \in loads'.forgotten,
           loads'.took = loads.took, loads.forgotten \subseteq loads'.forgotten,
           KnowsLosses(w)'
    PROVE  CompleteLoads'
<1>1. StagedIsFull /\ LoadedFull /\ LoadedOnce /\ \A v \in Workers : KnowsLosses(v)
  BY DEF CompleteLoads
<1>2. StagedIsFull' /\ LoadedFull'
  BY <1>1 DEF StagedIsFull, LoadedFull
<1>3. LoadedOnce'
  BY <1>1 DEF LoadedOnce, Advance
<1>4. ASSUME NEW v \in Workers PROVE KnowsLosses(v)'
  <2>1. CASE v = w
    BY <2>1
  <2>2. CASE v # w
    <3>1. worker'[v] = worker[v] /\ KnowsLosses(v)
      BY <1>1, <2>2 DEF Advance
    <3>2. /\ worker[v].todo \subseteq Rows
          /\ worker[v].at \in {"staged", "catch"} => First(worker[v].todo) \in Rows
      BY ThreadFacts DEF InBody, LoopAt
    <3> QED
      BY <3>1, <3>2 DEF KnowsLosses
  <2> QED
    BY <2>1, <2>2
<1> QED
  BY <1>2, <1>3, <1>4 DEF CompleteLoads

LEMMA KnowsNothing ==
    ASSUME NEW w \in Workers, worker'[w].at \notin {"discard", "staged", "catch"}
    PROVE  KnowsLosses(w)'
BY DEF KnowsLosses

LEMMA SubmitComplete ==
    ASSUME Core, Alone, OneAtATime, CompleteLoads, NEW w \in Workers, SubmitStep(w)
    PROVE  CompleteLoads'
<1>1. Advance(w)
  BY SubmitAdvance
<1>2. worker[w].at \in SubmitAt /\ worker'[w].at \in SubmitAt \cup Outcome
  BY <1>1, SelectRowsEffect, FindExportEffect, AskExportEffect, RecordExportEffect, StampRowEffect
  DEF SubmitStep, SelectRows, FindExport, AskExport, RecordExport, StampRow, Loops, Turns, Moves,
      Becomes, SubmitAt, Outcome
<1>3. \A m \in Rows : /\ row'[m].stage = "staged" => row[m].stage = "staged"
                      /\ row'[m].load = "loaded" => row[m].load = "loaded"
  BY <1>1, <1>2 DEF Advance, RowMoves, SubmitAt
<1>4. \A m \in Rows : row'[m].load = row[m].load
  BY StampRowEffect DEF SubmitStep, SelectRows, FindExport, AskExport, RecordExport, RowIs
<1>5. elt' = elt /\ loads' = loads
  BY DEF SubmitStep, SelectRows, FindExport, AskExport, RecordExport, StampRow
<1>6. KnowsLosses(w)'
  BY <1>2, KnowsNothing DEF SubmitAt, Outcome
<1> QED
  BY <1>1, <1>3, <1>4, <1>5, <1>6, KnowsMore

LEMMA DiscardComplete ==
    ASSUME Core, Alone, OneAtATime, CompleteLoads, NEW w \in Workers, Discard(w)
    PROVE  CompleteLoads'
<1>1. /\ worker[w].at = "discard" /\ UNCHANGED <<row, loads, spent>>
      /\ Loops(w, "check") /\ Next1(w) \in worker[w].todo
      /\ \A m \in Rows \ {Next1(w)} : elt'[m] = elt[m]
  BY DiscardEffect DEF Discard, Core, Typed
<1>2. StagedIsFull /\ LoadedFull /\ LoadedOnce /\ \A v \in Workers : KnowsLosses(v)
  BY DEF CompleteLoads
<1>3. StagedIsFull'
  BY <1>1, <1>2 DEF StagedIsFull, KnowsLosses
<1>4. LoadedFull' /\ LoadedOnce'
  BY <1>1, <1>2 DEF LoadedFull, LoadedOnce
<1>5. ASSUME NEW v \in Workers PROVE KnowsLosses(v)'
  <2>1. CASE v = w
    BY <1>1, <1>2, <2>1 DEF KnowsLosses, Loops, Turns, Becomes, Rest
  <2>2. CASE v # w
    <3>1. worker'[v] = worker[v] /\ KnowsLosses(v) /\ worker[v].at \notin StageAt
      BY <1>1, <1>2, <2>2, Solo DEF Loops, Turns, Becomes, StageAt
    <3> QED
      BY <1>1, <3>1 DEF KnowsLosses, StageAt
  <2> QED
    BY <2>1, <2>2
<1> QED
  BY <1>3, <1>4, <1>5 DEF CompleteLoads

LEMMA MarkComplete ==
    ASSUME Core, Alone, OneAtATime, CompleteLoads, NEW w \in Workers, MarkStaged(w)
    PROVE  CompleteLoads'
<1>1. /\ worker[w].at = "staged" /\ UNCHANGED <<elt, loads, spent>>
      /\ Next1(w) \in Rows /\ Targeted(w, worker[w].bad)
      /\ RowIs(Next1(w), "staged", row[Next1(w)].load, row[Next1(w)].job)
  BY MarkStagedEffect DEF MarkStaged
<1>2. StagedIsFull /\ LoadedFull /\ LoadedOnce /\ \A v \in Workers : KnowsLosses(v)
  BY DEF CompleteLoads
<1>3. elt[Next1(w)].full
  BY <1>1, <1>2 DEF KnowsLosses, Next1
<1>4. StagedIsFull' /\ LoadedFull' /\ LoadedOnce'
  BY <1>1, <1>2, <1>3 DEF StagedIsFull, LoadedFull, LoadedOnce, RowIs
<1>5. ASSUME NEW v \in Workers PROVE KnowsLosses(v)'
  <2>1. CASE v = w
    BY <1>1, <2>1 DEF KnowsLosses, Targeted, Becomes
  <2>2. CASE v # w
    <3>1. worker'[v] = worker[v] /\ KnowsLosses(v) /\ worker[v].at \notin StageAt
      BY <1>1, <1>2, <2>2, Solo DEF Targeted, Becomes, StageAt
    <3>2. worker[v].at = "catch" => First(worker[v].todo) \in Rows
      BY ThreadFacts DEF InBody, LoopAt
    <3>3. \A m \in Rows : row'[m].load = row[m].load
      BY <1>1 DEF RowIs
    <3> QED
      BY <3>1, <3>2, <3>3 DEF KnowsLosses, StageAt
  <2> QED
    BY <2>1, <2>2
<1> QED
  BY <1>4, <1>5 DEF CompleteLoads

LEMMA LoadComplete ==
    ASSUME Core, Alone, OneAtATime, CompleteLoads, NEW w \in Workers, LoadRow(w)
    PROVE  CompleteLoads'
<1>. DEFINE n == Next1(w)
<1>1. /\ worker[w].at = "load" /\ UNCHANGED <<elt, spent>> /\ n \in Rows
      /\ Loops(w, LoadOutcome(w)) /\ Claimable(n)
      /\ RowIs(n, row[n].stage, "loaded", row[n].job)
      /\ loads'.forgotten = loads.forgotten
      /\ \A m \in Rows \ {n} : loads'.took[m] = loads.took[m]
      /\ loads'.took[n] = Append(loads.took[n], elt[n].full)
      /\ loads.took[n] \in Seq(BOOLEAN)
  BY LoadRowEffect, CoreFacts DEF LoadRow, History
<1>. HIDE DEF n
<1>2. StagedIsFull /\ LoadedFull /\ LoadedOnce /\ \A v \in Workers : KnowsLosses(v)
  BY DEF CompleteLoads
<1>3. elt[n].full /\ row[n].load # "loaded"
  BY <1>1, <1>2 DEF StagedIsFull, Claimable
<1>4. StagedIsFull'
  BY <1>1, <1>2 DEF StagedIsFull, RowIs
<1>5. LoadedFull'
  <2>1. \A k \in DOMAIN loads'.took[n] : loads'.took[n][k]
    BY <1>1, <1>2, <1>3 DEF LoadedFull
  <2> QED
    BY <1>1, <1>2, <2>1 DEF LoadedFull
<1>6. LoadedOnce'
  <2>1. Len(loads'.took[n]) = Len(loads.took[n]) + 1
    BY <1>1
  <2> QED
    BY <1>1, <1>2, <1>3, <2>1 DEF LoadedOnce, RowIs
<1>7. ASSUME NEW v \in Workers PROVE KnowsLosses(v)'
  <2>1. CASE v = w
    BY <1>1, <2>1, Outcomes DEF KnowsLosses, Loops, Turns, Becomes, Outcome
  <2>2. CASE v # w
    <3>1. worker'[v] = worker[v] /\ KnowsLosses(v) /\ worker[v].at \notin LoadAt
      BY <1>1, <1>2, <2>2, Solo DEF Loops, Turns, Becomes, LoadAt
    <3>2. worker[v].todo \subseteq Rows /\ \A m \in Rows : row'[m].stage = row[m].stage
      BY <1>1, ThreadFacts DEF RowIs
    <3> QED
      BY <1>1, <3>1, <3>2 DEF KnowsLosses, LoadAt
  <2> QED
    BY <2>1, <2>2
<1> QED
  BY SMTT(60), <1>4, <1>5, <1>6, <1>7 DEF CompleteLoads

LEMMA StageComplete ==
    ASSUME Core, Alone, OneAtATime, CompleteLoads, NEW w \in Workers, StageStep(w)
    PROVE  CompleteLoads'
<1>0. Advance(w)
  BY StageAdvance
<1>1. CASE ReadTargets(w)
  <2>1. UNCHANGED <<row, elt, loads>>
    BY <1>1 DEF ReadTargets
  <2>2. KnowsLosses(w)'
    BY <1>1, <2>1, ReadTargetsEffect DEF KnowsLosses, Moves, Becomes, StageEligible
  <2> QED
    BY <1>0, <2>1, <2>2, KnowsMore
<1>2. CASE Discard(w)
  BY <1>2, DiscardComplete
<1>3. CASE FetchArchive(w) \/ ForgetArchive(w)
  <2>1. elt' = elt /\ loads' = loads
    BY <1>3 DEF FetchArchive, ForgetArchive
  <2>2. \A m \in Rows : row'[m].stage = row[m].stage /\ row'[m].load = row[m].load
    BY <1>3, FetchArchiveEffect, ForgetArchiveEffect
  <2>3. KnowsLosses(w)'
    BY <1>3, FetchArchiveEffect, ForgetArchiveEffect, KnowsNothing DEF Turns, Moves, Becomes
  <2> QED
    BY <1>0, <2>1, <2>2, <2>3, KnowsMore
<1>4. CASE StampFacts(w)
  <2>1. elt' = elt /\ loads' = loads
    BY <1>4 DEF StampFacts
  <2>2. \A m \in Rows : row'[m].stage = row[m].stage /\ row'[m].load = row[m].load
    BY <1>4, StampFactsEffect DEF RowIs
  <2>3. KnowsLosses(w)'
    BY <1>4, StampFactsEffect, KnowsNothing DEF Turns, Becomes
  <2> QED
    BY <1>0, <2>1, <2>2, <2>3, KnowsMore
<1>5. CASE OpenFile(w)
  <2>1. row' = row /\ loads' = loads
    BY <1>5 DEF OpenFile
  <2>2. \A m \in Rows : elt'[m].full = elt[m].full
    BY <1>5, OpenFileEffect
  <2>3. KnowsLosses(w)'
    BY <1>5, OpenFileEffect, KnowsNothing DEF Targeted, Moves, Becomes
  <2> QED
    BY <1>0, <2>1, <2>2, <2>3, KnowsMore
<1>6. CASE UploadFile(w)
  <2>1. row' = row /\ loads' = loads
    BY <1>6 DEF UploadFile
  <2>2. \A m \in Rows : elt[m].full => elt'[m].full
    BY <1>6, UploadFileEffect
  <2>3. KnowsLosses(w)'
    BY <1>6, UploadFileEffect DEF KnowsLosses, Moves, Becomes, Next1
  <2> QED
    BY <1>0, <2>1, <2>2, <2>3, KnowsMore
<1>7. CASE MarkStaged(w)
  BY <1>7, MarkComplete
<1>8. CASE FailMissing(w) \/ FailUnstaged(w)
  <2>1. elt' = elt /\ loads' = loads /\ worker[w].at \in {"missing", "fail"}
    BY <1>8 DEF FailMissing, FailUnstaged
  <2>2. \A m \in Rows : (row'[m].stage = "staged" => row[m].stage = "staged") /\ row'[m].load = row[m].load
    BY <1>8, FailMissingEffect, FailUnstagedEffect DEF RowIs
  <2>3. KnowsLosses(w)'
    BY <1>8, <2>1, FailMissingEffect, FailUnstagedEffect, KnowsNothing DEF Loops, Turns, Becomes
  <2> QED
    BY <1>0, <2>1, <2>2, <2>3, KnowsMore
<1>9. CASE StageFails(w) \/ ReadUnstaged(w) \/ ReadLoadable(w)
  <2>1. UNCHANGED <<row, elt, loads>>
    BY <1>9 DEF StageFails, ReadUnstaged, ReadLoadable
  <2>2. KnowsLosses(w)'
    BY <1>9, StageFailsEffect, ReadUnstagedEffect, ReadLoadableEffect, Outcomes, KnowsNothing
    DEF Moves, Turns, Becomes, Outcome
  <2> QED
    BY <1>0, <2>1, <2>2, KnowsMore
<1>10. CASE EnqueueLoad(w)
  <2>1. row' = row /\ elt' = elt
    BY <1>10 DEF EnqueueLoad
  <2>2. KnowsLosses(w)'
    BY <1>10, EnqueueLoadEffect, Outcomes, KnowsNothing DEF Moves, Becomes, Outcome
  <2> QED
    BY <1>0, <1>10, <2>1, <2>2, EnqueueLoadEffect, KnowsMore
<1>11. CASE FailUnqueued(w)
  <2>1. elt' = elt /\ worker[w].at = "no_load"
    BY <1>11 DEF FailUnqueued
  <2>2. \A m \in Rows : /\ row'[m].stage = row[m].stage
                        /\ row'[m].load = "loaded" => row[m].load = "loaded"
                        /\ row[m].load = "loaded" /\ row'[m].load # "loaded" => m \in loads'.forgotten
    BY <1>11, FailUnqueuedEffect DEF RowIs
  <2>3. KnowsLosses(w)'
    BY <1>11, <2>1, FailUnqueuedEffect, KnowsNothing DEF Loops, Turns, Becomes
  <2>4. loads'.took = loads.took /\ loads.forgotten \subseteq loads'.forgotten
    BY <1>11, FailUnqueuedEffect
  <2> QED
    BY <1>0, <2>1, <2>2, <2>3, <2>4, KnowsMore
<1> QED
  BY <1>1, <1>2, <1>3, <1>4, <1>5, <1>6, <1>7, <1>8, <1>9, <1>10, <1>11 DEF StageStep

LEMMA LoadBodyComplete ==
    ASSUME Core, Alone, OneAtATime, CompleteLoads, NEW w \in Workers, LoadStep(w)
    PROVE  CompleteLoads'
<1>0. Advance(w) /\ KnowsLosses(w)
  BY LoadAdvance DEF CompleteLoads
<1>1. CASE ListLoadable(w)
  <2>1. UNCHANGED <<row, elt, loads>>
    BY <1>1 DEF ListLoadable
  <2>2. KnowsLosses(w)'
    BY <1>1, ListLoadableEffect, KnowsNothing DEF Moves, Turns, Becomes
  <2> QED
    BY <1>0, <2>1, <2>2, KnowsMore
<1>2. CASE LoadRow(w)
  BY <1>2, LoadComplete
<1>3. CASE LoadRowFails(w)
  <2>1. UNCHANGED <<row, elt, loads>>
    BY <1>3 DEF LoadRowFails
  <2>2. KnowsLosses(w)'
    BY <1>3, <2>1, LoadRowFailsEffect DEF KnowsLosses, Moves, Becomes, Claimable, Next1
  <2> QED
    BY <1>0, <2>1, <2>2, KnowsMore
<1>4. CASE CatchLoad(w)
  <2>1. elt' = elt /\ loads' = loads /\ worker[w].at = "catch"
    BY <1>4 DEF CatchLoad
  <2>2. row[Next1(w)].load # "loaded"
    BY <1>0, <2>1 DEF KnowsLosses, Next1
  <2>3. \A m \in Rows : /\ row'[m].stage = row[m].stage
                        /\ row'[m].load = "loaded" <=> row[m].load = "loaded"
    BY <1>4, <2>2, CatchLoadEffect DEF RowIs
  <2>4. KnowsLosses(w)'
    BY <1>4, CatchLoadEffect, KnowsNothing DEF Moves, Becomes
  <2> QED
    BY <1>0, <2>1, <2>3, <2>4, KnowsMore
<1>5. CASE StampRefused(w)
  <2>1. elt' = elt /\ loads' = loads
    BY <1>5 DEF StampRefused
  <2>2. \A m \in Rows : /\ row'[m].stage = row[m].stage
                        /\ row'[m].load = "loaded" <=> row[m].load = "loaded"
    BY <1>5, StampRefusedEffect DEF RowIs
  <2>3. KnowsLosses(w)'
    BY <1>5, StampRefusedEffect, KnowsNothing DEF Becomes
  <2> QED
    BY <1>0, <2>1, <2>2, <2>3, KnowsMore
<1> QED
  BY <1>1, <1>2, <1>3, <1>4, <1>5 DEF LoadStep

LEMMA CompleteLoadsStep ==
    ASSUME Core, Alone, NoRequest, CompleteLoads, [Next]_vars
    PROVE  CompleteLoads'
<1> SUFFICES ASSUME OneAtATime' PROVE CompleteLoads'
  BY DEF CompleteLoads
<1>1. /\ OneAtATime /\ (spent'.requests = 0 => spent.requests = 0)
      /\ StagedIsFull /\ LoadedFull /\ LoadedOnce /\ \A v \in Workers : KnowsLosses(v)
  BY Earlier DEF CompleteLoads
<1>2. \A v \in Workers : /\ worker[v].todo \subseteq Rows
                         /\ worker[v].at \in {"staged", "catch"} => First(worker[v].todo) \in Rows
  BY ThreadFacts DEF InBody, LoopAt
<1>3. CASE Housekeeping
  <2>1. /\ elt' = elt /\ loads' = loads
        /\ \A m \in Rows : /\ row'[m].stage = "staged" => row[m].stage = "staged"
                           /\ row'[m].load = row[m].load
        /\ \A v \in Workers : \/ worker'[v] = worker[v]
                              \/ worker'[v].at \notin {"discard", "staged", "catch"}
    BY <1>3 DEF Housekeeping
  <2>2. StagedIsFull' /\ LoadedFull' /\ LoadedOnce'
    BY <1>1, <2>1 DEF StagedIsFull, LoadedFull, LoadedOnce
  <2>3. \A v \in Workers : KnowsLosses(v)'
    BY <1>1, <1>2, <2>1 DEF KnowsLosses
  <2> QED
    BY <2>2, <2>3 DEF CompleteLoads
<1>4. ASSUME NEW a \in Analysts, Ask(a) \/ Answer(a) \/ RequestDies(a) PROVE CompleteLoads'
  <2>1. /\ elt' = elt /\ loads' = loads /\ worker' = worker
        /\ \A m \in Rows : /\ row'[m].stage = "staged" => row[m].stage = "staged"
                           /\ row'[m].load = "loaded" => row[m].load = "loaded"
        /\ spent'.requests # 0
    BY <1>4, RequestKeeps, NoneAsks
  <2>2. StagedIsFull' /\ LoadedFull' /\ LoadedOnce'
    BY <1>1, <2>1 DEF StagedIsFull, LoadedFull, LoadedOnce
  <2>3. \A v \in Workers : KnowsLosses(v)'
    BY <1>1, <1>2, <2>1 DEF KnowsLosses
  <2> QED
    BY <2>2, <2>3 DEF CompleteLoads
<1>5. ASSUME NEW w \in Workers, SubmitStep(w) \/ StageStep(w) \/ LoadStep(w) PROVE CompleteLoads'
  BY <1>1, <1>5, SubmitComplete, StageComplete, LoadBodyComplete
<1> QED
  BY <1>3, <1>4, <1>5, StepKinds

LEMMA NoRequestStep ==
    ASSUME Core, NoRequest, [Next]_vars
    PROVE  NoRequest'
<1> SUFFICES ASSUME spent'.requests = 0 PROVE NoRequest'
  BY DEF NoRequest
<1>1. /\ \A a \in Analysts : request[a] = Unasked
      /\ \A m \in Rows : ~ row[m].closed /\ (row[m].stage = "pending" => row[m].load # "loaded")
  BY Earlier DEF NoRequest
<1>2. CASE Housekeeping
  BY <1>1, <1>2 DEF Housekeeping, NoRequest
<1>3. ASSUME NEW w \in Workers, Advance(w) PROVE NoRequest'
  BY <1>1, <1>3 DEF Advance, RowMoves, NoRequest
<1> QED
  BY <1>2, <1>3, StepKinds, NoneAsks

-----------------------------------------------------------------------------
(* What a stage job has still to do *)

\* A row that can be staged stays so until the stage job has staged it.
LEMMA StaysEligible ==
    ASSUME NEW w \in Workers, Advance(w), NEW m \in Rows, Eligible(m),
           worker[w].at # "staged" \/ row'[m].stage # "staged"
    PROVE  Eligible(m)'
BY DEF Advance, RowMoves, Eligible

LEMMA TargetsMore ==
    ASSUME Core, Alone, OneAtATime, NEW w \in Workers, Advance(w),
           \A v \in Workers : HasTargets(worker[v]), HasTargets(worker[w])'
    PROVE  \A v \in Workers : HasTargets(worker[v])'
<1> SUFFICES ASSUME NEW v \in Workers, v # w PROVE HasTargets(worker[v])'
  OBVIOUS
<1>1. worker'[v] = worker[v] /\ HasTargets(worker[v])
  BY DEF Advance
<1>2. /\ worker[v].rows \subseteq Rows /\ worker[v].todo \subseteq Rows /\ worker[v].bad \subseteq Rows
  BY ThreadFacts
<1>3. CASE worker[v].at \in StageAt
  <2>1. worker[w].at # "staged"
    BY <1>3, Solo DEF StageAt
  <2>2. \A m \in Rows : Eligible(m) => Eligible(m)'
    BY <2>1, StaysEligible
  <2> QED
    BY <1>1, <1>2, <2>2 DEF HasTargets
<1>4. CASE worker[v].at \notin StageAt
  BY <1>1, <1>4 DEF HasTargets, StageAt
<1> QED
  BY <1>3, <1>4

\* The thread that stages goes on, and leaves its job only with nothing pending.
LEMMA StageTargets ==
    ASSUME Core, NoRequest, spent.requests = 0, NEW w \in Workers, StageStep(w),
           HasTargets(worker[w]), HasPending(worker[w])
    PROVE  HasTargets(worker[w])' /\ HasPending(worker[w])'
<1>0. /\ Advance(w)
      /\ \A m \in Rows : row'[m].stage = "pending" => row[m].stage = "pending"
      /\ \A m \in Rows : Eligible(m) /\ worker[w].at # "staged" => Eligible(m)'
      /\ \A m \in Rows : ~ row[m].closed /\ (row[m].stage = "pending" => row[m].load # "loaded")
      /\ worker[w].rows \subseteq Rows /\ worker[w].todo \subseteq Rows /\ worker[w].bad \subseteq Rows
      /\ worker' \in [Workers -> Thread]
  BY StageAdvance, StaysEligible, ThreadFacts DEF Advance, RowMoves, NoRequest
<1>1. CASE ReadTargets(w)
  <2>1. /\ worker[w].at = "stage" /\ row' = row
        /\ StageEligible \subseteq {m \in Rows : Eligible(m)}
        /\ \A m \in Rows : row[m].stage = "pending" => m \in StageEligible
    BY <1>0, <1>1 DEF ReadTargets, StageEligible, Eligible
  <2>2. CASE AllLoaded /\ Moves(w, "succeeded")
    BY <1>0, <2>1, <2>2 DEF HasTargets, HasPending, Moves, Becomes, AllLoaded
  <2>3. CASE Becomes(w, IF StageEligible = {} THEN "reread" ELSE "discard", StageEligible,
                     StageEligible, worker[w].bad, worker[w].job)
    BY <1>0, <2>1, <2>3 DEF HasTargets, HasPending, Becomes, Ended
  <2> QED
    BY <1>1, <2>2, <2>3, ReadTargetsEffect
<1>2. CASE Discard(w)
  BY <1>0, <1>2, DiscardEffect
  DEF Discard, HasTargets, HasPending, Loops, Turns, Becomes, Rest, Ended
<1>3. CASE FetchArchive(w)
  <2>1. worker[w].at = "check" /\ worker[w].bad = {} /\ Turns(w, "facts", worker[w].rows)
    BY <1>3, FetchArchiveEffect, ThreadFacts DEF FetchArchive, InBody
  <2> QED
    BY <1>0, <2>1 DEF HasTargets, HasPending, Turns, Becomes, Ended
<1>4. CASE ForgetArchive(w)
  <2>1. worker[w].at = "facts" /\ worker[w].rows # {} /\ Moves(w, "unstage")
    BY <1>4, ForgetArchiveEffect, ThreadFacts DEF ForgetArchive, InBody
  <2> QED
    BY <1>0, <2>1 DEF HasTargets, HasPending, Moves, Becomes, Ended
<1>5. CASE StampFacts(w)
  <2>1. /\ worker[w].at = "facts" /\ worker[w].bad = {}
        /\ Turns(w, IF Rest(w) = {} THEN "open" ELSE "facts",
                 IF Rest(w) = {} THEN worker[w].rows ELSE Rest(w))
    BY <1>5, StampFactsEffect, ThreadFacts DEF StampFacts, InBody
  <2> QED
    BY <1>0, <2>1 DEF HasTargets, HasPending, Turns, Becomes, Ended
<1>6. CASE OpenFile(w)
  <2>1. worker[w].at = "open" /\ worker[w].todo # {} /\ Next1(w) \in worker[w].todo
    BY <1>6, OpenFileEffect DEF OpenFile
  <2>2. CASE Moves(w, "upload")
    BY <1>0, <2>1, <2>2 DEF HasTargets, HasPending, Moves, Becomes, Ended
  <2>3. CASE Moves(w, "unstage")
    BY <1>0, <2>1, <2>3 DEF HasTargets, HasPending, Moves, Becomes, Ended
  <2>4. CASE Targeted(w, worker[w].bad \cup {Next1(w)})
    <3>1. /\ worker[w].todo \cap worker[w].bad = {}
          /\ \A m \in worker[w].todo \cup worker[w].bad : Eligible(m)'
      BY <1>0, <2>1 DEF HasTargets
    <3>2. \A m \in Rows : row'[m].stage = "pending" => m \in Rest(w) \cup worker[w].bad \cup {Next1(w)}
      BY <1>0, <2>1 DEF HasPending, Rest, Next1
    <3>3. Rest(w) \subseteq worker[w].todo /\ Next1(w) \notin Rest(w)
      BY DEF Rest, Next1
    <3> QED
      BY <1>0, <2>1, <2>4, <3>1, <3>2, <3>3 DEF HasTargets, HasPending, Targeted, Becomes, Ended
  <2> QED
    BY <1>6, <2>2, <2>3, <2>4, OpenFileEffect
<1>7. CASE UploadFile(w)
  <2>1. worker[w].at = "upload" /\ worker[w].todo # {} /\ (Moves(w, "staged") \/ Moves(w, "unstage"))
    BY <1>7, UploadFileEffect DEF UploadFile
  <2> QED
    BY <1>0, <2>1 DEF HasTargets, HasPending, Moves, Becomes, Ended
<1>8. CASE MarkStaged(w)
  <2>1. /\ worker[w].at = "staged" /\ Next1(w) \in worker[w].todo /\ Targeted(w, worker[w].bad)
        /\ row'[Next1(w)].stage = "staged" /\ \A m \in Rows \ {Next1(w)} : row'[m] = row[m]
    BY <1>8, MarkStagedEffect DEF MarkStaged, RowIs
  <2>2. /\ worker[w].todo \cap worker[w].bad = {}
        /\ \A m \in Rest(w) \cup worker[w].bad : Eligible(m)'
    BY <1>0, <2>1 DEF HasTargets, Rest, Next1, Eligible
  <2>3. \A m \in Rows : row'[m].stage = "pending" => m \in Rest(w) \cup worker[w].bad
    BY <1>0, <2>1 DEF HasPending, Rest, Next1
  <2>4. Rest(w) \subseteq worker[w].todo
    BY DEF Rest
  <2> QED
    BY <1>0, <2>1, <2>2, <2>3, <2>4 DEF HasTargets, HasPending, Targeted, Becomes, Ended
<1>9. CASE FailMissing(w) \/ FailUnstaged(w)
  <2>1. /\ \/ worker[w].at = "missing" /\ Loops(w, "reread")
           \/ worker[w].at = "fail" /\ Loops(w, "failed")
        /\ row'[Next1(w)].stage = "failed" /\ Next1(w) \in Rows
    BY <1>9, FailMissingEffect, FailUnstagedEffect DEF FailMissing, FailUnstaged, RowIs
  <2>2. \A m \in Rest(w) : Eligible(m)'
    BY <1>0, <2>1 DEF HasTargets, Rest
  <2>3. \A m \in Rows : row'[m].stage = "pending" => m \in Rest(w)
    BY <1>0, <2>1 DEF HasPending, Rest, Next1
  <2> QED
    BY <1>0, <2>1, <2>2, <2>3 DEF HasTargets, HasPending, Loops, Turns, Becomes, Ended
<1>10. CASE StageFails(w)
  <2>1. /\ worker[w].at \in {"discard", "check", "facts", "open", "upload", "staged", "missing"}
        /\ worker[w].at \in {"discard", "check", "facts"} => worker[w].rows # {}
        /\ worker[w].at \in {"open", "upload", "staged", "missing"} => worker[w].todo # {}
        /\ Moves(w, "unstage") /\ row' = row
    BY <1>10, StageFailsEffect, ThreadFacts DEF StageFails, InTry, InBody, LoopAt
  <2>2. \E m \in Rows : Eligible(m)'
    BY <1>0, <2>1 DEF HasTargets, Eligible
  <2> QED
    BY <2>1, <2>2 DEF HasTargets, HasPending, Moves, Becomes, Ended
<1>11. CASE ReadUnstaged(w)
  <2>1. row' = row /\ Turns(w, IF StageEligible = {} THEN "failed" ELSE "fail", StageEligible)
    BY <1>11, ReadUnstagedEffect DEF ReadUnstaged
  <2>2. /\ StageEligible \subseteq {m \in Rows : Eligible(m)}
        /\ \A m \in Rows : row[m].stage = "pending" => m \in StageEligible
    BY <1>0 DEF StageEligible, Eligible
  <2>3. worker[w].at = "unstage"
    BY <1>11 DEF ReadUnstaged
  <2> QED
    BY <1>0, <2>1, <2>2, <2>3 DEF HasTargets, HasPending, Turns, Becomes, Ended
<1>12. CASE ReadLoadable(w) \/ EnqueueLoad(w) \/ FailUnqueued(w)
  <2>1. /\ worker[w].at \in {"reread", "enqueue", "no_load"}
        /\ worker'[w].at \in {"enqueue", "no_load"} \cup Ended
    BY <1>12, ReadLoadableEffect, EnqueueLoadEffect, FailUnqueuedEffect, Outcomes
    DEF ReadLoadable, EnqueueLoad, FailUnqueued, Loops, Turns, Moves, Becomes, Ended
  <2> QED
    BY <1>0, <2>1 DEF HasTargets, HasPending, Ended
<1> QED
  BY <1>1, <1>2, <1>3, <1>4, <1>5, <1>6, <1>7, <1>8, <1>9, <1>10, <1>11, <1>12 DEF StageStep


\* The places a thread comes to from those of each body.
LEMMA Bodies ==
    ASSUME Core, NEW w \in Workers
    PROVE  /\ SubmitStep(w) => /\ worker[w].at \in SubmitAt /\ worker[w].task = Submit
                               /\ worker'[w].at \in SubmitAt \cup Outcome
           /\ StageStep(w)  => worker[w].at \in StageAt
           /\ LoadStep(w)   => worker[w].at \in LoadAt /\ worker'[w].at \in LoadAt \cup Outcome
<1>1. ASSUME SubmitStep(w)
      PROVE  worker[w].at \in SubmitAt /\ worker'[w].at \in SubmitAt \cup Outcome
  BY <1>1, SelectRowsEffect, FindExportEffect, AskExportEffect, RecordExportEffect, StampRowEffect
  DEF SubmitStep, SelectRows, FindExport, AskExport, RecordExport, StampRow, Loops, Turns, Moves,
      Becomes, SubmitAt, Outcome
<1>2. ASSUME StageStep(w) PROVE worker[w].at \in StageAt
  BY SMTT(60), <1>2 DEF StageStep, ReadTargets, Discard, FetchArchive, ForgetArchive, StampFacts, OpenFile,
     UploadFile, MarkStaged, FailMissing, StageFails, InTry, ReadUnstaged, FailUnstaged,
     ReadLoadable, EnqueueLoad, FailUnqueued, StageAt
<1>3. ASSUME LoadStep(w)
      PROVE  worker[w].at \in LoadAt /\ worker'[w].at \in LoadAt \cup Outcome
  BY ZenonT(60), <1>3, ListLoadableEffect, LoadRowEffect, LoadRowFailsEffect, CatchLoadEffect,
     StampRefusedEffect, Outcomes
  DEF LoadStep, ListLoadable, LoadRow, LoadRowFails, CatchLoad, StampRefused, Loops, Turns, Moves,
      Becomes, LoadAt, Outcome
<1> QED
  BY <1>1, <1>2, <1>3, ThreadFacts DEF InBody

LEMMA TargetsStep ==
    ASSUME Core, Alone, NoRequest, Targets, Pending, [Next]_vars
    PROVE  Targets'
<1> SUFFICES ASSUME Undisturbed' PROVE \A v \in Workers : HasTargets(worker[v])'
  BY DEF Targets
<1>1. /\ Undisturbed /\ OneAtATime /\ spent.requests = 0 /\ spent'.requests = 0
      /\ \A v \in Workers : HasTargets(worker[v])
  BY Earlier DEF Targets, Undisturbed
<1>2. CASE Housekeeping
  <2>1. \A m \in Rows : Eligible(m) => Eligible(m)'
    BY <1>2 DEF Housekeeping, Eligible
  <2>2. ASSUME NEW v \in Workers PROVE HasTargets(worker[v])'
    <3>1. /\ worker[v].rows \subseteq Rows /\ worker[v].todo \subseteq Rows
          /\ worker[v].bad \subseteq Rows
      BY ThreadFacts
    <3>2. CASE worker'[v] = worker[v]
      BY <1>1, <2>1, <3>1, <3>2 DEF HasTargets
    <3>3. CASE worker'[v].at \in {"idle", "select", "stage", "list", "raised", "failed", "load"}
      BY <3>3 DEF HasTargets
    <3> QED
      BY <1>2, <3>2, <3>3 DEF Housekeeping
  <2> QED
    BY <2>2
<1>3. ASSUME NEW w \in Workers, Advance(w), SubmitStep(w) \/ StageStep(w) \/ LoadStep(w)
      PROVE  \A v \in Workers : HasTargets(worker[v])'
  <2>1. HasTargets(worker[w])'
    <3>1. CASE StageStep(w)
      <4>1. HasPending(worker[w])
        BY <1>1, <3>1, Bodies, Solo DEF Pending
      <4> QED
        BY <1>1, <3>1, <4>1, StageTargets
    <3>2. CASE SubmitStep(w) \/ LoadStep(w)
      BY <3>2, Bodies DEF HasTargets, SubmitAt, LoadAt, Outcome
    <3> QED
      BY <1>3, <3>1, <3>2
  <2> QED
    BY <1>1, <1>3, <2>1, TargetsMore
<1> QED
  BY <1>1, <1>2, <1>3, StepKinds, NoneAsks

\* No row becomes pending.
LEMMA NonePends ==
    ASSUME Core, NoRequest, spent'.requests = 0, [Next]_vars
    PROVE  \A m \in Rows : row'[m].stage = "pending" =>
              row[m].stage = "pending" /\ (row'[m].job = 0 => row[m].job = 0)
<1>1. Housekeeping => \A m \in Rows : row'[m].stage = "pending" =>
              row[m].stage = "pending" /\ (row'[m].job = 0 => row[m].job = 0)
  BY DEF Housekeeping
<1>2. ASSUME NEW w \in Workers, Advance(w)
      PROVE  \A m \in Rows : row'[m].stage = "pending" =>
                row[m].stage = "pending" /\ (row'[m].job = 0 => row[m].job = 0)
  BY <1>2 DEF Advance, RowMoves
<1> QED
  BY <1>1, <1>2, StepKinds, NoneAsks

LEMMA PendingStep ==
    ASSUME Core, Alone, NoRequest, Targets, Pending, [Next]_vars
    PROVE  Pending'
<1>. DEFINE Left == /\ \A v \in Workers : worker'[v].task = Stage(1) => HasPending(worker[v])'
                    /\ task'[Stage(1)] \in Ended => \A m \in Rows : row'[m].stage # "pending"
<1> SUFFICES ASSUME Undisturbed' PROVE Left
  BY DEF Pending
<1>1. /\ Undisturbed /\ OneAtATime /\ spent.requests = 0 /\ spent'.requests = 0
      /\ \A v \in Workers : worker[v].task = Stage(1) => HasPending(worker[v])
      /\ task[Stage(1)] \in Ended => \A m \in Rows : row[m].stage # "pending"
      /\ \A m \in Rows : row'[m].stage = "pending" => row[m].stage = "pending"
  BY Earlier, NonePends DEF Pending, Undisturbed
<1>2. Stage(1) \in Tasks /\ Submit # Stage(1) /\ \A i \in Exports : Load(i) # Stage(1)
  BY ConstantFacts, TaskFacts
<1>3. ASSUME NEW v \in Workers, worker'[v] = worker[v], worker[v].task = Stage(1)
      PROVE  HasPending(worker[v])'
  BY <1>1, <1>3 DEF HasPending
<1>4. ASSUME worker' = worker, task'[Stage(1)] = task[Stage(1)] \/ task'[Stage(1)] = "pending"
      PROVE  Left
  BY <1>1, <1>3, <1>4 DEF Ended
<1>5. CASE EnqueueSubmit \/ EnqueueFails \/ FormDies
  <2>1. worker' = worker
    BY <1>5, FormKeeps
  <2>2. task'[Stage(1)] = task[Stage(1)]
    BY <1>2, <1>5, CoreFacts DEF EnqueueSubmit, EnqueueFails, FormDies
  <2> QED
    BY <1>4, <2>1, <2>2
<1>6. ASSUME NEW w \in Workers, NEW t \in Tasks, Claim(w, t) PROVE Left
  <2>1. HasPending(worker[w])'
    BY <1>6, ClaimEffect DEF HasPending, Ended
  <2>2. task'[Stage(1)] = task[Stage(1)] \/ task'[Stage(1)] = "running"
    BY <1>2, <1>6, ClaimEffect DEF TaskIs
  <2> QED
    BY <1>1, <1>3, <1>6, <2>1, <2>2, ClaimEffect DEF Taken, Ended
<1>7. ASSUME NEW w \in Workers, Complete(w) PROVE Left
  <2>1. \A v \in Workers : worker'[v].task = Stage(1) => HasPending(worker[v])'
    BY <1>2, <1>3, <1>7, CompleteEffect, IdleFacts, TaskFacts DEF Freed
  <2>2. CASE worker[w].task # Stage(1)
    BY <1>1, <1>2, <1>7, <2>1, <2>2, CompleteEffect DEF TaskIs
  <2>3. CASE worker[w].task = Stage(1) /\ worker[w].at \in Ended
    <3>1. \A m \in Rows : row[m].stage # "pending"
      BY <1>1, <1>7, <2>3, CompleteEffect DEF HasPending
    <3> QED
      BY <1>1, <2>1, <3>1
  <2>5. CASE worker[w].task = Stage(1) /\ worker[w].at \notin Ended
    <3>1. task'[Stage(1)] \in {"raised", task[Stage(1)]}
      BY <1>7, <2>5, CompleteEffect DEF TaskIs, Outcome, Ended
    <3> QED
      BY <1>1, <2>1, <3>1 DEF Ended
  <2> QED
    BY <2>2, <2>3, <2>5
<1>8. ASSUME NEW w \in Workers, Crash(w) \/ Raises(w) \/ StampLost(w) PROVE Left
  <2>1. CASE Crash(w)
    <3>1. Freed(w) /\ task' = task
      BY <2>1, Frees DEF Crash
    <3> QED
      BY <1>1, <1>2, <1>3, <3>1, IdleFacts, TaskFacts DEF Freed
  <2>2. CASE Raises(w) \/ StampLost(w)
    <3>1. task' = task /\ \A v \in Workers \ {w} : worker'[v] = worker[v]
      BY <2>2, DropEffect
    <3>2. worker'[w].at = "raised" => HasPending(worker[w])'
      BY DEF HasPending, Ended
    <3>3. worker[w].at = "refused" => worker'[w].task # Stage(1)
      BY <1>1, <1>2, <2>2, DropEffect, Solo DEF LoadAt
    <3> QED
      BY <1>1, <1>3, <2>2, <3>1, <3>2, <3>3, DropEffect
  <2> QED
    BY <1>8, <2>1, <2>2
<1>9. ASSUME NEW t \in Tasks, Reclaim(t) PROVE Left
  <2>1. worker' = worker /\ TaskIs(t, "pending")
    BY <1>9, TaskSets DEF Reclaim, TaskStatus
  <2> QED
    BY <1>2, <1>4, <2>1 DEF TaskIs
<1>10. ASSUME NEW i \in Exports, NEW st \in {"FINISHED", "FAILED"}, TrackExport(i, st) PROVE Left
  <2>1. /\ worker' = worker
        /\ TaskIs(Stage(i), IF task[Stage(i)] = "absent" THEN "pending" ELSE task[Stage(i)])
    BY <1>10, TrackExportEffect
  <2> QED
    BY <1>2, <1>4, <2>1 DEF TaskIs
<1>11. ASSUME NEW w \in Workers, SubmitStep(w) \/ StageStep(w) \/ LoadStep(w) PROVE Left
  <2>1. Advance(w)
    BY <1>11, SubmitAdvance, StageAdvance, LoadAdvance
  <2>2. task'[Stage(1)] = task[Stage(1)]
    BY <1>2, <2>1, RecordedFacts DEF Core, Advance, Armed
  <2>3. worker[w].task = Stage(1) => HasPending(worker[w])'
    <3>1. CASE StageStep(w)
      BY <1>1, <3>1, StageTargets DEF Targets
    <3>2. CASE SubmitStep(w) \/ LoadStep(w)
      BY <1>1, <1>2, <3>2, Bodies, Solo
    <3> QED
      BY <1>11, <3>1, <3>2
  <2>4. \A v \in Workers : worker'[v].task = Stage(1) => HasPending(worker[v])'
    BY <1>3, <2>1, <2>3 DEF Advance
  <2> QED
    BY <1>1, <2>2, <2>4
<1>12. CASE UNCHANGED vars
  <2>1. worker' = worker /\ task' = task
    BY <1>12 DEF vars
  <2> QED
    BY <1>4, <2>1
<1>. HIDE DEF Left
<1> QED
  BY <1>1, <1>5, <1>6, <1>7, <1>8, <1>9, <1>10, <1>11, <1>12, NoneAsks, NoneResubmits DEF Next

-----------------------------------------------------------------------------
(* What the submit job has still to do *)

\* Thread w has still to stamp row m.
Stamps(w, m) ==
    worker[w].task = Submit => \/ worker[w].at \in {"select", "failed", "raised"}
                               \/ worker[w].at \in SubmitAt /\ m \in worker[w].todo

LEMMA SubmitStamps ==
    ASSUME Core, NEW w \in Workers, SubmitStep(w), NEW m \in Rows, Stamps(w, m),
           row'[m].stage = "pending", row'[m].job = 0
    PROVE  Stamps(w, m)'
<1>1. worker'[w].task = worker[w].task /\ worker[w].task = Submit /\ row[m].stage = "pending" /\ row[m].job = 0
  BY SubmitAdvance, Bodies DEF Advance, RowMoves
<1>2. CASE SelectRows(w)
  BY <1>1, <1>2, SelectRowsEffect DEF Stamps, Turns, Becomes, SubmitAt
<1>3. CASE FindExport(w)
  BY <1>1, <1>3, FindExportEffect DEF FindExport, Stamps, Moves, Becomes, SubmitAt
<1>4. CASE AskExport(w)
  BY <1>1, <1>4, AskExportEffect DEF AskExport, Stamps, Moves, Becomes, SubmitAt
<1>5. CASE RecordExport(w)
  <2>1. worker[w].at = "record"
    BY <1>5 DEF RecordExport
  <2> QED
    BY <1>1, <1>5, <2>1, RecordExportEffect DEF Stamps, Becomes, SubmitAt
<1>6. CASE StampRow(w)
  <2>1. worker[w].at \in {"stamp", "reject"}
    BY <1>6 DEF StampRow
  <2>2. m # Next1(w)
    BY <1>1, <1>6, StampRowEffect, RecordedFacts, ConstantFacts DEF Core, RowIs
  <2>3. m \in Rest(w)
    BY <1>1, <2>1, <2>2 DEF Stamps, Rest, Next1
  <2>4. Loops(w, "succeeded")
    BY <1>6, StampRowEffect
  <2> QED
    BY <1>1, <2>1, <2>3, <2>4 DEF Stamps, Loops, Turns, Becomes, SubmitAt
<1> QED
  BY <1>2, <1>3, <1>4, <1>5, <1>6 DEF SubmitStep

LEMMA UnsubmittedStep ==
    ASSUME Core, Alone, NoRequest, Unsubmitted, [Next]_vars
    PROVE  Unsubmitted'
<1>. DEFINE Open == {"pending", "running", "failed", "raised"}
<1> SUFFICES ASSUME Undisturbed', form' = "done", NEW m \in Rows, row'[m].stage = "pending",
                    row'[m].job = 0
             PROVE  task'[Submit] \in Open /\ \A w \in Workers : Stamps(w, m)'
  BY DEF Unsubmitted, Stamps
<1>. DEFINE Left == task'[Submit] \in Open /\ \A w \in Workers : Stamps(w, m)'
<1>1. /\ Undisturbed /\ OneAtATime /\ spent'.requests = 0
      /\ row[m].stage = "pending" /\ row[m].job = 0
  BY Earlier, NonePends DEF Undisturbed
<1>2. form = "done" => task[Submit] \in Open /\ \A w \in Workers : Stamps(w, m)
  BY <1>1 DEF Unsubmitted, Stamps
<1>3. Submit \in Tasks /\ \A i \in Exports : Stage(i) # Submit /\ Load(i) # Submit
  BY TaskFacts
<1>4. ASSUME form' = form, worker' = worker, task'[Submit] \in {task[Submit], "pending"} PROVE Left
  BY <1>2, <1>4 DEF Stamps
<1>5. ASSUME EnqueueSubmit \/ EnqueueFails \/ FormDies PROVE Left
  <2>1. CASE EnqueueSubmit
    <3>1. task'[Submit] = "pending" /\ worker' = worker /\ \A w \in Workers : worker[w] = Idle
      BY <1>3, <2>1, CoreFacts DEF EnqueueSubmit, Core, Fresh
    <3> QED
      BY <3>1, IdleFacts, TaskFacts DEF Stamps
  <2>2. CASE EnqueueFails
    <3>1. row'[m].stage = "failed"
      BY <2>2, CoreFacts DEF EnqueueFails, Manifest
    <3> QED
      BY <3>1
  <2>3. CASE FormDies
    BY <2>3 DEF FormDies
  <2> QED
    BY <1>5, <2>1, <2>2, <2>3
<1>6. ASSUME NEW w \in Workers, NEW t \in Tasks, Claim(w, t) PROVE Left
  <2>1. form' = form
    BY <1>6 DEF Claim
  <2>2. Stamps(w, m)'
    BY <1>6, ClaimEffect, FirstSteps DEF Taken, Stamps
  <2>3. task'[Submit] \in {task[Submit], "running"}
    BY <1>3, <1>6, ClaimEffect DEF TaskIs
  <2> QED
    BY <1>2, <1>6, <2>1, <2>2, <2>3, ClaimEffect DEF Taken, Stamps
<1>7. ASSUME NEW w \in Workers, Complete(w) PROVE Left
  <2>1. form' = form
    BY <1>7 DEF Complete
  <2>2. \A v \in Workers : Stamps(v, m)'
    BY <1>2, <1>7, <2>1, CompleteEffect, IdleFacts, TaskFacts DEF Freed, Stamps
  <2>3. CASE worker[w].task # Submit
    BY <1>2, <1>3, <1>7, <2>1, <2>2, <2>3, CompleteEffect DEF TaskIs
  <2>4. CASE worker[w].task = Submit
    <3>1. worker[w].at \in {"failed", "raised"}
      BY <1>2, <1>7, <2>1, <2>4, CompleteEffect DEF Stamps, Outcome, SubmitAt
    <3> QED
      BY <1>2, <1>7, <2>1, <2>2, <2>4, <3>1, CompleteEffect DEF TaskIs
  <2> QED
    BY <2>3, <2>4
<1>8. ASSUME NEW w \in Workers, Crash(w) \/ Raises(w) \/ StampLost(w) PROVE Left
  <2>1. CASE Crash(w)
    <3>1. Freed(w) /\ task' = task /\ form' = form
      BY <2>1, Frees DEF Crash
    <3> QED
      BY <1>2, <3>1, IdleFacts, TaskFacts DEF Freed, Stamps
  <2>2. CASE Raises(w) \/ StampLost(w)
    <3>1. task' = task /\ form' = form /\ \A v \in Workers \ {w} : worker'[v] = worker[v]
      BY <2>2, DropEffect
    <3>2. worker[w].at = "refused" => worker'[w].task # Submit
      BY <1>1, <1>3, <2>2, DropEffect, Solo DEF LoadAt
    <3>3. Stamps(w, m)'
      BY <2>2, <3>2, DropEffect DEF Stamps
    <3> QED
      BY <1>2, <3>1, <3>3 DEF Stamps
  <2> QED
    BY <1>8, <2>1, <2>2
<1>9. ASSUME NEW t \in Tasks, Reclaim(t) PROVE Left
  <2>1. worker' = worker /\ TaskIs(t, "pending") /\ form' = form
    BY <1>9, TaskSets DEF Reclaim, TaskStatus
  <2> QED
    BY <1>3, <1>4, <2>1 DEF TaskIs
<1>10. ASSUME NEW i \in Exports, NEW st \in {"FINISHED", "FAILED"}, TrackExport(i, st) PROVE Left
  <2>1. /\ worker' = worker /\ form' = form
        /\ TaskIs(Stage(i), IF task[Stage(i)] = "absent" THEN "pending" ELSE task[Stage(i)])
    BY <1>10, TrackExportEffect
  <2> QED
    BY <1>3, <1>4, <2>1 DEF TaskIs
<1>11. ASSUME NEW w \in Workers, SubmitStep(w) \/ StageStep(w) \/ LoadStep(w) PROVE Left
  <2>1. Advance(w) /\ form' = form
    BY <1>11, SubmitAdvance, StageAdvance, LoadAdvance DEF Advance
  <2>2. task'[Submit] = task[Submit]
    BY <1>3, <2>1, RecordedFacts DEF Core, Advance, Armed
  <2>3. Stamps(w, m)'
    <3>1. CASE SubmitStep(w)
      BY <1>2, <2>1, <3>1, SubmitStamps
    <3>2. CASE StageStep(w) \/ LoadStep(w)
      <4>1. worker[w].task # Submit
        BY <1>1, <1>3, <3>2, Bodies, Solo
      <4> QED
        BY <2>1, <4>1 DEF Advance, Stamps
    <3> QED
      BY <1>11, <3>1, <3>2
  <2>4. \A v \in Workers : Stamps(v, m)'
    BY <1>2, <2>1, <2>3 DEF Advance, Stamps
  <2> QED
    BY <1>2, <2>1, <2>2, <2>4
<1>12. ASSUME UNCHANGED vars PROVE Left
  BY <1>4, <1>12 DEF vars
<1>. HIDE DEF Left
<1>13. Left
  BY <1>1, <1>5, <1>6, <1>7, <1>8, <1>9, <1>10, <1>11, <1>12, NoneAsks, NoneResubmits DEF Next
<1> QED
  BY <1>13 DEF Left

-----------------------------------------------------------------------------
(* Nobody's rows *)

\* What a thread of the load job, or of the stage job, has still to do for row m.
Loads(w, m) ==
    worker[w].task = Load(1) => \/ worker[w].at \in {"list", "failed", "raised"}
                                \/ /\ worker[w].at \in {"load", "catch", "refused"}
                                   /\ m \in worker[w].todo \cup worker[w].bad
Queues(w, m) ==
    worker[w].task = Stage(1) => \/ worker[w].at \in (StageAt \ {"enqueue", "no_load"}) \cup {"raised"}
                                 \/ worker[w].at \in {"enqueue", "no_load"} /\ m \in worker[w].todo

Some(m) == LoadWill(m) \/ StageWill(m) \/ GivenUp \/ \E n \in Rows : Rejected(n)

LEMMA WillFacts ==
    ASSUME NEW m
    PROVE  /\ LoadWill(m) <=> \/ task[Load(1)] = "pending"
                              \/ task[Load(1)] = "running" /\ \A w \in Workers : Loads(w, m)
           /\ StageWill(m) <=> \/ task[Stage(1)] = "pending"
                               \/ task[Stage(1)] = "running" /\ \A w \in Workers : Queues(w, m)
           /\ LoadWill(m)' <=> \/ task'[Load(1)] = "pending"
                               \/ task'[Load(1)] = "running" /\ \A w \in Workers : Loads(w, m)'
           /\ StageWill(m)' <=> \/ task'[Stage(1)] = "pending"
                                \/ task'[Stage(1)] = "running" /\ \A w \in Workers : Queues(w, m)'
BY DEF LoadWill, StageWill, Loads, Queues

\* A job whose one thread goes on is still the one to do it.
LEMMA StageGoesOn ==
    ASSUME Core, Alone, OneAtATime, NEW w \in Workers, NEW m \in Rows, Advance(w),
           worker[w].at \in StageAt, Queues(w, m)'
    PROVE  StageWill(m)'
<1>1. /\ task[Stage(1)] = "running" /\ worker[w].task = Stage(1) /\ Stage(1) # Load(1)
      /\ \A v \in Workers : worker[v].task = Stage(1) => v = w
      /\ worker[w].task # Nobody
  <2>1. worker[w].at # "idle"
    BY DEF StageAt
  <2> QED
    BY <2>1, Solo, TaskFacts
<1>2. task'[Stage(1)] = "running"
  BY <1>1, Solo, TaskFacts DEF Advance, Armed
<1>3. \A v \in Workers \ {w} : worker'[v].task # Stage(1)
  BY <1>1 DEF Advance
<1>4. \A v \in Workers : Queues(v, m)'
  BY <1>3 DEF Queues
<1> QED
  BY <1>2, <1>4, WillFacts

LEMMA LoadGoesOn ==
    ASSUME Core, Alone, OneAtATime, NEW w \in Workers, NEW m \in Rows, Advance(w),
           worker[w].at \in LoadAt, Loads(w, m)'
    PROVE  LoadWill(m)'
<1>1. /\ task[Load(1)] = "running" /\ worker[w].task = Load(1)
      /\ \A v \in Workers : worker[v].task = Load(1) => v = w
  <2>1. worker[w].at # "idle"
    BY DEF LoadAt
  <2> QED
    BY <2>1, Solo
<1>2. task'[Load(1)] = "running"
  <2>1. worker[w].at # "enqueue"
    BY DEF LoadAt
  <2> QED
    BY <1>1, <2>1 DEF Advance
<1>3. \A v \in Workers \ {w} : worker'[v].task # Load(1)
  BY <1>1 DEF Advance
<1>4. \A v \in Workers : Loads(v, m)'
  BY <1>3 DEF Loads
<1> QED
  BY <1>2, <1>4, WillFacts

\* What the other jobs have to do is not touched.
LEMMA StageStands ==
    ASSUME Core, Alone, OneAtATime, NEW w \in Workers, NEW m \in Rows, Advance(w),
           worker[w].at \notin StageAt, StageWill(m)
    PROVE  StageWill(m)'
<1>1. worker[w].task # Stage(1)
  <2>1. InBody(worker[w], Recorded) /\ 1 \in Exports
    BY ThreadFacts, Solo
  <2>2. worker[w].at \in SubmitAt \cup LoadAt
    BY DEF Advance
  <2> QED
    BY <2>1, <2>2, Solo, TaskFacts DEF InBody
<1>2. \A v \in Workers : Queues(v, m) => Queues(v, m)'
  BY <1>1 DEF Advance, Queues
<1>3. task' = task
  BY DEF Advance, StageAt
<1> QED
  BY <1>2, <1>3, WillFacts

LEMMA LoadStands ==
    ASSUME Core, Alone, OneAtATime, NEW w \in Workers, NEW m \in Rows, Advance(w),
           worker[w].at \notin LoadAt, LoadWill(m)
    PROVE  LoadWill(m)'
<1>1. worker[w].task # Load(1)
  <2>1. InBody(worker[w], Recorded) /\ 1 \in Exports
    BY ThreadFacts, Solo
  <2>2. worker[w].at \in SubmitAt \cup StageAt
    BY DEF Advance
  <2> QED
    BY <2>1, <2>2, Solo, TaskFacts DEF InBody
<1>2. \A v \in Workers : Loads(v, m) => Loads(v, m)'
  BY <1>1 DEF Advance, Loads
<1>3. task'[Load(1)] = task[Load(1)]
  <2>1. task[Load(1)] \in {"pending", "running"} /\ Load(1) \in Tasks
    BY Solo, TaskFacts DEF LoadWill
  <2>2. CASE task' = task
    BY <2>2
  <2>3. CASE worker[w].job \in Recorded /\ Armed(Load(worker[w].job))
    BY <2>1, <2>3, Solo DEF Armed
  <2> QED
    BY <2>2, <2>3 DEF Advance
<1> QED
  BY <1>2, <1>3, WillFacts

LEMMA GivenUpStands ==
    ASSUME Core, Alone, OneAtATime, NEW w \in Workers, Advance(w), GivenUp,
           task' = task \/ worker[w].at # "enqueue"
    PROVE  GivenUp'
BY DEF Advance, GivenUp

LEMMA RejectedStands ==
    ASSUME Core', NEW w \in Workers, Advance(w), NEW n \in Rows, Rejected(n),
           worker[w].at # "staged"
    PROVE  Rejected(n)'
<1>1. row'[n] \in Manifest
  BY DEF Core, Typed
<1>2. row'[n].stage \in {"pending", "failed", "staged"}
  BY <1>1 DEF Manifest
<1> QED
  BY <1>2 DEF Advance, RowMoves, Rejected

LEMMA StageLeaves ==
    ASSUME Core, Core', Alone, OneAtATime, NoRequest, spent.requests = 0, NEW w \in Workers,
           StageStep(w), HasTargets(worker[w]), NEW m \in Rows, Staged(m)', ~ loads'.late,
           Staged(m) => Some(m)
    PROVE  Some(m)'
<1>1. /\ Advance(w) /\ worker[w].at \in StageAt
      /\ worker[w].task = Stage(1) /\ worker[w].job = 1
      /\ task[Stage(1)] = "running" /\ worker'[w].task = Stage(1)
  <2>1. Advance(w) /\ worker[w].at \in StageAt
    BY StageAdvance, Bodies
  <2>2. worker[w].at # "idle"
    BY <2>1 DEF StageAt
  <2> QED
    BY <2>1, <2>2, Solo DEF Advance
<1>2. /\ \A n \in Rows : ~ row[n].closed
      /\ worker[w].at # "staged" => Staged(m)
  BY <1>1 DEF NoRequest, Advance, RowMoves, Staged
<1>3. ASSUME worker'[w].at \in StageAt \ {"enqueue", "no_load"} PROVE Some(m)'
  BY <1>1, <1>3, StageGoesOn DEF Queues, Some
<1>4. ASSUME worker'[w].at \in {"enqueue", "no_load"}, m \in worker'[w].todo PROVE Some(m)'
  BY <1>1, <1>4, StageGoesOn DEF Queues, Some
<1>5. CASE ReadTargets(w)
  <2>1. CASE AllLoaded
    <3>1. row' = row
      BY <1>5 DEF ReadTargets
    <3> QED
      BY <2>1, <3>1 DEF Staged, AllLoaded
  <2>2. CASE ~ AllLoaded
    <3>1. worker'[w].at \in {"reread", "discard"}
      BY <1>5, <2>2, ReadTargetsEffect DEF Becomes
    <3> QED
      BY <1>3, <3>1 DEF StageAt
  <2> QED
    BY <2>1, <2>2
<1>6. CASE Discard(w) \/ FetchArchive(w) \/ ForgetArchive(w) \/ StampFacts(w)
  <2>1. worker'[w].at \in {"discard", "check", "facts", "unstage", "open"}
    BY <1>6, DiscardEffect, FetchArchiveEffect, ForgetArchiveEffect, StampFactsEffect
    DEF Discard, Loops, Turns, Moves, Becomes
  <2> QED
    BY <1>3, <2>1 DEF StageAt
<1>7. CASE OpenFile(w) \/ UploadFile(w) \/ MarkStaged(w) \/ StageFails(w)
  <2>1. worker'[w].at \in {"open", "upload", "staged", "unstage", "reread", "missing"}
    BY <1>7, OpenFileEffect, UploadFileEffect, MarkStagedEffect, StageFailsEffect
    DEF Targeted, Moves, Becomes
  <2> QED
    BY <1>3, <2>1 DEF StageAt
<1>8. CASE FailMissing(w)
  <2>1. worker'[w].at \in {"missing", "reread"}
    BY <1>8, FailMissingEffect DEF FailMissing, Loops, Turns, Becomes
  <2> QED
    BY <1>3, <2>1 DEF StageAt
<1>9. CASE ReadUnstaged(w)
  <2>1. StageEligible # {}
    BY <1>2, <1>9 DEF ReadUnstaged, HasTargets, StageEligible, Eligible
  <2>2. worker'[w].at = "fail"
    BY <1>9, <2>1, ReadUnstagedEffect DEF Turns, Becomes
  <2> QED
    BY <1>3, <2>2 DEF StageAt
<1>10. CASE FailUnstaged(w)
  <2>1. PICK n \in Rows : n = Next1(w)
    BY <1>10, FailUnstagedEffect
  <2>2. worker[w].at = "fail" /\ n \in worker[w].todo /\ RowIs(n, "failed", row[n].load, row[n].job)
    BY <1>10, <2>1, FailUnstagedEffect DEF FailUnstaged
  <2>3. Rejected(n)'
    BY <2>2 DEF HasTargets, Eligible, Rejected, RowIs
  <2> QED
    BY <2>3 DEF Some
<1>11. CASE ReadLoadable(w)
  <2>1. m \in LoadEligible
    BY <1>2, <1>11 DEF ReadLoadable, Staged, LoadEligible, Claimable
  <2>2. worker'[w].at = "enqueue" /\ m \in worker'[w].todo
    BY <1>11, <2>1, ReadLoadableEffect DEF Turns, Becomes
  <2> QED
    BY <1>4, <2>2
<1>12. CASE EnqueueLoad(w)
  <2>0. worker[w].at = "enqueue" /\ row' = row
    BY <1>12 DEF EnqueueLoad
  <2>1. CASE Armed(Load(1)) /\ loads'.late = (loads.late \/ task[Load(1)] = "running")
    BY <2>1, WillFacts DEF Armed, Some
  <2>2. CASE Moves(w, "no_load") /\ task' = task /\ loads' = loads
    <3>1. Some(m)
      BY <1>2, <2>0
    <3>2. CASE LoadWill(m)
      <4>1. worker[w].at \notin LoadAt
        BY <2>0 DEF LoadAt
      <4> QED
        BY <1>1, <3>2, <4>1, LoadStands DEF Some
    <3>3. CASE StageWill(m)
      <4>1. m \in worker[w].todo
        BY <1>1, <2>0, <3>3 DEF StageWill
      <4> QED
        BY <1>4, <2>2, <4>1 DEF Moves, Becomes
    <3>4. CASE \E n \in Rows : Rejected(n)
      BY <1>1, <2>0, <3>4, RejectedStands DEF Some
    <3>5. CASE GivenUp
      BY <1>1, <2>2, <3>5, GivenUpStands DEF Some
    <3> QED
      BY <3>1, <3>2, <3>3, <3>4, <3>5 DEF Some
  <2> QED
    BY <1>1, <1>12, <2>1, <2>2, EnqueueLoadEffect
<1>13. CASE FailUnqueued(w)
  <2>0. /\ worker[w].at = "no_load" /\ Loops(w, "failed")
        /\ row'[Next1(w)].load = "failed"
    BY <1>13, FailUnqueuedEffect DEF FailUnqueued, RowIs
  <2>1. Some(m) /\ m # Next1(w)
    BY <1>2, <2>0 DEF Staged
  <2>2. CASE LoadWill(m)
    <3>1. worker[w].at \notin LoadAt
      BY <2>0 DEF LoadAt
    <3> QED
      BY <1>1, <2>2, <3>1, LoadStands DEF Some
  <2>3. CASE StageWill(m)
    <3>1. m \in Rest(w)
      BY <1>1, <2>0, <2>1, <2>3 DEF StageWill, Rest, Next1
    <3> QED
      BY <1>4, <2>0, <3>1 DEF Loops, Turns, Becomes
  <2>4. CASE \E n \in Rows : Rejected(n)
    BY <1>1, <2>0, <2>4, RejectedStands DEF Some
  <2>5. CASE GivenUp
    BY <1>1, <2>0, <2>5, GivenUpStands DEF Some
  <2> QED
    BY <2>1, <2>2, <2>3, <2>4, <2>5 DEF Some
<1> QED
  BY <1>5, <1>6, <1>7, <1>8, <1>9, <1>10, <1>11, <1>12, <1>13 DEF StageStep

LEMMA LoadLeaves ==
    ASSUME Core, Core', Alone, OneAtATime, NoRequest, spent.requests = 0, NEW w \in Workers,
           LoadStep(w), NEW m \in Rows, Staged(m)', Staged(m) => Some(m)
    PROVE  Some(m)'
<1>1. /\ Advance(w) /\ worker[w].at \in LoadAt
      /\ worker[w].task = Load(1) /\ worker'[w].task = Load(1)
      /\ worker[w].at \notin StageAt /\ worker[w].at # "staged"
  <2>1. Advance(w) /\ worker[w].at \in LoadAt
    BY LoadAdvance, Bodies
  <2> QED
    BY <2>1, Solo DEF Advance, LoadAt, StageAt
<1>2. (\A n \in Rows : ~ row[n].closed) /\ Staged(m)
  BY <1>1 DEF NoRequest, Advance, RowMoves, Staged
<1>3. ASSUME Loads(w, m)' PROVE Some(m)'
  BY <1>1, <1>3, LoadGoesOn DEF Some
<1>4. CASE ListLoadable(w)
  <2>1. ~ AllLoaded /\ m \in LoadEligible
    BY <1>2 DEF Staged, AllLoaded, LoadEligible, Claimable
  <2>2. worker'[w].at = "load" /\ m \in worker'[w].todo
    BY <1>4, <2>1, ListLoadableEffect DEF Turns, Becomes
  <2> QED
    BY <1>3, <2>2 DEF Loads
<1>5. CASE ~ ListLoadable(w)
  <2>1. worker[w].at \in {"load", "catch", "refused"}
    BY <1>5 DEF LoadStep, LoadRow, LoadRowFails, CatchLoad, StampRefused
  <2>2. CASE m \in worker[w].todo \cup worker[w].bad
    <3>1. CASE LoadRow(w)
      <4>1. m # Next1(w) /\ Loops(w, LoadOutcome(w)) /\ worker[w].at = "load"
        BY <3>1, LoadRowEffect DEF LoadRow, Staged, RowIs
      <4>2. m \in Rest(w) \/ (m \in worker[w].bad /\ LoadOutcome(w) = "failed")
        BY <2>2, <4>1 DEF Rest, Next1, LoadOutcome
      <4> QED
        BY SMTT(60), <1>3, <4>1, <4>2 DEF Loads, Loops, Turns, Becomes
    <3>2. CASE LoadRowFails(w) \/ CatchLoad(w)
      <4>1. /\ worker'[w].at \in {"refused", "catch"} /\ worker'[w].todo = worker[w].todo
            /\ worker'[w].bad = worker[w].bad
        BY <3>2, LoadRowFailsEffect, CatchLoadEffect DEF Moves, Becomes
      <4> QED
        BY <1>3, <2>2, <4>1 DEF Loads
    <3>3. CASE StampRefused(w)
      <4>1. m # Next1(w)
        BY <3>3, StampRefusedEffect DEF Staged, RowIs
      <4>2. m \in Rest(w) \cup worker[w].bad
        BY <2>2, <4>1 DEF Rest, Next1
      <4>3. /\ worker'[w].at \in {"load", "failed"} /\ worker'[w].todo = Rest(w)
            /\ worker[w].bad \subseteq worker'[w].bad
        BY <3>3, StampRefusedEffect DEF Becomes
      <4> QED
        BY <1>3, <4>2, <4>3 DEF Loads
    <3> QED
      BY <1>5, <3>1, <3>2, <3>3 DEF LoadStep
  <2>3. CASE m \notin worker[w].todo \cup worker[w].bad
    <3>1. ~ LoadWill(m)
      <4>1. task[Load(1)] = "running"
        BY <1>1, Solo, TaskFacts
      <4> QED
        BY <1>1, <2>1, <2>3, <4>1 DEF LoadWill
    <3>2. worker[w].at # "enqueue"
      BY <2>1
    <3> QED
      BY <1>1, <1>2, <3>1, <3>2, StageStands, GivenUpStands, RejectedStands DEF Some
  <2> QED
    BY <2>2, <2>3
<1> QED
  BY <1>4, <1>5

LEMMA SubmitLeaves ==
    ASSUME Core, Core', Alone, OneAtATime, NEW w \in Workers, SubmitStep(w), NEW m \in Rows,
           Staged(m)', Staged(m) => Some(m)
    PROVE  Some(m)'
<1>1. /\ Advance(w) /\ worker[w].at \notin StageAt /\ worker[w].at \notin LoadAt
      /\ worker[w].at # "staged"
  BY SubmitAdvance, Bodies DEF SubmitAt, StageAt, LoadAt
<1>2. Staged(m)
  BY <1>1 DEF Advance, RowMoves, Staged
<1>3. worker[w].at # "enqueue"
  BY <1>1 DEF StageAt
<1> QED
  BY <1>1, <1>2, <1>3, StageStands, LoadStands, GivenUpStands, RejectedStands DEF Some

LEMMA LeftToSomeStep ==
    ASSUME Core, Core', Alone, NoRequest, Targets, LeftToSome, [Next]_vars
    PROVE  LeftToSome'
<1> SUFFICES ASSUME Undisturbed', ~ loads'.late, NEW m \in Rows, Staged(m)' PROVE Some(m)'
  BY DEF LeftToSome, Some
<1>1. /\ Undisturbed /\ OneAtATime /\ spent.requests = 0 /\ spent'.requests = 0
      /\ Staged(m) => Some(m)
      /\ \A w \in Workers : HasTargets(worker[w])
  BY Earlier DEF Undisturbed, LeftToSome, Some, Targets
<1>2. 1 \in Exports /\ Stage(1) \in Tasks /\ Load(1) \in Tasks /\ Stage(1) # Load(1)
  BY ConstantFacts, TaskFacts
<1>3. Exclusive
  BY <1>1 DEF OneAtATime, Alone
<1>4. CASE EnqueueSubmit \/ EnqueueFails \/ FormDies
  <2>1. Housekeeping /\ \A n \in Rows : row[n].stage = "pending"
    BY <1>4, FormKeeps DEF Core, Fresh
  <2> QED
    BY <2>1 DEF Housekeeping, Staged
<1>5. ASSUME NEW w \in Workers, SubmitStep(w) \/ StageStep(w) \/ LoadStep(w) PROVE Some(m)'
  BY <1>1, <1>5, SubmitLeaves, StageLeaves, LoadLeaves
<1>6. ASSUME row' = row, LoadWill(m) => LoadWill(m)' \/ GivenUp',
             StageWill(m) => StageWill(m)' \/ GivenUp', GivenUp => GivenUp' \/ LoadWill(m)'
      PROVE  Some(m)'
  BY <1>1, <1>6 DEF Some, Staged, Rejected
<1>7. ASSUME NEW w \in Workers, NEW t \in Tasks, Claim(w, t) PROVE Some(m)'
  <2>1. /\ row' = row /\ task[t] = "pending" /\ TaskIs(t, "running") /\ Taken(w, t)
        /\ worker[w] = Idle
    BY <1>7, ClaimEffect DEF Claim
  <2>2. \A v \in Workers : worker[v].task # t
    BY <1>3, <2>1, TaskFacts DEF Exclusive
  <2>3. LoadWill(m) => LoadWill(m)'
    <3>1. CASE t = Load(1)
      <4>1. worker'[w].at = "list" /\ \A v \in Workers \ {w} : worker'[v].task # Load(1)
        BY <1>2, <2>1, <2>2, <3>1, FirstSteps DEF Taken
      <4>2. task'[Load(1)] = "running" /\ \A v \in Workers : Loads(v, m)'
        BY <2>1, <3>1, <4>1 DEF TaskIs, Loads
      <4> QED
        BY <4>2, WillFacts
    <3>2. CASE t # Load(1)
      <4>1. task'[Load(1)] = task[Load(1)] /\ \A v \in Workers : Loads(v, m) => Loads(v, m)'
        BY <1>2, <2>1, <3>2 DEF TaskIs, Taken, Loads
      <4> QED
        BY <4>1, WillFacts
    <3> QED
      BY <3>1, <3>2
  <2>4. StageWill(m) => StageWill(m)'
    <3>1. CASE t = Stage(1)
      <4>1. worker'[w].at = "stage" /\ \A v \in Workers \ {w} : worker'[v].task # Stage(1)
        BY <1>2, <2>1, <2>2, <3>1, FirstSteps DEF Taken
      <4>2. task'[Stage(1)] = "running" /\ \A v \in Workers : Queues(v, m)'
        BY <2>1, <3>1, <4>1 DEF TaskIs, Queues, StageAt
      <4> QED
        BY <4>2, WillFacts
    <3>2. CASE t # Stage(1)
      <4>1. task'[Stage(1)] = task[Stage(1)] /\ \A v \in Workers : Queues(v, m) => Queues(v, m)'
        BY <1>2, <2>1, <3>2 DEF TaskIs, Taken, Queues
      <4> QED
        BY <4>1, WillFacts
    <3> QED
      BY <3>1, <3>2
  <2>5. GivenUp => GivenUp'
    BY <1>2, <2>1 DEF GivenUp, TaskIs
  <2> QED
    BY <1>6, <2>1, <2>3, <2>4, <2>5
<1>8. ASSUME NEW w \in Workers, Freed(w) PROVE /\ \A v \in Workers : Loads(v, m) => Loads(v, m)'
                                               /\ \A v \in Workers : Queues(v, m) => Queues(v, m)'
  BY <1>2, <1>8, IdleFacts, TaskFacts DEF Freed, Loads, Queues
<1>9. ASSUME NEW w \in Workers, Complete(w) PROVE Some(m)'
  <2>1. /\ row' = row /\ Freed(w) /\ worker[w].at \in Outcome /\ worker[w].task \in Tasks
        /\ task[worker[w].task] = "running"
        /\ task'[worker[w].task] = worker[w].at
        /\ \A t \in Tasks \ {worker[w].task} : task'[t] = task[t]
    BY ZenonT(60), <1>3, <1>9, CompleteEffect, TaskFacts DEF Complete, Exclusive, TaskIs
  <2>2. LoadWill(m) => LoadWill(m)' \/ GivenUp'
    <3>1. CASE worker[w].task = Load(1)
      BY <2>1, <3>1 DEF LoadWill, Outcome, GivenUp
    <3>2. CASE worker[w].task # Load(1)
      BY <1>2, <1>8, <2>1, <3>2, WillFacts
    <3> QED
      BY <3>1, <3>2
  <2>3. StageWill(m) => StageWill(m)' \/ GivenUp'
    <3>1. CASE worker[w].task = Stage(1)
      BY <2>1, <3>1 DEF StageWill, StageAt, Outcome, GivenUp
    <3>2. CASE worker[w].task # Stage(1)
      BY <1>2, <1>8, <2>1, <3>2, WillFacts
    <3> QED
      BY <3>1, <3>2
  <2>4. GivenUp => GivenUp'
    BY <1>2, <2>1 DEF GivenUp
  <2> QED
    BY <1>6, <2>1, <2>2, <2>3, <2>4
<1>10. ASSUME NEW w \in Workers, Crash(w) \/ Raises(w) \/ StampLost(w) PROVE Some(m)'
  <2>1. row' = row /\ task' = task
    BY <1>10, DropEffect DEF Crash
  <2>2. CASE Crash(w)
    <3>1. Freed(w)
      BY <2>2, Frees DEF Crash
    <3> QED
      BY <1>6, <1>8, <2>1, <3>1, WillFacts DEF GivenUp
  <2>3. CASE Raises(w) \/ StampLost(w)
    <3>1. /\ worker'[w].task = worker[w].task /\ \A v \in Workers \ {w} : worker'[v] = worker[v]
      BY <2>3, DropEffect
    <3>2. worker'[w].at = "raised" => Loads(w, m)' /\ Queues(w, m)'
      BY DEF Loads, Queues
    <3>3. ASSUME worker[w].at = "refused"
          PROVE  (Loads(w, m) => Loads(w, m)') /\ Queues(w, m)'
      <4>1. worker'[w].task # Stage(1)
        BY <1>1, <1>2, <3>1, <3>3, Solo DEF LoadAt
      <4>2. /\ worker'[w].at \in {"raised", "failed", "load"}
            /\ worker'[w].at = "load" =>
                  worker[w].todo \cup worker[w].bad \subseteq worker'[w].todo \cup worker'[w].bad
        BY <2>3, DropEffect
      <4> QED
        BY <3>1, <3>3, <4>1, <4>2 DEF Loads, Queues
    <3>4. (Loads(w, m) => Loads(w, m)') /\ (Queues(w, m) => Queues(w, m)')
      BY <2>3, <3>2, <3>3, DropEffect
    <3>5. ASSUME NEW v \in Workers
          PROVE  (Loads(v, m) => Loads(v, m)') /\ (Queues(v, m) => Queues(v, m)')
      <4>1. CASE v = w
        BY <3>4, <4>1
      <4>2. CASE v # w
        BY <3>1, <4>2 DEF Loads, Queues
      <4> QED
        BY <4>1, <4>2
    <3> QED
      BY <1>6, <2>1, <3>5, WillFacts DEF GivenUp
  <2> QED
    BY <1>10, <2>2, <2>3
<1>11. ASSUME worker' = worker, row' = row, GivenUp => GivenUp' \/ LoadWill(m)',
              task'[Load(1)] = task[Load(1)] \/ task'[Load(1)] = "pending",
              task'[Stage(1)] = task[Stage(1)] \/ task'[Stage(1)] = "pending"
       PROVE  Some(m)'
  <2>1. LoadWill(m) => LoadWill(m)'
    BY <1>11, WillFacts DEF Loads
  <2>2. StageWill(m) => StageWill(m)'
    BY <1>11, WillFacts DEF Queues
  <2> QED
    BY <1>6, <1>11, <2>1, <2>2
<1>12. ASSUME NEW t \in Tasks, Reclaim(t) PROVE Some(m)'
  <2>1. worker' = worker /\ row' = row /\ TaskIs(t, "pending") /\ task[t] = "running"
    BY <1>12, TaskSets DEF Reclaim, TaskStatus
  <2> QED
    BY <1>2, <1>11, <2>1 DEF TaskIs, GivenUp
<1>13. ASSUME NEW i \in Exports, NEW st \in {"FINISHED", "FAILED"}, TrackExport(i, st)
       PROVE  Some(m)'
  <2>1. /\ worker' = worker /\ row' = row
        /\ TaskIs(Stage(i), IF task[Stage(i)] = "absent" THEN "pending" ELSE task[Stage(i)])
    BY <1>13, TrackExportEffect
  <2> QED
    BY <1>2, <1>11, <2>1 DEF TaskIs, GivenUp
<1>14. CASE UNCHANGED vars
  <2>1. worker' = worker /\ task' = task /\ row' = row
    BY <1>14 DEF vars
  <2> QED
    BY <1>11, <2>1 DEF GivenUp
<1> QED
  BY <1>1, <1>4, <1>5, <1>7, <1>9, <1>10, <1>12, <1>13, <1>14, NoneAsks, NoneResubmits DEF Next

-----------------------------------------------------------------------------
(* The theorems *)

LEMMA InductiveInit ==
    ASSUME Init
    PROVE  Inductive
<1>1. Core
  BY CoreInit
<1>2. /\ \A w \in Workers : worker[w] = Idle
      /\ \A t \in Tasks : task[t] = "absent"
      /\ \A m \in Rows : /\ row[m].stage = "pending" /\ row[m].load = "pending"
                         /\ row[m].job = 0 /\ ~ row[m].closed
                         /\ loads.took[m] = <<>>
      /\ \A a \in Analysts : request[a] = Unasked
      /\ exports = <<>> /\ form = "enqueue"
  BY DEF Init
<1>3. Alone /\ Tracked
  BY <1>2, IdleFacts DEF Alone, Exclusive, Tracked, Recorded
<1>4. CompleteLoads /\ NoRequest
  BY <1>2, IdleFacts
  DEF CompleteLoads, StagedIsFull, LoadedFull, LoadedOnce, KnowsLosses, NoRequest
<1>5. Targets /\ Pending /\ Unsubmitted /\ LeftToSome
  <2>1. Targets
    BY <1>2, IdleFacts DEF Targets, HasTargets
  <2>2. Pending
    <3>1. \A w \in Workers : worker[w].task # Stage(1)
      BY <1>2, IdleFacts, ConstantFacts, TaskFacts
    <3>2. task[Stage(1)] \notin Ended
      BY <1>2, ConstantFacts, TaskFacts DEF Ended
    <3> QED
      BY <3>1, <3>2 DEF Pending
  <2> QED
    BY <1>2, <2>1, <2>2 DEF Unsubmitted, LeftToSome, Staged
<1> QED
  BY <1>1, <1>3, <1>4, <1>5 DEF Inductive, Core

LEMMA InductiveStep ==
    ASSUME Inductive, [Next]_vars
    PROVE  Inductive'
<1>1. /\ Core /\ Alone /\ Tracked /\ CompleteLoads /\ NoRequest /\ Targets /\ Pending
      /\ Unsubmitted /\ LeftToSome
  BY DEF Inductive, Core
<1>2. Core'
  BY <1>1, CoreStep
<1>3. /\ Alone' /\ Tracked' /\ CompleteLoads' /\ NoRequest' /\ Targets' /\ Pending'
      /\ Unsubmitted' /\ LeftToSome'
  BY <1>1, <1>2, AloneStep, TrackedStep, CompleteLoadsStep, NoRequestStep, TargetsStep, PendingStep,
     UnsubmittedStep, LeftToSomeStep
<1> QED
  BY <1>2, <1>3 DEF Inductive, Core

\* The invariant is inductive: whatever the interleaving, it holds in every state.
THEOREM AlwaysInductive == Spec => []Inductive
<1>1. Init => Inductive
  BY InductiveInit
<1>2. Inductive /\ [Next]_vars => Inductive'
  BY InductiveStep
<1> QED
  BY <1>1, <1>2, PTL DEF Spec

\* The state keeps its types, and a row's export is one that irp_job records.
THEOREM TypeCorrect == Spec => []TypeOK
<1>1. Inductive => TypeOK
  <2> SUFFICES ASSUME Inductive PROVE TypeOK
    OBVIOUS
  <2>1. /\ Typed /\ Counted /\ Keyed
    BY DEF Inductive
  <2>2. Len(exports) <= MaxExports
    <3>1. Recorded = 1..Len(exports) /\ Recorded \subseteq 1..MaxExports /\ Len(exports) \in Nat
      BY <2>1, RecordedFacts, ConstantFacts
    <3> QED
      BY <3>1, ConstantFacts
  <2> QED
    BY <2>1, <2>2 DEF Typed, Keyed, Recorded, TypeOK
<1> QED
  BY <1>1, AlwaysInductive, PTL

\* A load copies all the losses of its row, and does so once until an analyst
\* asks for a Retry.
THEOREM LoadsComplete == Spec => []LoadsAreComplete
<1>1. Inductive => LoadsAreComplete
  BY DEF Inductive, CompleteLoads, LoadedFull, LoadedOnce, LoadsAreComplete
<1> QED
  BY <1>1, AlwaysInductive, PTL

\* When the jobs of an export are over and a row of it is not loaded, the exports
\* table offers Retry on a row of the analysis, or a job of the row has failed and
\* left no stamp, and the queue page offers that one.
THEOREM RetryIsOffered == Spec => []AnalysisOffersRetry
<1>1. Inductive => AnalysisOffersRetry
  <2> SUFFICES ASSUME Inductive, OneAtATime, Quiet, spent.requests = 0, form = "done",
                      ~ loads.late, NEW m \in Rows, InProgress(m)
               PROVE  JobGaveUp(m) \/ \E n \in Rows : Failed(n)
    BY DEF AnalysisOffersRetry
  <2>1. /\ Core /\ Tracked /\ Undisturbed /\ NoRequest /\ Pending /\ Unsubmitted /\ LeftToSome
        /\ 1 \in Exports /\ Stage(1) \in Tasks /\ Load(1) \in Tasks /\ Submit \in Tasks
    BY ConstantFacts, TaskFacts DEF Inductive, Core, Undisturbed
  <2>2. /\ row[m].load = "pending" /\ row[m].stage \in {"pending", "staged"}
    <3>1. row[m] \in Manifest
      BY <2>1, CoreFacts
    <3> QED
      BY <3>1 DEF Manifest, InProgress, Failed
  <2>3. \A t \in Tasks : task[t] \in {"absent"} \cup Outcome
    BY <2>1, CoreFacts DEF Quiet, TaskStatus, Outcome
  <2>4. CASE row[m].stage = "staged"
    <3>1. ~ LoadWill(m) /\ ~ StageWill(m)
      BY <2>1 DEF Quiet, LoadWill, StageWill
    <3>2. GivenUp \/ \E n \in Rows : Rejected(n)
      BY <2>1, <2>2, <2>4, <3>1 DEF LeftToSome, Staged
    <3>3. GivenUp => JobGaveUp(m)
      BY <2>1, <2>4 DEF GivenUp, JobGaveUp
    <3> QED
      BY <2>1, <3>2, <3>3 DEF Rejected, Failed, NoRequest, Undisturbed
  <2>5. CASE row[m].stage = "pending" /\ row[m].job = 0
    BY <2>1, <2>5 DEF Unsubmitted, Quiet, JobGaveUp
  <2>6. CASE row[m].stage = "pending" /\ row[m].job # 0
    <3>1. row[m].job \in Recorded /\ Recorded \subseteq {1}
      BY <2>1, <2>6, CoreFacts, RecordedFacts DEF Core, OneAtATime
    <3>2. exports[1] # "RUNNING" /\ 1 \in Recorded
      BY <3>1 DEF Quiet, Running, Recorded
    <3>3. task[Stage(1)] \in Ended \cup {"raised"}
      BY <2>1, <2>3, <3>2 DEF Tracked, Outcome, Ended
    <3> QED
      BY <2>1, <2>6, <3>3 DEF Pending, JobGaveUp
  <2> QED
    BY <2>2, <2>4, <2>5, <2>6
<1> QED
  BY <1>1, AlwaysInductive, PTL

=============================================================================
