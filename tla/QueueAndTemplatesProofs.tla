----------------------- MODULE QueueAndTemplatesProofs -----------------------
(***************************************************************************)
(* What the work queue guarantees for every number of jobs, threads and    *)
(* requests, and what templates, suites and executions guarantee for every *)
(* number of administrators, rows, requests and commits: the runs bound    *)
(* how many are under way at once, the proofs do not.  The two share no    *)
(* variable, and each theorem speaks of one.                               *)
(***************************************************************************)
EXTENDS RwbQueue, AnalysisTemplates, TLAPS

-----------------------------------------------------------------------------
(* The work queue *)

(* A request that is about to revive a row has seen the row. *)
ReviveSound ==
    \A a \in Analysts : request[a].at = "revive" => row[request[a].job].status # "absent"

(* A row that is not inserted yet has had no attempt. *)
AbsentIsBlank == \A j \in Jobs : row[j].status = "absent" => row[j].attempt = 0

(* The runs of a job never exceed what was granted, and while the row is   *)
(* up for a claim one grant is still to be used.                           *)
RunBudget ==
    \A j \in Jobs :
        /\ row[j].status = "absent" => started[j] = 0
        /\ row[j].status = "pending" => started[j] <= row[j].attempt + reclaimed[j]
        /\ started[j] <= 1 + row[j].attempt + reclaimed[j]

(* Until a job is first reset, a row up for a claim has no thread and any  *)
(* other row has one at most.                                              *)
OneThreadUntilReset ==
    \A j \in Jobs :
        row[j].attempt + reclaimed[j] = 0 =>
            /\ row[j].status \in {"absent", "pending"} => \A w \in Workers : worker[w].job # j
            /\ \A v, w \in Workers : worker[v].job = j /\ worker[w].job = j => v = w

-----------------------------------------------------------------------------
(* Changing the status of one row, with or without its owner, keeps the    *)
(* table a table.                                                          *)
LEMMA StatusUpdateTyped ==
    ASSUME NEW t \in [Jobs -> Row], NEW j \in Jobs, NEW s \in Status
    PROVE  [t EXCEPT ![j].status = s] \in [Jobs -> Row]
  BY DEF Row

LEMMA ClaimUpdateTyped ==
    ASSUME NEW t \in [Jobs -> Row], NEW j \in Jobs, NEW w \in Workers
    PROVE  [t EXCEPT ![j].status = "running", ![j].claimedBy = w] \in [Jobs -> Row]
  BY DEF Row, Status

LEMMA ReclaimUpdateTyped ==
    ASSUME NEW r \in Row
    PROVE  [r EXCEPT !.status = "pending", !.claimedBy = NoWorker] \in Row
  BY DEF Row, Status

(* Using up a bound keeps the budget a budget. *)
LEMMA SpendTyped ==
    ASSUME NEW b \in Budget, NEW what \in {"requests", "crashes", "stalls", "early"}
    PROVE  [b EXCEPT ![what] = @ + 1] \in Budget
  BY DEF Budget

(* Every reachable state is well typed. *)
THEOREM TypeCorrect == Spec => []TypeOK
<1>1. Init => TypeOK
  BY RwbQueueAssumption DEF Init, TypeOK, Row, Status, Absent, Thread, WorkerAt, Outcome,
     Request, RequestAt, Idle, Budget
<1>2. TypeOK /\ [Next]_vars => TypeOK'
  <2> SUFFICES ASSUME TypeOK, [Next]_vars PROVE TypeOK'
    OBVIOUS
  <2> USE RwbQueueAssumption DEF TypeOK, Row, Status, Absent, Thread, WorkerAt, Outcome,
      Request, RequestAt, Idle, Budget
  <2>1. ASSUME NEW a \in Analysts, RequestStep(a) PROVE TypeOK'
    <3>1. CASE EnsureSelect(a)
      <4> DEFINE j == request[a].job
                 next == CASE row[j].status = "absent"  -> [at |-> "insert", job |-> j]
                           [] row[j].status \in Outcome -> [at |-> "revive", job |-> j]
                           [] OTHER                     -> Idle
      <4>1. j \in Jobs
        BY <3>1 DEF EnsureSelect
      <4>2. next \in Request /\ (next.job = NoJob <=> next.at = "idle")
        BY <4>1
      <4> QED
        BY <3>1, <4>2 DEF EnsureSelect
    <3>2. CASE EnsureInsert(a)
      <4> DEFINE j == request[a].job
      <4>1. j \in Jobs
        BY <3>2 DEF EnsureInsert
      <4>2. row' \in [Jobs -> Row] /\ message' \in [Jobs -> Nat]
        <5>1. CASE InsertHead(j)
          BY <4>1, <5>1 DEF InsertHead, Send
        <5>2. CASE UNCHANGED <<row, message>>
          BY <5>2
        <5> QED
          BY <3>2, <5>1, <5>2 DEF EnsureInsert
      <4>3. /\ request' = [request EXCEPT ![a] = Idle]
            /\ UNCHANGED <<heartbeat, worker, started, reclaimed, spent>>
        BY <3>2 DEF EnsureInsert
      <4> QED
        BY <4>2, <4>3
    <3>3. CASE EnsureRevive(a)
      BY <3>3 DEF EnsureRevive, Send
    <3>4. CASE RequestDies(a)
      BY <3>4 DEF RequestDies
    <3>5. ASSUME NEW j \in Jobs, ResubmitRead(a, j) \/ EnsureCall(a, j) PROVE TypeOK'
      <4>1. /\ request' = [request EXCEPT ![a] = [at |-> "ensure", job |-> j]]
            /\ spent' = [spent EXCEPT !["requests"] = @ + 1]
            /\ UNCHANGED <<row, heartbeat, message, worker, started, reclaimed>>
        BY <3>5 DEF ResubmitRead, EnsureCall, Spend
      <4>2. spent' \in Budget
        BY <4>1
      <4> QED
        BY <4>1, <4>2
    <3> QED
      BY <2>1, <3>1, <3>2, <3>3, <3>4, <3>5 DEF RequestStep
  <2>2. ASSUME NEW w \in Workers, ThreadStep(w) PROVE TypeOK'
    <3>1. ASSUME NEW j \in Jobs, Claim(w, j) PROVE TypeOK'
      <4>1. row' \in [Jobs -> Row]
        BY <3>1, ClaimUpdateTyped DEF Claim
      <4>2. message' \in [Jobs -> Nat] /\ started' \in [Jobs -> Nat]
        BY <3>1 DEF Claim
      <4>3. /\ worker' = [worker EXCEPT ![w] = [at |-> "claimed", job |-> j]]
            /\ UNCHANGED <<heartbeat, request, reclaimed, spent>>
        BY <3>1 DEF Claim
      <4> QED
        BY <4>1, <4>2, <4>3
    <3>2. ASSUME NEW j \in Jobs, ClaimLost(w, j) PROVE TypeOK'
      BY <3>2 DEF ClaimLost
    <3>3. CASE FirstBeat(w)
      BY <3>3 DEF FirstBeat
    <3>4. CASE Beat(w)
      BY <3>4 DEF Beat
    <3>5. CASE BodyReturns(w)
      BY <3>5 DEF BodyReturns
    <3>6. CASE Complete(w)
      <4> DEFINE j == worker[w].job
      <4>1. j \in Jobs /\ worker[w].at \in Outcome
        BY <3>6 DEF Complete
      <4>2. row' \in [Jobs -> Row]
        <5>1. CASE row[j].status = "running"
          <6>1. row' = [row EXCEPT ![j].status = worker[w].at]
            BY <3>6, <5>1 DEF Complete
          <6> QED
            BY <4>1, <6>1, StatusUpdateTyped
        <5>2. CASE row[j].status # "running"
          BY <3>6, <5>2 DEF Complete
        <5> QED
          BY <5>1, <5>2
      <4>3. /\ worker' = [worker EXCEPT ![w] = Idle]
            /\ UNCHANGED <<heartbeat, message, request, started, reclaimed, spent>>
        BY <3>6 DEF Complete
      <4> QED
        BY <4>2, <4>3
    <3>7. CASE Crash(w)
      BY <3>7 DEF Crash, Send, Spend
    <3> QED
      BY <2>2, <3>1, <3>2, <3>3, <3>4, <3>5, <3>6, <3>7 DEF ThreadStep
  <2>3. ASSUME NEW j \in Jobs, JobStep(j) PROVE TypeOK'
    <3>1. CASE Enqueue(j)
      BY <3>1 DEF Enqueue, InsertHead, Send
    <3>2. CASE Cancel(j)
      <4>1. /\ row' = [row EXCEPT ![j].status = "cancelled"]
            /\ UNCHANGED <<heartbeat, message, worker, request, started, reclaimed, spent>>
        BY <3>2 DEF Cancel
      <4>2. row' \in [Jobs -> Row]
        BY <4>1, StatusUpdateTyped
      <4> QED
        BY <4>1, <4>2
    <3>3. CASE LoseMessage(j)
      BY <3>3 DEF LoseMessage
    <3>4. CASE DuplicateMessage(j)
      BY <3>4 DEF DuplicateMessage, Send
    <3>5. CASE HeartbeatExpires(j)
      BY <3>5 DEF HeartbeatExpires
    <3>6. CASE HeartbeatStalls(j)
      BY <3>6 DEF HeartbeatStalls, Spend
    <3> QED
      BY <2>3, <3>1, <3>2, <3>3, <3>4, <3>5, <3>6 DEF JobStep
  <2>4. CASE Reconcile
    <3>1. row' \in [Jobs -> Row]
      BY <2>4, ReclaimUpdateTyped DEF Reconcile
    <3>2. reclaimed' \in [Jobs -> Nat]
      <4>1. reclaimed' = [j \in Jobs |-> IF j \in Stale THEN reclaimed[j] + 1 ELSE reclaimed[j]]
        BY <2>4 DEF Reconcile
      <4> QED
        BY <4>1
    <3>3. spent' \in Budget
      <4>1. CASE \E j \in Stale : BeforeFirstBeat(j)
        <5>1. spent' = [spent EXCEPT !["early"] = @ + 1]
          BY <2>4, <4>1 DEF Reconcile, Spend
        <5> QED
          BY <5>1, SpendTyped
      <4>2. CASE ~ \E j \in Stale : BeforeFirstBeat(j)
        BY <2>4, <4>2 DEF Reconcile
      <4> QED
        BY <4>1, <4>2
    <3>4. UNCHANGED <<heartbeat, message, worker, request, started>>
      BY <2>4 DEF Reconcile
    <3> QED
      BY <3>1, <3>2, <3>3, <3>4
  <2>5. CASE DispatchPending
    BY <2>5 DEF DispatchPending
  <2>6. CASE UNCHANGED vars
    BY <2>6 DEF vars
  <2> QED
    BY <2>1, <2>2, <2>3, <2>4, <2>5, <2>6 DEF Next
<1> QED
  BY <1>1, <1>2, PTL DEF Spec

-----------------------------------------------------------------------------
(* Every way one row, and the history of its runs, can change in a step. *)
Fixed(j)    == row'[j] = row[j] /\ started'[j] = started[j] /\ reclaimed'[j] = reclaimed[j]
Inserted(j) == /\ row[j].status = "absent"
               /\ row'[j] = [Absent EXCEPT !.status = "pending"]
               /\ started'[j] = started[j] /\ reclaimed'[j] = reclaimed[j]
Claimed(j)  == /\ row[j].status = "pending"
               /\ \E w \in Workers :
                     row'[j] = [row[j] EXCEPT !.status = "running", !.claimedBy = w]
               /\ started'[j] = started[j] + 1 /\ reclaimed'[j] = reclaimed[j]
Finished(j) == /\ row[j].status = "running"
               /\ \E o \in Outcome : row'[j] = [row[j] EXCEPT !.status = o]
               /\ started'[j] = started[j] /\ reclaimed'[j] = reclaimed[j]
Withdrawn(j) == /\ row[j].status \in {"pending", "running", "failed"}
                /\ row'[j] = [row[j] EXCEPT !.status = "cancelled"]
                /\ started'[j] = started[j] /\ reclaimed'[j] = reclaimed[j]
TakenBack(j) == /\ row[j].status = "running"
                /\ row'[j] = [row[j] EXCEPT !.status = "pending", !.claimedBy = NoWorker]
                /\ started'[j] = started[j] /\ reclaimed'[j] = reclaimed[j] + 1
Revived(j)   == /\ \E a \in Analysts : /\ request[a] = [at |-> "revive", job |-> j]
                                       /\ request'[a] = Idle
                /\ row'[j] = [status    |-> "pending",
                              claimedBy |-> NoWorker,
                              attempt   |-> row[j].attempt + 1]
                /\ started'[j] = started[j] /\ reclaimed'[j] = reclaimed[j]

RowStep(j) == \/ Fixed(j) \/ Inserted(j) \/ Claimed(j) \/ Finished(j)
              \/ Withdrawn(j) \/ TakenBack(j) \/ Revived(j)

(* A step of the queue changes each row in one of those ways. *)
LEMMA RowSteps ==
    ASSUME TypeOK, [Next]_vars, NEW k \in Jobs
    PROVE  RowStep(k)
<1> USE DEF TypeOK, RowStep, Fixed
<1>1. ASSUME NEW a \in Analysts, RequestStep(a) PROVE RowStep(k)
  <2>1. CASE EnsureSelect(a)
    BY <2>1 DEF EnsureSelect
  <2>2. CASE EnsureInsert(a)
    <3>1. UNCHANGED <<started, reclaimed>>
      BY <2>2 DEF EnsureInsert
    <3>2. CASE InsertHead(request[a].job)
      BY <3>1, <3>2 DEF InsertHead, Inserted
    <3>3. CASE UNCHANGED row
      BY <3>1, <3>3
    <3> QED
      BY <2>2, <3>2, <3>3 DEF EnsureInsert
  <2>3. CASE EnsureRevive(a)
    <3>1. UNCHANGED <<started, reclaimed>>
      BY <2>3 DEF EnsureRevive
    <3>2. CASE request[a].job = k
      <4>1. request[a] = [at |-> "revive", job |-> k] /\ request'[a] = Idle
        BY <2>3, <3>2 DEF EnsureRevive, Request
      <4>2. row'[k] = [status    |-> "pending",
                       claimedBy |-> NoWorker,
                       attempt   |-> row[k].attempt + 1]
        BY <2>3, <3>2 DEF EnsureRevive
      <4> QED
        BY <3>1, <4>1, <4>2 DEF Revived
    <3>3. CASE request[a].job # k
      BY <2>3, <3>1, <3>3 DEF EnsureRevive
    <3> QED
      BY <3>2, <3>3
  <2>4. CASE RequestDies(a)
    BY <2>4 DEF RequestDies
  <2>5. ASSUME NEW j \in Jobs, ResubmitRead(a, j) \/ EnsureCall(a, j) PROVE RowStep(k)
    BY <2>5 DEF ResubmitRead, EnsureCall
  <2> QED
    BY <1>1, <2>1, <2>2, <2>3, <2>4, <2>5 DEF RequestStep
<1>2. ASSUME NEW w \in Workers, ThreadStep(w) PROVE RowStep(k)
  <2>1. ASSUME NEW j \in Jobs, Claim(w, j) PROVE RowStep(k)
    <3>1. CASE j = k
      BY <2>1, <3>1 DEF Claim, Claimed, Row
    <3>2. CASE j # k
      BY <2>1, <3>2 DEF Claim
    <3> QED
      BY <3>1, <3>2
  <2>2. ASSUME NEW j \in Jobs, ClaimLost(w, j) PROVE RowStep(k)
    BY <2>2 DEF ClaimLost
  <2>3. CASE Complete(w)
    <3>1. UNCHANGED <<started, reclaimed>>
      BY <2>3 DEF Complete
    <3>2. CASE worker[w].job = k /\ row[k].status = "running"
      BY <2>3, <3>1, <3>2 DEF Complete, Finished
    <3>3. CASE worker[w].job # k \/ row[k].status # "running"
      BY <2>3, <3>1, <3>3 DEF Complete
    <3> QED
      BY <3>2, <3>3
  <2>4. CASE FirstBeat(w) \/ Beat(w) \/ BodyReturns(w) \/ Crash(w)
    BY <2>4 DEF FirstBeat, Beat, BodyReturns, Crash
  <2> QED
    BY <1>2, <2>1, <2>2, <2>3, <2>4 DEF ThreadStep
<1>3. ASSUME NEW j \in Jobs, JobStep(j) PROVE RowStep(k)
  <2>1. CASE Enqueue(j)
    BY <2>1 DEF Enqueue, InsertHead, Inserted
  <2>2. CASE Cancel(j)
    <3>1. CASE j = k
      BY <2>2, <3>1 DEF Cancel, Dead, Withdrawn
    <3>2. CASE j # k
      BY <2>2, <3>2 DEF Cancel
    <3> QED
      BY <3>1, <3>2
  <2>3. CASE LoseMessage(j) \/ DuplicateMessage(j) \/ HeartbeatExpires(j) \/ HeartbeatStalls(j)
    BY <2>3 DEF LoseMessage, DuplicateMessage, HeartbeatExpires, HeartbeatStalls
  <2> QED
    BY <1>3, <2>1, <2>2, <2>3 DEF JobStep
<1>4. CASE Reconcile
  <2>1. UNCHANGED started
    BY <1>4 DEF Reconcile
  <2>2. CASE k \in Stale
    BY <1>4, <2>1, <2>2 DEF Reconcile, Stale, Dead, TakenBack
  <2>3. CASE k \notin Stale
    BY <1>4, <2>1, <2>3 DEF Reconcile
  <2> QED
    BY <2>2, <2>3
<1>5. CASE DispatchPending
  BY <1>5 DEF DispatchPending
<1>6. CASE UNCHANGED vars
  BY <1>6 DEF vars
<1> QED
  BY <1>1, <1>2, <1>3, <1>4, <1>5, <1>6 DEF Next

(* A row is inserted for good. *)
LEMMA InsertedForGood ==
    ASSUME TypeOK, [Next]_vars, NEW j \in Jobs, row'[j].status = "absent"
    PROVE  row'[j] = row[j]
<1>1. RowStep(j) /\ row[j] \in Row
  BY RowSteps DEF TypeOK
<1>2. ~ Inserted(j) /\ ~ Revived(j)
  BY DEF Inserted, Revived, Absent
<1>3. ~ Claimed(j) /\ ~ TakenBack(j)
  BY <1>1 DEF Claimed, TakenBack, Row
<1>4. ~ Finished(j) /\ ~ Withdrawn(j)
  BY <1>1 DEF Finished, Withdrawn, Row, Outcome
<1> QED
  BY <1>1, <1>2, <1>3, <1>4 DEF RowStep, Fixed

(* No body runs that was not granted by the insert, a counted attempt or a *)
(* reclaim: wake-ups alone never execute a job twice.                      *)
THEOREM NoUngrantedRun == Spec => []RunsAccounted
<1>1. Init => RunBudget
  BY DEF Init, RunBudget, Absent
<1>2. TypeOK /\ RunBudget /\ [Next]_vars => RunBudget'
  <2> SUFFICES ASSUME TypeOK, RunBudget, [Next]_vars, NEW j \in Jobs
               PROVE  RunBudget!(j)'
    BY DEF RunBudget
  <2>1. RowStep(j)
    BY RowSteps
  <2>2. /\ row[j] \in Row
        /\ started[j] \in Nat
        /\ reclaimed[j] \in Nat
    BY DEF TypeOK
  <2>3. CASE Fixed(j)
    BY <2>3, <2>2 DEF RunBudget, Row, Fixed
  <2>4. CASE Inserted(j)
    BY <2>4, <2>2 DEF RunBudget, Row, Inserted, Absent
  <2>5. CASE Claimed(j)
    BY <2>5, <2>2 DEF RunBudget, Row, Claimed
  <2>6. CASE Finished(j)
    BY <2>6, <2>2 DEF RunBudget, Row, Finished, Outcome
  <2>7. CASE Withdrawn(j)
    BY <2>7, <2>2 DEF RunBudget, Row, Withdrawn
  <2>8. CASE TakenBack(j)
    BY <2>8, <2>2 DEF RunBudget, Row, TakenBack
  <2>9. CASE Revived(j)
    BY <2>9, <2>2 DEF RunBudget, Row, Revived
  <2> QED
    BY <2>1, <2>3, <2>4, <2>5, <2>6, <2>7, <2>8, <2>9 DEF RowStep
<1>3. RunBudget => RunsAccounted
  BY DEF RunBudget, RunsAccounted
<1> QED
  BY <1>1, <1>2, <1>3, TypeCorrect, PTL DEF Spec

(* claimed_by is NULL while a row is up for a claim, a thread while it runs. *)
THEOREM OwnerMatchesStatus == Spec => []ClaimedByMatchesStatus
<1>1. Init => ClaimedByMatchesStatus
  BY DEF Init, ClaimedByMatchesStatus, Absent
<1>2. TypeOK /\ ClaimedByMatchesStatus /\ [Next]_vars => ClaimedByMatchesStatus'
  <2> SUFFICES ASSUME TypeOK, ClaimedByMatchesStatus, [Next]_vars, NEW j \in Jobs
               PROVE  ClaimedByMatchesStatus!(j)'
    BY DEF ClaimedByMatchesStatus
  <2>1. RowStep(j)
    BY RowSteps
  <2>2. row[j] \in Row
    BY DEF TypeOK
  <2>3. CASE Fixed(j)
    BY <2>3, <2>2 DEF ClaimedByMatchesStatus, Row, Fixed
  <2>4. CASE Inserted(j)
    BY <2>4, <2>2 DEF ClaimedByMatchesStatus, Row, Inserted, Absent
  <2>5. CASE Claimed(j)
    BY <2>5, <2>2 DEF ClaimedByMatchesStatus, Row, Claimed
  <2>6. CASE Finished(j)
    BY <2>6, <2>2 DEF ClaimedByMatchesStatus, Row, Finished, Outcome
  <2>7. CASE Withdrawn(j)
    BY <2>7, <2>2 DEF ClaimedByMatchesStatus, Row, Withdrawn
  <2>8. CASE TakenBack(j)
    BY <2>8, <2>2 DEF ClaimedByMatchesStatus, Row, TakenBack
  <2>9. CASE Revived(j)
    BY <2>9, <2>2 DEF ClaimedByMatchesStatus, Row, Revived
  <2> QED
    BY <2>1, <2>3, <2>4, <2>5, <2>6, <2>7, <2>8, <2>9 DEF RowStep
<1> QED
  BY <1>1, <1>2, TypeCorrect, PTL DEF Spec

(* A result changes only by a counted new attempt, or by a dismissal of a  *)
(* failure.                                                                *)
THEOREM ResultsStand == Spec => TerminalResultStands
<1>1. TypeOK /\ [Next]_vars =>
        [\A j \in Jobs :
            row[j].status \in Outcome =>
              \/ row'[j] = row[j]
              \/ row'[j].status = "pending" /\ row'[j].attempt = row[j].attempt + 1
              \/ row[j].status = "failed" /\ row'[j] = [row[j] EXCEPT !.status = "cancelled"]]_vars
  <2> SUFFICES ASSUME TypeOK, [Next]_vars, NEW j \in Jobs, row[j].status \in Outcome
               PROVE  \/ row'[j] = row[j]
                      \/ row'[j].status = "pending" /\ row'[j].attempt = row[j].attempt + 1
                      \/ /\ row[j].status = "failed"
                         /\ row'[j] = [row[j] EXCEPT !.status = "cancelled"]
    OBVIOUS
  <2>1. RowStep(j)
    BY RowSteps
  <2>2. CASE Fixed(j)
    BY <2>2 DEF Outcome, Fixed
  <2>3. CASE Inserted(j)
    BY <2>3 DEF Outcome, Inserted, Absent
  <2>4. CASE Claimed(j)
    BY <2>4 DEF Outcome, Claimed
  <2>5. CASE Finished(j)
    BY <2>5 DEF Outcome, Finished
  <2>6. CASE Withdrawn(j)
    BY <2>6 DEF Outcome, Withdrawn
  <2>7. CASE TakenBack(j)
    BY <2>7 DEF Outcome, TakenBack
  <2>8. CASE Revived(j)
    BY <2>8 DEF Outcome, Revived
  <2> QED
    BY <2>1, <2>2, <2>3, <2>4, <2>5, <2>6, <2>7, <2>8 DEF RowStep
<1> QED
  BY <1>1, TypeCorrect, PTL DEF Spec, TerminalResultStands

(* Only a retry that read the row before it was cancelled can revive it. *)
THEOREM CancelOvertakenOnlyByRetry == Spec => CancelledLeavesOnlyByRacingRetry
<1>1. TypeOK /\ [Next]_vars =>
        [\A j \in Jobs :
            row[j].status = "cancelled" /\ row'[j] # row[j] =>
              \E a \in Analysts : /\ request[a] = [at |-> "revive", job |-> j]
                                  /\ request'[a] = Idle
                                  /\ row'[j].attempt = row[j].attempt + 1]_vars
  <2> SUFFICES ASSUME TypeOK, [Next]_vars, NEW j \in Jobs, row[j].status = "cancelled",
                      row'[j] # row[j]
               PROVE  \E a \in Analysts : /\ request[a] = [at |-> "revive", job |-> j]
                                          /\ request'[a] = Idle
                                          /\ row'[j].attempt = row[j].attempt + 1
    OBVIOUS
  <2>1. RowStep(j)
    BY RowSteps
  <2>2. Revived(j)
    BY <2>1 DEF RowStep, Fixed, Inserted, Claimed, Finished, Withdrawn, TakenBack
  <2> QED
    BY <2>2 DEF Revived
<1> QED
  BY <1>1, TypeCorrect, PTL DEF Spec, CancelledLeavesOnlyByRacingRetry

-----------------------------------------------------------------------------
(* A thread takes up a job only by claiming the pending row, and no other  *)
(* thread moves in that step.                                              *)
LEMMA TakesUpByClaim ==
    ASSUME TypeOK, [Next]_vars, NEW w \in Workers, NEW k \in Jobs,
           worker'[w].job = k, worker[w].job # k
    PROVE  /\ row[k].status = "pending" /\ row'[k].status = "running"
           /\ \A v \in Workers \ {w} : worker'[v] = worker[v]
<1> USE RwbQueueAssumption DEF TypeOK, Idle, Thread
<1>1. PICK v \in Workers : ThreadStep(v)
  <2>1. ~ \E a \in Analysts : RequestStep(a)
    BY DEF RequestStep, EnsureSelect, EnsureInsert, EnsureRevive, RequestDies, ResubmitRead,
       EnsureCall
  <2>2. ~ \E j \in Jobs : JobStep(j)
    BY DEF JobStep, Enqueue, Cancel, LoseMessage, DuplicateMessage, HeartbeatExpires,
       HeartbeatStalls
  <2>3. ~ (Reconcile \/ DispatchPending \/ UNCHANGED vars)
    BY DEF Reconcile, DispatchPending, vars
  <2> QED
    BY <2>1, <2>2, <2>3 DEF Next
<1>2. ~ (FirstBeat(v) \/ Beat(v) \/ BodyReturns(v) \/ Complete(v) \/ Crash(v))
  BY DEF FirstBeat, Beat, BodyReturns, Complete, Crash
<1>3. ~ \E j \in Jobs : ClaimLost(v, j)
  BY DEF ClaimLost
<1>4. PICK j \in Jobs : Claim(v, j)
  BY <1>1, <1>2, <1>3 DEF ThreadStep
<1>5. v = w /\ j = k
  BY <1>4 DEF Claim
<1> QED
  BY <1>4, <1>5 DEF Claim, Row

(* A row that is not inserted yet has had no attempt. *)
LEMMA AbsentStaysBlank == Spec => []AbsentIsBlank
<1>1. Init => AbsentIsBlank
  BY DEF Init, AbsentIsBlank, Absent
<1>2. TypeOK /\ AbsentIsBlank /\ [Next]_vars => AbsentIsBlank'
  <2> SUFFICES ASSUME TypeOK, AbsentIsBlank, [Next]_vars, NEW j \in Jobs,
                      row'[j].status = "absent"
               PROVE  row'[j].attempt = 0
    BY DEF AbsentIsBlank
  <2> QED
    BY InsertedForGood DEF AbsentIsBlank
<1> QED
  BY <1>1, <1>2, TypeCorrect, PTL DEF Spec

(* Until a job is retried or taken back, one thread at most executes it. *)
THEOREM OneExecutorUntilReset == Spec => []ExclusiveUntilReset
<1>1. Init => OneThreadUntilReset
  BY RwbQueueAssumption DEF Init, OneThreadUntilReset, Idle
<1>2. TypeOK /\ AbsentIsBlank /\ OneThreadUntilReset /\ [Next]_vars => OneThreadUntilReset'
  <2> SUFFICES ASSUME TypeOK, AbsentIsBlank, OneThreadUntilReset, [Next]_vars, NEW j \in Jobs,
                      row'[j].attempt + reclaimed'[j] = 0
               PROVE  /\ row'[j].status \in {"absent", "pending"} =>
                            \A w \in Workers : worker'[w].job # j
                      /\ \A v, w \in Workers :
                            worker'[v].job = j /\ worker'[w].job = j => v = w
    BY DEF OneThreadUntilReset
  <2>1. RowStep(j)
    BY RowSteps
  <2>2. row[j] \in Row /\ reclaimed[j] \in Nat
    BY DEF TypeOK
  <2>3. ~ TakenBack(j) /\ ~ Revived(j)
    <3>1. row[j].attempt \in Nat
      BY <2>2 DEF Row
    <3>2. TakenBack(j) => row'[j].attempt = row[j].attempt /\ reclaimed'[j] = reclaimed[j] + 1
      BY <2>2 DEF TakenBack, Row
    <3>3. Revived(j) => /\ row'[j].attempt = row[j].attempt + 1
                        /\ reclaimed'[j] = reclaimed[j]
      BY DEF Revived
    <3> QED
      BY <2>2, <3>1, <3>2, <3>3
  <2>4. row[j].attempt + reclaimed[j] = 0
    <3>1. CASE Inserted(j)
      BY <2>2, <3>1 DEF Inserted, Absent, AbsentIsBlank
    <3>2. CASE Fixed(j) \/ Claimed(j) \/ Finished(j) \/ Withdrawn(j)
      BY <2>2, <3>2 DEF Fixed, Claimed, Finished, Withdrawn, Row
    <3> QED
      BY <2>1, <2>3, <3>1, <3>2 DEF RowStep
  <2>5. ASSUME row'[j].status \in {"absent", "pending"}, NEW w \in Workers
        PROVE  worker'[w].job # j
    <3>1. row[j].status \in {"absent", "pending"}
      <4>1. ~ Claimed(j) /\ ~ Finished(j) /\ ~ Withdrawn(j)
        BY <2>2, <2>5 DEF Claimed, Finished, Withdrawn, Row, Outcome
      <4> QED
        BY <2>1, <2>3, <2>5, <4>1 DEF RowStep, Fixed, Inserted
    <3>2. worker[w].job # j
      BY <2>4, <3>1 DEF OneThreadUntilReset
    <3> QED
      BY <2>5, <3>2, TakesUpByClaim
  <2>6. ASSUME NEW v \in Workers, NEW w \in Workers,
               worker'[v].job = j, worker'[w].job = j, v # w
        PROVE  FALSE
    <3>1. CASE worker[v].job = j /\ worker[w].job = j
      BY <2>4, <2>6, <3>1 DEF OneThreadUntilReset
    <3>2. ASSUME NEW x \in {v, w}, worker[x].job # j PROVE FALSE
      <4>1. /\ row[j].status = "pending"
            /\ \A y \in Workers \ {x} : worker'[y] = worker[y]
        BY <2>6, <3>2, TakesUpByClaim
      <4>2. \A y \in Workers : worker[y].job # j
        BY <2>4, <4>1 DEF OneThreadUntilReset
      <4> QED
        BY <2>6, <3>2, <4>1, <4>2
    <3> QED
      BY <3>1, <3>2
  <2> QED
    BY <2>5, <2>6
<1>3. OneThreadUntilReset => ExclusiveUntilReset
  BY DEF OneThreadUntilReset, ExclusiveUntilReset
<1> QED
  BY <1>1, <1>2, <1>3, TypeCorrect, AbsentStaysBlank, PTL DEF Spec

-----------------------------------------------------------------------------
(* The revival a request is about to make is of a row that exists. *)
LEMMA ReviveHasRow == Spec => []ReviveSound
<1>1. Init => ReviveSound
  BY DEF Init, ReviveSound, Idle
<1>2. TypeOK /\ ReviveSound /\ [Next]_vars => ReviveSound'
  <2> SUFFICES ASSUME TypeOK, ReviveSound, [Next]_vars, NEW a \in Analysts,
                      request'[a].at = "revive"
               PROVE  row'[request'[a].job].status # "absent"
    BY DEF ReviveSound
  <2>1. \A j \in Jobs : row[j].status # "absent" => row'[j].status # "absent"
    BY InsertedForGood
  <2>2. CASE request'[a] = request[a]
    <3>1. request[a].job \in Jobs
      BY <2>2, RwbQueueAssumption DEF TypeOK, Request
    <3> QED
      BY <2>1, <2>2, <3>1 DEF ReviveSound
  <2>3. CASE request'[a] # request[a]
    <3>1. PICK b \in Analysts : RequestStep(b)
      <4>1. ~ \E w \in Workers : ThreadStep(w)
        BY <2>3 DEF ThreadStep, Claim, ClaimLost, FirstBeat, Beat, BodyReturns, Complete, Crash
      <4>2. ~ \E j \in Jobs : JobStep(j)
        BY <2>3 DEF JobStep, Enqueue, Cancel, LoseMessage, DuplicateMessage, HeartbeatExpires,
           HeartbeatStalls
      <4>3. ~ (Reconcile \/ DispatchPending \/ UNCHANGED vars)
        BY <2>3 DEF Reconcile, DispatchPending, vars
      <4> QED
        BY <4>1, <4>2, <4>3 DEF Next
    <3>2. ~ (EnsureInsert(b) \/ EnsureRevive(b) \/ RequestDies(b))
      BY <2>3 DEF EnsureInsert, EnsureRevive, RequestDies, TypeOK, Idle
    <3>3. ~ \E j \in Jobs : ResubmitRead(b, j) \/ EnsureCall(b, j)
      BY <2>3 DEF ResubmitRead, EnsureCall, TypeOK
    <3>4. EnsureSelect(b)
      BY <3>1, <3>2, <3>3 DEF RequestStep
    <3>5. b = a
      BY <2>3, <3>4 DEF EnsureSelect, TypeOK
    <3>6. UNCHANGED row
      BY <3>4 DEF EnsureSelect
    <3>7. /\ row[request[a].job].status \in Outcome
          /\ request'[a].job = request[a].job
      <4> DEFINE j == request[a].job
                 next == CASE row[j].status = "absent"  -> [at |-> "insert", job |-> j]
                           [] row[j].status \in Outcome -> [at |-> "revive", job |-> j]
                           [] OTHER                     -> Idle
      <4>1. request'[a] = next
        BY <3>4, <3>5 DEF EnsureSelect, TypeOK
      <4> QED
        BY <4>1 DEF Idle, Outcome
    <3> QED
      BY <3>6, <3>7 DEF Outcome
  <2> QED
    BY <2>2, <2>3
<1> QED
  BY <1>1, <1>2, TypeCorrect, PTL DEF Spec

(* A step that changes one row alone changes the abstract job alone. *)
LEMMA OneRowChanges ==
    ASSUME TypeOK, NEW j \in Jobs, NEW r \in Row, row' = [row EXCEPT ![j] = r]
    PROVE  /\ [k \in Jobs |-> row'[k].status]
                 = [[k \in Jobs |-> row[k].status] EXCEPT ![j] = r.status]
           /\ [k \in Jobs |-> row'[k].attempt]
                 = [[k \in Jobs |-> row[k].attempt] EXCEPT ![j] = r.attempt]
  BY DEF TypeOK, Row

(* The queue, with its threads, beats, wake-ups and transactions, shows an *)
(* observer of the table nothing but the abstract lifecycle.               *)
THEOREM LifecycleImplemented == Spec => ImplementsLifecycle
<1>1. Init => Lifecycle!LifecycleInit
  BY DEF Init, Lifecycle!LifecycleInit, Absent
<1>2. TypeOK /\ AbsentIsBlank /\ ReviveSound /\ [Next]_vars
        => [Lifecycle!LifecycleNext]_(Lifecycle!lifecycleVars)
  <2> SUFFICES ASSUME TypeOK, AbsentIsBlank, ReviveSound, [Next]_vars
               PROVE  Lifecycle!LifecycleNext \/ UNCHANGED Lifecycle!lifecycleVars
    OBVIOUS
  <2> DEFINE status  == [k \in Jobs |-> row[k].status]
             attempt == [k \in Jobs |-> row[k].attempt]
  <2>1. ASSUME UNCHANGED row PROVE UNCHANGED Lifecycle!lifecycleVars
    BY <2>1 DEF Lifecycle!lifecycleVars
  <2>2. ASSUME NEW j \in Jobs, InsertHead(j) PROVE Lifecycle!LifecycleNext
    <3> DEFINE r == [Absent EXCEPT !.status = "pending"]
    <3>1. r \in Row /\ r.status = "pending" /\ r.attempt = 0
      BY DEF Absent, Row, Status
    <3>2. row' = [row EXCEPT ![j] = r] /\ row[j].status = "absent" /\ row[j].attempt = 0
      BY <2>2 DEF InsertHead, AbsentIsBlank
    <3>3. status' = [status EXCEPT ![j] = "pending"] /\ attempt' = attempt
      BY <3>1, <3>2, OneRowChanges DEF TypeOK
    <3>4. Lifecycle!Open(j)
      BY <3>2, <3>3 DEF Lifecycle!Open
    <3> QED
      BY <3>4 DEF Lifecycle!LifecycleNext
  <2>3. ASSUME NEW a \in Analysts, EnsureRevive(a) PROVE Lifecycle!LifecycleNext
    <3>1. PICK j \in Jobs : j = request[a].job /\ row[j].status # "absent"
      BY <2>3, RwbQueueAssumption DEF EnsureRevive, ReviveSound, TypeOK, Request
    <3> DEFINE r == [status |-> "pending", claimedBy |-> NoWorker,
                     attempt |-> row[j].attempt + 1]
    <3>2. r \in Row /\ r.status = "pending" /\ r.attempt = row[j].attempt + 1
      BY <3>1 DEF Row, Status, TypeOK
    <3>3. row' = [row EXCEPT ![j] = r]
      BY <2>3, <3>1 DEF EnsureRevive, TypeOK
    <3>4. /\ status' = [status EXCEPT ![j] = "pending"]
          /\ attempt' = [attempt EXCEPT ![j] = attempt[j] + 1]
      BY <3>1, <3>2, <3>3, OneRowChanges
    <3>5. Lifecycle!Reopen(j)
      BY <3>1, <3>4 DEF Lifecycle!Reopen
    <3> QED
      BY <3>1, <3>5 DEF Lifecycle!LifecycleNext
  <2>4. ASSUME NEW w \in Workers, NEW j \in Jobs, Claim(w, j)
        PROVE  Lifecycle!LifecycleNext
    <3> DEFINE r == [row[j] EXCEPT !.status = "running", !.claimedBy = w]
    <3>1. r \in Row /\ r.status = "running" /\ r.attempt = row[j].attempt
      BY DEF Row, Status, TypeOK
    <3>2. row' = [row EXCEPT ![j] = r] /\ row[j].status = "pending"
      BY <2>4 DEF Claim, TypeOK
    <3>3. status' = [status EXCEPT ![j] = "running"] /\ attempt' = attempt
      BY <3>1, <3>2, OneRowChanges DEF TypeOK
    <3>4. Lifecycle!Start(j)
      BY <3>2, <3>3 DEF Lifecycle!Start
    <3> QED
      BY <3>4 DEF Lifecycle!LifecycleNext
  <2>5. ASSUME NEW w \in Workers, Complete(w), row' # row PROVE Lifecycle!LifecycleNext
    <3>1. PICK j \in Jobs : /\ j = worker[w].job
                           /\ worker[w].at \in Outcome /\ row[j].status = "running"
      BY <2>5, RwbQueueAssumption DEF Complete, Outcome, TypeOK, Thread
    <3> DEFINE r == [row[j] EXCEPT !.status = worker[w].at]
    <3>2. r \in Row /\ r.status = worker[w].at /\ r.attempt = row[j].attempt
      BY <3>1 DEF Row, Status, Outcome, TypeOK
    <3>3. row' = [row EXCEPT ![j] = r]
      BY <2>5, <3>1 DEF Complete, TypeOK
    <3>4. status' = [status EXCEPT ![j] = worker[w].at] /\ attempt' = attempt
      BY ZenonT(60), <3>1, <3>2, <3>3, OneRowChanges DEF TypeOK
    <3>5. Lifecycle!Finish(j)
      <4>1. status[j] = "running"
        BY <3>1
      <4>2. \E s \in {"succeeded", "failed"} : status' = [status EXCEPT ![j] = s]
        BY <3>1, <3>4 DEF Outcome
      <4> QED
        BY <3>4, <4>1, <4>2 DEF Lifecycle!Finish
    <3> QED
      BY <3>1, <3>5 DEF Lifecycle!LifecycleNext
  <2>6. ASSUME NEW j \in Jobs, Cancel(j) PROVE Lifecycle!LifecycleNext
    <3> DEFINE r == [row[j] EXCEPT !.status = "cancelled"]
    <3>1. r \in Row /\ r.status = "cancelled" /\ r.attempt = row[j].attempt
      BY DEF Row, Status, TypeOK
    <3>2. row' = [row EXCEPT ![j] = r] /\ row[j].status \in {"pending", "running", "failed"}
      BY <2>6 DEF Cancel, Dead, TypeOK
    <3>3. status' = [status EXCEPT ![j] = "cancelled"] /\ attempt' = attempt
      BY <3>1, <3>2, OneRowChanges DEF TypeOK
    <3>4. Lifecycle!Withdraw(j)
      BY <3>2, <3>3 DEF Lifecycle!Withdraw
    <3> QED
      BY <3>4 DEF Lifecycle!LifecycleNext
  <2>7. ASSUME Reconcile PROVE Lifecycle!LifecycleNext
    <3>1. PICK S \in SUBSET Jobs : S = Stale /\ \A j \in S : row[j].status = "running"
      <4>1. Stale \subseteq Jobs /\ \A j \in Stale : row[j].status = "running"
        BY DEF Stale, Dead
      <4> QED
        BY <4>1, Zenon
    <3>2. row' = [j \in Jobs |->
                    IF j \in S
                    THEN [row[j] EXCEPT !.status = "pending", !.claimedBy = NoWorker]
                    ELSE row[j]]
      BY <2>7, <3>1 DEF Reconcile
    <3>3. \A j \in Jobs : /\ row'[j].status = IF j \in S THEN "pending" ELSE row[j].status
                          /\ row'[j].attempt = row[j].attempt
      BY <3>2 DEF TypeOK, Row
    <3>4. /\ status' = [j \in Jobs |-> IF j \in S THEN "pending" ELSE status[j]]
          /\ attempt' = attempt
      BY <3>3
    <3>5. Lifecycle!Reclaim(S)
      <4>1. \A j \in S : status[j] = "running"
        BY <3>1
      <4> QED
        BY <3>4, <4>1 DEF Lifecycle!Reclaim
    <3> QED
      BY <3>1, <3>5 DEF Lifecycle!LifecycleNext
  <2>8. ASSUME NEW a \in Analysts, RequestStep(a)
        PROVE  Lifecycle!LifecycleNext \/ UNCHANGED row
    <3>1. CASE EnsureInsert(a)
      <4>1. request[a].job \in Jobs
        BY <3>1, RwbQueueAssumption DEF EnsureInsert, TypeOK, Request
      <4> QED
        BY <2>2, <3>1, <4>1 DEF EnsureInsert
    <3> QED
      BY <2>3, <2>8, <3>1 DEF RequestStep, EnsureSelect, RequestDies, ResubmitRead, EnsureCall
  <2>9. ASSUME NEW w \in Workers, ThreadStep(w)
        PROVE  Lifecycle!LifecycleNext \/ UNCHANGED row
    BY <2>4, <2>5, <2>9 DEF ThreadStep, ClaimLost, FirstBeat, Beat, BodyReturns, Crash
  <2>10. ASSUME NEW j \in Jobs, JobStep(j)
         PROVE  Lifecycle!LifecycleNext \/ UNCHANGED row
    BY <2>2, <2>6, <2>10 DEF JobStep, Enqueue, LoseMessage, DuplicateMessage,
       HeartbeatExpires, HeartbeatStalls
  <2>11. Lifecycle!LifecycleNext \/ UNCHANGED row
    BY <2>7, <2>8, <2>9, <2>10 DEF Next, DispatchPending, vars
  <2> QED
    BY <2>1, <2>11
<1> QED
  BY <1>1, <1>2, TypeCorrect, AbsentStaysBlank, ReviveHasRow, PTL DEF Spec,
     ImplementsLifecycle, Lifecycle!LifecycleSpec

-----------------------------------------------------------------------------
(* Templates, suites and executions *)

States == {"unused", "live", "deleted"}
Cache  == [kind : [Profiles -> Kinds], schemes : SUBSET Schemes]
Values == [draft : Drafts \cup {None}, stamp : Nat, against : Cache \cup {None}]
Template == [state : States, name : Names \cup {0, 1}, values : Values, tags : Nat, read : Nat, at : Nat]
Suite == [state : States, name : Names \cup {0, 1}, items : SUBSET Templates, read : Nat, at : Nat]
Admin == [at : {"idle", "copy tags", "template write", "drop", "suite write"},
          row : Templates \cup Suites \cup {None}, name : Names \cup {0}, values : Values,
          tags : Nat, items : SUBSET Templates, read : Nat]
ExecutionAt == {"idle", "open", "rows", "tags", "queued", "refused", "failed"}
Shaped(x) == DOMAIN x = {"at", "suite", "picks", "since", "values", "plan", "result"}

LibraryTyped ==
    /\ templates \in [Templates -> Template] /\ suites \in [Suites -> Suite]
    /\ admin \in [Admins -> Admin] /\ clock \in Nat
CatalogueTyped ==
    /\ rm \in Catalogues /\ cache \in Cache
    /\ sync \in [at : {"idle", "profiles", "store"}, kind : [Profiles -> Kinds]]
RequestsTyped ==
    /\ DOMAIN execution = Requests /\ execution = [q \in Requests |-> execution[q]]
    /\ \A q \in Requests : /\ Shaped(execution[q]) /\ execution[q].at \in ExecutionAt
                           /\ execution[q].picks \subseteq Templates /\ execution[q].since \in Nat
                           /\ DOMAIN execution[q].plan \subseteq
                                IF execution[q].at = "queued" THEN execution[q].picks ELSE {}
Typed == LibraryTyped /\ CatalogueTyped /\ RequestsTyped

(* Nothing is from after the clock.                                        *)
Past ==
    /\ \A t \in Templates : templates[t].read <= clock /\ templates[t].at <= clock
                            /\ templates[t].tags <= clock
    /\ \A s \in Suites : suites[s].read <= clock /\ suites[s].at <= clock
    /\ \A a \in Admins : admin[a].read <= clock /\ admin[a].tags <= clock
    /\ \A q \in Requests : execution[q].since <= clock

(* Of a row that was saved: its values and tags are of one save, or of the *)
(* reads of a copy, tags last.                                             *)
RowsKept ==
    \A t \in Templates : templates[t].state # "unused" =>
        templates[t].values.draft \in Drafts /\ templates[t].values.stamp <= templates[t].tags

(* What a transaction relies on between its checks and its commit.         *)
CopyKept(a) ==
    admin[a].at = "copy tags" =>
        LET t == admin[a].row IN
        /\ t \in Templates /\ templates[t].state # "unused" /\ admin[a].values.draft \in Drafts
        /\ admin[a].values.stamp <= templates[t].tags
WriteKept(a) ==
    admin[a].at = "template write" =>
        /\ admin[a].values.draft \in Drafts
        /\ admin[a].values.stamp # 0 => admin[a].row = None /\ admin[a].values.stamp <= admin[a].tags
DropKept(a) ==
    admin[a].at = "drop" =>
        \A s \in Suites : suites[s].state = "live" /\ admin[a].row \in suites[s].items
                              => admin[a].read < suites[s].at
SuiteKept(a) ==
    admin[a].at = "suite write" =>
        \A t \in admin[a].items : templates[t].state # "unused"
                                  /\ (templates[t].state = "deleted" => admin[a].read < templates[t].at)
AdminKept(a) == CopyKept(a) /\ WriteKept(a) /\ DropKept(a) /\ SuiteKept(a)
AdminsKept == \A a \in Admins : AdminKept(a)

(* What a request has read of a row that was live then.                    *)
ReadSince(q, t) ==
    /\ t \in Templates /\ templates[t].state # "unused"
    /\ templates[t].state = "deleted" => execution[q].since < templates[t].at
ReadingKept(q) ==
    execution[q].at = "tags" =>
        \A t \in DOMAIN execution[q].values :
            /\ t \in execution[q].picks /\ ReadSince(q, t)
            /\ execution[q].values[t].values.stamp <= templates[t].tags
QueuedKept(q) ==
    execution[q].at = "queued" =>
        /\ DOMAIN execution[q].plan = execution[q].picks
        /\ \A t \in execution[q].picks :
              ReadSince(q, t) /\ execution[q].plan[t].values.stamp <= execution[q].plan[t].tags
RequestsKept == \A q \in Requests : ReadingKept(q) /\ QueuedKept(q)

(* The stamps a request has read are numbers.                              *)
StampsTyped ==
    \A q \in Requests : execution[q].at = "tags" =>
        \A t \in DOMAIN execution[q].values : execution[q].values[t].values.stamp \in Nat

-----------------------------------------------------------------------------
(* Types *)

LEMMA StartTyped ==
    /\ NoValues \in Values /\ NoTemplate \in Template /\ NoSuite \in Suite /\ NoForm \in Admin
<1>1. NoValues \in Values
  BY DEF NoValues, Values
<1> QED
  BY <1>1 DEF NoTemplate, Template, NoSuite, Suite, NoForm, Admin, States

LEMMA GotoTyped ==
    ASSUME LibraryTyped, NEW a \in Admins, NEW rec \in Admin, Goto(a, rec)
    PROVE  admin' \in [Admins -> Admin]
  BY DEF LibraryTyped, Goto

LEMMA AdminOnlyTyped ==
    ASSUME LibraryTyped, NEW a \in Admins, NEW rec \in Admin, Goto(a, rec), OnlyAdmin
    PROVE  LibraryTyped'
  BY GotoTyped DEF LibraryTyped, OnlyAdmin, LibraryKeeps

LEMMA CommitTyped ==
    ASSUME LibraryTyped, NEW a \in Admins, Commit(a),
           templates' \in [Templates -> Template], suites' \in [Suites -> Suite]
    PROVE  LibraryTyped'
  BY GotoTyped, StartTyped DEF LibraryTyped, Commit

LEMMA TemplateStepTyped ==
    ASSUME LibraryTyped, AdminsKept, cache \in Cache, NEW a \in Admins, TemplateStep(a)
    PROVE  LibraryTyped'
<1>1. ASSUME NEW t \in Live(templates) \cup {None}, NEW n \in Names, NEW d \in Drafts, BeginTemplate(a, t, n, d)
      PROVE  LibraryTyped'
  <2> DEFINE v == [draft |-> d, stamp |-> 0, against |-> cache]
             rec == [NoForm EXCEPT !.at = "template write", !.row = t, !.name = n, !.read = clock, !.values = v]
  <2>1. v \in Values
    BY DEF Values
  <2>2. t \in Templates \cup {None} /\ clock \in Nat
    BY DEF Live, LibraryTyped
  <2> HIDE DEF v
  <2>3. rec \in Admin
    BY <2>1, <2>2 DEF NoForm, Admin
  <2>4. Goto(a, rec) /\ OnlyAdmin
    BY <1>1 DEF BeginTemplate, v
  <2> HIDE DEF rec
  <2> QED
    BY <2>3, <2>4, AdminOnlyTyped
<1>2. ASSUME NEW t \in Templates, ReadOriginal(a, t)
      PROVE  LibraryTyped'
  <2> DEFINE rec == [NoForm EXCEPT !.at = "copy tags", !.row = t, !.read = clock, !.values = templates[t].values]
  <2>1. templates[t].values \in Values /\ clock \in Nat
    BY DEF LibraryTyped, Template
  <2>2. rec \in Admin
    BY <2>1 DEF NoForm, Admin
  <2>3. Goto(a, rec) /\ OnlyAdmin
    BY <1>2 DEF ReadOriginal
  <2> HIDE DEF rec
  <2> QED
    BY <2>2, <2>3, AdminOnlyTyped
<1>3. ASSUME NEW t \in Templates, ReadUsers(a, t)
      PROVE  LibraryTyped'
  <2> DEFINE rec == [NoForm EXCEPT !.at = "drop", !.row = t, !.read = clock]
  <2>1. rec \in Admin
    BY StartTyped DEF LibraryTyped, NoForm, Admin
  <2>2. Goto(a, rec) /\ OnlyAdmin
    BY <1>3 DEF ReadUsers
  <2> HIDE DEF rec
  <2> QED
    BY <2>1, <2>2, AdminOnlyTyped
<1>4. CASE ReadOriginalTags(a)
  <2>1. CASE Goto(a, NoForm) /\ OnlyAdmin
    BY <2>1, StartTyped, AdminOnlyTyped
  <2>2. ASSUME NEW n \in Names, admin[a].row \in Templates,
               Goto(a, [admin[a] EXCEPT !.at = "template write", !.row = None, !.name = n,
                            !.tags = templates[admin[a].row].tags, !.values.against = cache])
        PROVE  LibraryTyped'
    <3> DEFINE v == [admin[a].values EXCEPT !.against = cache]
               g == templates[admin[a].row].tags
               rec == [admin[a] EXCEPT !.at = "template write", !.row = None, !.name = n, !.tags = g, !.values = v]
    <3>1. admin[a] \in Admin /\ g \in Nat
      BY <2>2 DEF LibraryTyped, Template
    <3>2. v \in Values
      BY <3>1 DEF Admin, Values
    <3>3. Goto(a, rec) /\ OnlyAdmin
      BY <2>2, <3>1, <1>4 DEF ReadOriginalTags, Admin
    <3> HIDE DEF v, g
    <3>4. rec \in Admin
      BY <3>1, <3>2 DEF Admin
    <3> HIDE DEF rec
    <3> QED
      BY <3>3, <3>4, AdminOnlyTyped
  <2> QED
    BY <2>1, <2>2, <1>4 DEF ReadOriginalTags, CopyNames, AdminsKept, AdminKept, CopyKept
<1>5. CASE WriteTemplate(a)
  <2>1. SavedTemplate(a) \in Template
    <3> DEFINE v == admin[a].values
               w == IF v.stamp = 0 THEN [v EXCEPT !.stamp = clock + 1] ELSE v
               g == IF v.stamp = 0 THEN clock + 1 ELSE admin[a].tags
    <3>1. admin[a] \in Admin /\ v \in Values /\ clock \in Nat
      BY DEF LibraryTyped, Admin
    <3>2. w \in Values /\ g \in Nat /\ clock + 1 \in Nat
      <4>0. admin[a].tags \in Nat
        BY <3>1 DEF Admin
      <4>1. clock + 1 \in Nat /\ admin[a].tags \in Nat
        BY <3>1, <4>0
      <4>2. [v EXCEPT !.stamp = clock + 1] \in Values
        BY <3>1, <4>1 DEF Values
      <4> QED
        BY <3>1, <4>1, <4>2
    <3>3. [state |-> "live", name |-> admin[a].name, read |-> admin[a].read, at |-> clock + 1,
           values |-> w, tags |-> g] \in Template
      <4> HIDE DEF w, g
      <4> QED
        BY <3>1, <3>2 DEF Template, States, Admin
    <3> QED
      BY <3>3 DEF SavedTemplate
  <2>2. templates' \in [Templates -> Template]
    BY <2>1, <1>5 DEF WriteTemplate, LibraryTyped
  <2> QED
    BY <2>2, <1>5, CommitTyped DEF WriteTemplate, LibraryTyped
<1>6. CASE TemplateRefused(a)
  BY <1>6, StartTyped, AdminOnlyTyped DEF TemplateRefused
<1>7. CASE DropTemplate(a)
  <2> DEFINE t == admin[a].row
             w == [templates[t] EXCEPT !.state = "deleted", !.read = admin[a].read, !.at = clock + 1]
  <2>1. CASE Goto(a, NoForm) /\ OnlyAdmin
    BY <2>1, StartTyped, AdminOnlyTyped
  <2>2. CASE t \in Templates /\ templates' = [templates EXCEPT ![t] = w] /\ Commit(a) /\ UNCHANGED suites
    <3>1. w \in Template
      <4>0. admin[a] \in Admin /\ templates[t] \in Template /\ clock + 1 \in Nat
        BY <2>2 DEF LibraryTyped
      <4>1. templates[t] \in Template /\ admin[a].read \in Nat /\ clock + 1 \in Nat
        BY <4>0 DEF Admin
      <4> QED
        BY <4>1 DEF Template, States
    <3> HIDE DEF w, t
    <3>2. templates' \in [Templates -> Template]
      BY <3>1, <2>2 DEF LibraryTyped
    <3> QED
      BY <3>2, <2>2, CommitTyped DEF LibraryTyped
  <2> QED
    BY <2>1, <2>2, <1>7 DEF DropTemplate, Live, LibraryTyped
<1> QED
  BY <1>1, <1>2, <1>3, <1>4, <1>5, <1>6, <1>7 DEF TemplateStep

LEMMA SuiteStepTyped ==
    ASSUME LibraryTyped, NEW a \in Admins, SuiteStep(a)
    PROVE  LibraryTyped'
<1>1. ASSUME NEW s \in Live(suites) \cup {None}, NEW n \in Names, NEW i, BeginSuite(a, s, n, i)
      PROVE  LibraryTyped'
  <2> DEFINE rec == [NoForm EXCEPT !.at = "suite write", !.row = s, !.name = n, !.items = i, !.read = clock]
  <2>1. s \in Suites \cup {None} /\ clock \in Nat /\ i \subseteq Templates
    BY <1>1 DEF Live, LibraryTyped, BeginSuite
  <2>2. rec \in Admin
    BY <2>1, StartTyped DEF NoForm, Admin
  <2>3. Goto(a, rec) /\ OnlyAdmin
    BY <1>1 DEF BeginSuite
  <2> HIDE DEF rec
  <2> QED
    BY <2>2, <2>3, AdminOnlyTyped
<1>2. ASSUME NEW s \in Suites, CopySuite(a, s)
      PROVE  LibraryTyped'
  BY <1>1, <1>2 DEF CopySuite, CopyNames
<1>3. ASSUME NEW s \in Suites, DropSuite(a, s)
      PROVE  LibraryTyped'
  <2> DEFINE w == [suites[s] EXCEPT !.state = "deleted", !.at = clock + 1]
  <2>1. w \in Suite
    <3>1. suites[s] \in Suite /\ clock + 1 \in Nat
      BY DEF LibraryTyped
    <3> QED
      BY <3>1 DEF Suite, States
  <2>2. suites' = [suites EXCEPT ![s] = w] /\ Commit(a) /\ UNCHANGED templates
    BY <1>3 DEF DropSuite
  <2> HIDE DEF w
  <2> QED
    BY <2>1, <2>2, CommitTyped DEF LibraryTyped
<1>4. CASE WriteSuite(a)
  <2> DEFINE w == [state |-> "live", name |-> admin[a].name, items |-> admin[a].items,
                   read |-> admin[a].read, at |-> clock + 1]
  <2>1. w \in Suite
    <3>1. admin[a] \in Admin /\ clock + 1 \in Nat
      BY DEF LibraryTyped
    <3> QED
      BY <3>1 DEF Suite, States, Admin
  <2>2. suites' \in [Suites -> Suite] /\ Commit(a) /\ UNCHANGED templates
    <3>1. PICK s \in Suites : suites' = [suites EXCEPT ![s] = w]
      BY <1>4 DEF WriteSuite
    <3> HIDE DEF w
    <3> QED
      BY <2>1, <3>1, <1>4 DEF LibraryTyped, WriteSuite
  <2> QED
    BY <2>2, CommitTyped DEF LibraryTyped
<1>5. CASE SuiteRefused(a)
  BY <1>5, StartTyped, AdminOnlyTyped DEF SuiteRefused
<1> QED
  BY <1>1, <1>2, <1>3, <1>4, <1>5 DEF SuiteStep

CatalogueStep == RequestSync \/ ReadProfiles \/ StoreSync \/ SyncFails \/ RmChanges

LEMMA CatalogueStepTyped ==
    ASSUME CatalogueTyped, CatalogueStep
    PROVE  CatalogueTyped'
<1>1. rm \in Cache /\ sync.kind \in [Profiles -> Kinds]
  BY CataloguesAssumption DEF CatalogueTyped, Cache
<1>2. NoSync \in [at : {"idle", "profiles", "store"}, kind : [Profiles -> Kinds]]
  BY DEF NoSync, Kinds
<1>3. CASE RequestSync
  BY <1>3 DEF RequestSync, CatalogueTyped, OnlySync
<1>4. CASE ReadProfiles
  BY <1>1, <1>4 DEF ReadProfiles, CatalogueTyped, OnlySync, Cache
<1>5. CASE StoreSync
  BY <1>1, <1>2, <1>5 DEF StoreSync, CatalogueTyped, OnlySync, Cache
<1>6. CASE SyncFails
  BY <1>2, <1>6 DEF SyncFails, CatalogueTyped, OnlySync
<1>7. CASE RmChanges
  BY <1>7 DEF RmChanges, CatalogueTyped
<1> QED
  BY <1>3, <1>4, <1>5, <1>6, <1>7 DEF CatalogueStep

LEMMA AskTyped ==
    ASSUME RequestsTyped, NEW q \in Requests, NEW rec, Ask(q, rec), Shaped(rec), rec.at \in ExecutionAt,
           rec.picks \subseteq Templates, rec.since \in Nat,
           DOMAIN rec.plan \subseteq IF rec.at = "queued" THEN rec.picks ELSE {}
    PROVE  /\ RequestsTyped' /\ execution'[q] = rec
           /\ \A p \in Requests : p # q => execution'[p] = execution[p]
<1>1. execution'[q] = rec /\ \A p \in Requests : p # q => execution'[p] = execution[p]
  BY DEF RequestsTyped, Ask
<1>2. DOMAIN execution' = Requests /\ execution' = [p \in Requests |-> execution'[p]]
  BY DEF RequestsTyped, Ask
<1> QED
  BY <1>1, <1>2 DEF RequestsTyped, Shaped

ExecutionStep(q) ==
    \/ \E s \in Suites \cup {None}, p \in SUBSET Templates : OpenModal(q, s, p)
    \/ CheckSelection(q) \/ ReadRows(q) \/ Compose(q) \/ Submit(q)

(* What each step makes of a request.                                      *)
Moved(q, at, since) ==
    LET p == execution'[q] r == execution[q] IN
    p.at = at /\ p.picks = r.picks /\ p.since = since

LEMMA RequestMoves ==
    ASSUME RequestsTyped, clock \in Nat, NEW q \in Requests, ExecutionStep(q)
    PROVE  /\ RequestsTyped' /\ UNCHANGED <<templates, suites, clock, admin>>
           /\ \A p \in Requests : p # q => execution'[p] = execution[p]
           /\ \/ execution'[q].at \notin {"tags", "queued"} /\ execution'[q].since \in {execution[q].since, clock}
              \/ Moved(q, "tags", execution[q].since)
                 /\ execution'[q].values = [t \in execution[q].picks \cap Live(templates) |->
                       [values |-> templates[t].values,
                        kind |-> cache.kind[templates[t].values.draft.profile]]]
              \/ execution[q].at = "tags" /\ Moved(q, "queued", execution[q].since)
                 /\ execution[q].picks = DOMAIN execution[q].values
                 /\ execution'[q].plan = [t \in DOMAIN execution[q].values |->
                       [values |-> execution[q].values[t].values, type |-> execution[q].values[t].kind,
                        tags |-> templates[t].tags]]
              \/ execution[q].at = "queued" /\ Moved(q, "queued", execution[q].since)
                 /\ execution'[q].plan = execution[q].plan
<1> DEFINE r == execution[q]
<1>1. /\ Shaped(r) /\ r.at \in ExecutionAt /\ r.picks \subseteq Templates /\ r.since \in Nat
      /\ DOMAIN r.plan \subseteq IF r.at = "queued" THEN r.picks ELSE {}
  BY DEF RequestsTyped
<1>2. UNCHANGED <<templates, suites, clock, admin>>
  BY DEF ExecutionStep, OpenModal, CheckSelection, ReadRows, Compose, Submit, OnlyRequest, LibraryKeeps
<1>3. ASSUME NEW s, NEW p \in SUBSET Templates, OpenModal(q, s, p)
      PROVE  /\ RequestsTyped' /\ \A o \in Requests : o # q => execution'[o] = execution[o]
             /\ execution'[q].at \notin {"tags", "queued"} /\ execution'[q].since = r.since
  <2> DEFINE rec == [r EXCEPT !.at = "open", !.suite = s, !.picks = p]
  <2>1. Ask(q, rec) /\ r.at = "idle"
    BY <1>3 DEF OpenModal
  <2>2. Shaped(rec) /\ rec.at = "open" /\ rec.picks = p /\ rec.since = r.since /\ rec.plan = r.plan
    BY <1>1 DEF Shaped
  <2> HIDE DEF rec
  <2>3. rec.at \in ExecutionAt /\ rec.since \in Nat
        /\ DOMAIN rec.plan \subseteq IF rec.at = "queued" THEN rec.picks ELSE {}
    BY <1>1, <2>1, <2>2 DEF ExecutionAt
  <2> QED
    BY <2>1, <2>2, <2>3, AskTyped
<1>4. ASSUME CheckSelection(q)
      PROVE  /\ RequestsTyped' /\ \A o \in Requests : o # q => execution'[o] = execution[o]
             /\ execution'[q].at \notin {"tags", "queued"} /\ execution'[q].since = clock
  <2>1. PICK e \in {"rows", "refused"} : Ask(q, [r EXCEPT !.at = e, !.since = clock]) /\ r.at = "open"
    BY <1>4 DEF CheckSelection
  <2> DEFINE rec == [r EXCEPT !.at = e, !.since = clock]
  <2>2. Shaped(rec) /\ rec.at = e /\ rec.picks = r.picks /\ rec.since = clock /\ rec.plan = r.plan
    BY <1>1 DEF Shaped
  <2>3. Ask(q, rec)
    BY <2>1
  <2> HIDE DEF rec
  <2>4. rec.at \in ExecutionAt /\ rec.at \notin {"tags", "queued"} /\ rec.picks \subseteq Templates
        /\ rec.since \in Nat /\ DOMAIN rec.plan \subseteq IF rec.at = "queued" THEN rec.picks ELSE {}
    BY <1>1, <2>1, <2>2 DEF ExecutionAt
  <2> QED
    BY <2>2, <2>3, <2>4, AskTyped
<1>5. ASSUME ReadRows(q)
      PROVE  /\ RequestsTyped' /\ \A o \in Requests : o # q => execution'[o] = execution[o]
             /\ Moved(q, "tags", r.since)
             /\ execution'[q].values = [t \in r.picks \cap Live(templates) |->
                       [values |-> templates[t].values,
                        kind |-> cache.kind[templates[t].values.draft.profile]]]
  <2> DEFINE v == [t \in r.picks \cap Live(templates) |->
                     [values |-> templates[t].values,
                      kind |-> cache.kind[templates[t].values.draft.profile]]]
             rec == [r EXCEPT !.at = "tags", !.values = v]
  <2>1. Ask(q, rec) /\ r.at = "rows"
    BY <1>5 DEF ReadRows
  <2> HIDE DEF v
  <2>2. Shaped(rec) /\ rec.at = "tags" /\ rec.picks = r.picks /\ rec.since = r.since
        /\ rec.plan = r.plan /\ rec.values = v
    BY <1>1 DEF Shaped
  <2> HIDE DEF rec
  <2>3. rec.at \in ExecutionAt /\ rec.picks \subseteq Templates /\ rec.since \in Nat
        /\ DOMAIN rec.plan \subseteq IF rec.at = "queued" THEN rec.picks ELSE {}
    BY <1>1, <2>1, <2>2 DEF ExecutionAt
  <2>4. /\ RequestsTyped' /\ execution'[q] = rec
        /\ \A o \in Requests : o # q => execution'[o] = execution[o]
    BY <2>1, <2>2, <2>3, AskTyped
  <2> QED
    BY <2>2, <2>4 DEF Moved, v
<1>6. ASSUME Compose(q)
      PROVE  /\ RequestsTyped' /\ \A o \in Requests : o # q => execution'[o] = execution[o]
             /\ execution'[q].since = r.since
             /\ \/ execution'[q].at \notin {"tags", "queued"}
                \/ /\ r.at = "tags" /\ Moved(q, "queued", r.since) /\ r.picks = DOMAIN r.values
                   /\ execution'[q].plan = [t \in DOMAIN r.values |->
                         [values |-> r.values[t].values, type |-> r.values[t].kind,
                          tags |-> templates[t].tags]]
  <2> DEFINE P == [t \in DOMAIN r.values |->
                     [values |-> r.values[t].values, type |-> r.values[t].kind,
                      tags |-> templates[t].tags]]
  <2>1. PICK e \in {"refused", "failed", "queued"} :
          /\ e = "queued" => r.picks = DOMAIN r.values
          /\ Ask(q, [r EXCEPT !.at = e, !.values = << >>, !.plan = IF e # "queued" THEN << >> ELSE P])
    BY <1>6 DEF Compose
  <2> DEFINE pl == IF e # "queued" THEN << >> ELSE P
             rec == [r EXCEPT !.at = e, !.values = << >>, !.plan = pl]
  <2>2. Ask(q, rec)
    BY <2>1
  <2>3. /\ DOMAIN pl \subseteq IF e = "queued" THEN r.picks ELSE {}
        /\ e = "queued" => pl = P
    BY <2>1
  <2> HIDE DEF pl, P
  <2>4. Shaped(rec) /\ rec.at = e /\ rec.since = r.since /\ rec.plan = pl /\ rec.picks = r.picks
    BY <1>1 DEF Shaped
  <2> HIDE DEF rec
  <2>5. rec.at \in ExecutionAt /\ rec.picks \subseteq Templates /\ rec.since \in Nat
        /\ DOMAIN rec.plan \subseteq IF rec.at = "queued" THEN rec.picks ELSE {}
    BY <1>1, <2>1, <2>3, <2>4 DEF ExecutionAt
  <2>6. /\ RequestsTyped' /\ execution'[q] = rec
        /\ \A o \in Requests : o # q => execution'[o] = execution[o]
    BY <2>2, <2>4, <2>5, AskTyped
  <2>7. CASE e = "queued"
    BY <2>1, <2>3, <2>4, <2>6, <2>7, <1>6 DEF Moved, P, Compose
  <2> QED
    BY <2>1, <2>4, <2>6, <2>7
<1>7. ASSUME Submit(q)
      PROVE  /\ RequestsTyped' /\ \A o \in Requests : o # q => execution'[o] = execution[o]
             /\ r.at = "queued" /\ Moved(q, "queued", r.since) /\ execution'[q].plan = r.plan
  <2>1. PICK z : Ask(q, [r EXCEPT !.result = z]) /\ r.at = "queued"
    BY <1>7 DEF Submit
  <2> DEFINE rec == [r EXCEPT !.result = z]
  <2>2. Shaped(rec) /\ rec.at = r.at /\ rec.since = r.since /\ rec.plan = r.plan /\ rec.picks = r.picks
    BY <1>1 DEF Shaped
  <2>3. Ask(q, rec)
    BY <2>1
  <2> HIDE DEF rec
  <2>4. /\ RequestsTyped' /\ execution'[q] = rec
        /\ \A o \in Requests : o # q => execution'[o] = execution[o]
    BY <1>1, <2>2, <2>3, AskTyped
  <2> QED
    BY <2>1, <2>2, <2>4 DEF Moved
<1> QED
  BY <1>2, <1>3, <1>4, <1>5, <1>6, <1>7 DEF ExecutionStep

LEMMA InitTyped == LibraryInit => Typed
<1> SUFFICES ASSUME LibraryInit PROVE Typed
  OBVIOUS
<1>1. cache \in Cache /\ rm \in Catalogues
  BY CataloguesAssumption DEF LibraryInit, Cache
<1>2. PICK d \in Drafts : templates = [t \in Templates |-> IF t # Kept THEN NoTemplate
                           ELSE [state |-> "live", name |-> 1, tags |-> 1, read |-> 0, at |-> 1,
                                 values |-> [draft |-> d, stamp |-> 1, against |-> cache]]]
  BY DEF LibraryInit
<1> DEFINE v == [draft |-> d, stamp |-> 1, against |-> cache]
           w == [state |-> "live", name |-> 1, tags |-> 1, read |-> 0, at |-> 1, values |-> v]
<1>3. v \in Values
  BY <1>1 DEF Values
<1> HIDE DEF v
<1>4. w \in Template
  BY <1>3 DEF Template, States
<1>5. templates = [t \in Templates |-> IF t # Kept THEN NoTemplate ELSE w]
  BY <1>2 DEF v
<1> HIDE DEF w
<1>6. templates \in [Templates -> Template]
  BY <1>4, <1>5, StartTyped
<1>7. suites \in [Suites -> Suite]
  <2>1. PICK i \in SUBSET {Kept} :
         suites = [s \in Suites |-> IF s # KeptSuite THEN NoSuite
                     ELSE [state |-> "live", name |-> 1, items |-> i, read |-> 1, at |-> 2]]
    BY DEF LibraryInit
  <2> DEFINE u == [state |-> "live", name |-> 1, items |-> i, read |-> 1, at |-> 2]
  <2>2. u \in Suite
    BY KeptAssumption DEF Suite, States
  <2> HIDE DEF u
  <2>3. suites = [s \in Suites |-> IF s # KeptSuite THEN NoSuite ELSE u]
    BY <2>1 DEF u
  <2> QED
    BY <2>2, <2>3, StartTyped
<1>8. LibraryTyped
  BY <1>6, <1>7, StartTyped DEF LibraryTyped, LibraryInit
<1>9. sync \in [at : {"idle", "profiles", "store"}, kind : [Profiles -> Kinds]]
  BY DEF LibraryInit, NoSync, Kinds
<1>10. RequestsTyped
  <2>1. \A q \in Requests : execution[q] = NoRequest
    BY DEF LibraryInit
  <2>2. Shaped(NoRequest) /\ NoRequest.at \in ExecutionAt /\ NoRequest.picks \subseteq Templates
        /\ NoRequest.since \in Nat /\ DOMAIN NoRequest.plan \subseteq {}
    BY DEF NoRequest, Shaped, ExecutionAt
  <2>3. DOMAIN execution = Requests /\ execution = [q \in Requests |-> execution[q]]
    BY DEF LibraryInit
  <2> HIDE DEF NoRequest
  <2> QED
    BY <2>1, <2>2, <2>3 DEF RequestsTyped
<1> QED
  BY <1>1, <1>8, <1>9, <1>10 DEF Typed, CatalogueTyped

(* What each kind of step leaves alone.                                    *)
LEMMA NextSplit ==
    ASSUME [LibraryNext]_libraryVars
    PROVE  \/ \E a \in Admins : (TemplateStep(a) \/ SuiteStep(a)) /\ UNCHANGED <<rm, cache, sync, execution>>
           \/ CatalogueStep /\ UNCHANGED <<templates, suites, clock, admin, execution>>
           \/ \E q \in Requests : ExecutionStep(q) /\ UNCHANGED <<rm, cache, sync, templates, suites, clock, admin>>
           \/ UNCHANGED libraryVars
<1>1. ASSUME NEW a \in Admins, TemplateStep(a)
      PROVE  UNCHANGED <<rm, cache, sync, execution>>
  BY <1>1 DEF TemplateStep, BeginTemplate, ReadOriginal, ReadUsers, ReadOriginalTags, WriteTemplate,
              TemplateRefused, DropTemplate, OnlyAdmin, Commit, CatalogueKeeps
<1>2. ASSUME NEW a \in Admins, SuiteStep(a)
      PROVE  UNCHANGED <<rm, cache, sync, execution>>
  BY <1>2 DEF SuiteStep, BeginSuite, CopySuite, DropSuite, WriteSuite, SuiteRefused, OnlyAdmin, Commit,
              CatalogueKeeps
<1>3. ASSUME CatalogueStep
      PROVE  UNCHANGED <<templates, suites, clock, admin, execution>>
  BY <1>3 DEF CatalogueStep, RequestSync, ReadProfiles, StoreSync, SyncFails, RmChanges, OnlySync, LibraryKeeps
<1>4. ASSUME NEW q \in Requests, ExecutionStep(q)
      PROVE  UNCHANGED <<rm, cache, sync, templates, suites, clock, admin>>
  BY <1>4 DEF ExecutionStep, OpenModal, CheckSelection, ReadRows, Compose, Submit, OnlyRequest, LibraryKeeps,
              CatalogueKeeps
<1> QED
  BY SMTT(60), <1>1, <1>2, <1>3, <1>4 DEF LibraryNext, CatalogueStep, ExecutionStep

LEMMA StepTyped ==
    ASSUME Typed, AdminsKept, [LibraryNext]_libraryVars
    PROVE  Typed'
<1>1. ASSUME NEW a \in Admins, TemplateStep(a) \/ SuiteStep(a), UNCHANGED <<rm, cache, sync, execution>>
      PROVE  Typed'
  BY <1>1, TemplateStepTyped, SuiteStepTyped DEF Typed, CatalogueTyped, RequestsTyped
<1>2. ASSUME CatalogueStep, UNCHANGED <<templates, suites, clock, admin, execution>>
      PROVE  Typed'
  BY <1>2, CatalogueStepTyped DEF Typed, LibraryTyped, RequestsTyped
<1>3. ASSUME NEW q \in Requests, ExecutionStep(q), UNCHANGED <<rm, cache, sync, templates, suites, clock, admin>>
      PROVE  Typed'
  <2>1. RequestsTyped'
    BY <1>3, RequestMoves DEF Typed, LibraryTyped
  <2> QED
    BY <2>1, <1>3 DEF Typed, LibraryTyped, CatalogueTyped
<1>4. CASE UNCHANGED libraryVars
  BY <1>4 DEF libraryVars, Typed, LibraryTyped, CatalogueTyped, RequestsTyped
<1> QED
  BY <1>1, <1>2, <1>3, <1>4, NextSplit

-----------------------------------------------------------------------------
(* How rows change *)

(* A template is left alone, saved, or marked deleted after a look at the  *)
(* suites; a suite is left alone, marked deleted or saved.                 *)
Saved(t) ==
    /\ templates[t].state \in {"unused", "live"} /\ templates'[t].state = "live"
    /\ templates'[t].values.draft \in Drafts
    /\ templates'[t].values.stamp <= templates'[t].tags /\ templates'[t].tags <= clock'
    /\ templates[t].state = "live" => templates[t].tags <= templates'[t].tags
    /\ templates'[t].read <= clock' /\ templates'[t].at <= clock'
Dropped(t) ==
    /\ templates[t].state = "live" /\ templates'[t].state = "deleted"
    /\ templates'[t].values = templates[t].values /\ templates'[t].tags = templates[t].tags
    /\ clock < templates'[t].at /\ templates'[t].at <= clock' /\ templates'[t].read <= clock
    /\ \A s \in Suites : suites[s].state = "live" /\ t \in suites[s].items
                            => templates'[t].read < suites[s].at
SuiteSaved(s) ==
    /\ clock < suites'[s].at /\ suites'[s].at <= clock' /\ suites'[s].read <= clock
    /\ \A t \in suites'[s].items :
          templates[t].state = "deleted" => suites'[s].read < templates[t].at
SuiteDropped(s) ==
    /\ suites'[s].state = "deleted" /\ suites'[s].read = suites[s].read /\ suites'[s].at <= clock'
LibraryMoves ==
    /\ clock <= clock'
    /\ \/ /\ suites' = suites
          /\ \A t \in Templates : templates'[t] = templates[t] \/ Saved(t) \/ Dropped(t)
       \/ /\ templates' = templates
          /\ \A s \in Suites : suites'[s] = suites[s] \/ SuiteSaved(s) \/ SuiteDropped(s)

LEMMA OnlyAdminMoves ==
    ASSUME LibraryTyped, OnlyAdmin
    PROVE  LibraryMoves
  BY DEF OnlyAdmin, LibraryKeeps, LibraryMoves, LibraryTyped

LEMMA TemplateStepMoves ==
    ASSUME LibraryTyped, Past, AdminsKept, NEW a \in Admins, TemplateStep(a)
    PROVE  LibraryMoves
<1>1. CASE OnlyAdmin
  BY <1>1, OnlyAdminMoves
<1>2. clock \in Nat /\ admin[a].read \in Nat /\ admin[a].tags \in Nat /\ admin[a].values \in Values
      /\ admin[a].read <= clock /\ admin[a].tags <= clock
  <2>1. admin[a] \in Admin /\ clock \in Nat
    BY DEF LibraryTyped
  <2> QED
    BY <2>1 DEF Admin, Past
<1>3. CASE WriteTemplate(a)
  <2> DEFINE v == admin[a].values w == SavedTemplate(a)
  <2>1. PICK t \in Templates :
          /\ IF admin[a].row = None THEN templates[t].state = "unused"
             ELSE t = admin[a].row /\ t \in Live(templates)
          /\ templates' = [templates EXCEPT ![t] = w]
    BY <1>3 DEF WriteTemplate
  <2>2. clock' = clock + 1 /\ suites' = suites
    BY <1>3 DEF WriteTemplate, Commit
  <2>3. v.draft \in Drafts /\ v.stamp \in Nat /\ (v.stamp # 0 => admin[a].row = None /\ v.stamp <= admin[a].tags)
    BY <1>2, <1>3 DEF AdminsKept, AdminKept, WriteKept, WriteTemplate, Values
  <2>4. w.state = "live" /\ w.at = clock + 1 /\ w.read = admin[a].read
    BY DEF SavedTemplate
  <2>5. w.values = (IF v.stamp = 0 THEN [v EXCEPT !.stamp = clock + 1] ELSE v)
        /\ w.tags = (IF v.stamp = 0 THEN clock + 1 ELSE admin[a].tags)
    BY DEF SavedTemplate
  <2> HIDE DEF w
  <2>6. w.values.draft \in Drafts /\ w.values.stamp <= w.tags /\ w.tags <= clock + 1
    <3>1. CASE v.stamp = 0
      <4>1. [v EXCEPT !.stamp = clock + 1].draft = v.draft /\ [v EXCEPT !.stamp = clock + 1].stamp = clock + 1
        BY <1>2 DEF Values
      <4> QED
        BY <1>2, <3>1, <4>1, <2>3, <2>5
    <3>2. CASE v.stamp # 0
      BY <1>2, <3>2, <2>3, <2>5
    <3> QED
      BY <3>1, <3>2
  <2>7. templates[t].state \in {"unused", "live"} /\ templates[t].tags <= clock /\ templates[t].tags \in Nat
    <3>1. templates[t] \in Template
      BY DEF LibraryTyped
    <3> QED
      BY <2>1, <3>1 DEF Live, Past, Template
  <2>8. templates[t].state = "live" => templates[t].tags <= w.tags
    BY <1>2, <2>1, <2>3, <2>5, <2>7
  <2>9. templates'[t] = w /\ \A u \in Templates : u # t => templates'[u] = templates[u]
    BY <2>1 DEF LibraryTyped
  <2>10. Saved(t)
    BY <1>2, <2>2, <2>4, <2>6, <2>7, <2>8, <2>9 DEF Saved
  <2> QED
    BY <1>2, <2>2, <2>9, <2>10 DEF LibraryMoves
<1>4. CASE DropTemplate(a) /\ ~ OnlyAdmin
  <2> DEFINE t == admin[a].row
             w == [templates[t] EXCEPT !.state = "deleted", !.read = admin[a].read, !.at = clock + 1]
  <2>1. t \in Live(templates) /\ templates' = [templates EXCEPT ![t] = w] /\ Commit(a) /\ UNCHANGED suites
        /\ admin[a].at = "drop"
    BY <1>4 DEF DropTemplate
  <2>2. t \in Templates /\ templates[t] \in Template /\ templates[t].state = "live"
    BY <2>1 DEF Live, LibraryTyped
  <2>3. w.state = "deleted" /\ w.values = templates[t].values /\ w.tags = templates[t].tags
        /\ w.read = admin[a].read /\ w.at = clock + 1
    BY <2>2 DEF Template
  <2>4. \A s \in Suites : suites[s].state = "live" /\ t \in suites[s].items => admin[a].read < suites[s].at
    BY <2>1 DEF AdminsKept, AdminKept, DropKept
  <2> HIDE DEF w, t
  <2>5. templates'[t] = w /\ \A u \in Templates : u # t => templates'[u] = templates[u]
    BY <2>1, <2>2 DEF LibraryTyped
  <2>6. clock' = clock + 1 /\ suites' = suites
    BY <2>1 DEF Commit
  <2>7. Dropped(t)
    BY <1>2, <2>2, <2>3, <2>4, <2>5, <2>6 DEF Dropped
  <2> QED
    BY <1>2, <2>5, <2>6, <2>7 DEF LibraryMoves
<1> QED
  BY <1>1, <1>3, <1>4 DEF TemplateStep, BeginTemplate, ReadOriginal, ReadUsers, ReadOriginalTags, TemplateRefused

LEMMA SuiteStepMoves ==
    ASSUME LibraryTyped, Past, AdminsKept, NEW a \in Admins, SuiteStep(a)
    PROVE  LibraryMoves
<1>1. CASE OnlyAdmin
  BY <1>1, OnlyAdminMoves
<1>2. clock \in Nat /\ admin[a].read \in Nat /\ admin[a].read <= clock
  <2>1. admin[a] \in Admin /\ clock \in Nat
    BY DEF LibraryTyped
  <2> QED
    BY <2>1 DEF Admin, Past
<1>3. CASE WriteSuite(a)
  <2> DEFINE w == [state |-> "live", name |-> admin[a].name, items |-> admin[a].items,
                   read |-> admin[a].read, at |-> clock + 1]
  <2>1. PICK s \in Suites : suites' = [suites EXCEPT ![s] = w]
    BY <1>3 DEF WriteSuite
  <2>2. clock' = clock + 1 /\ templates' = templates
    BY <1>3 DEF WriteSuite, Commit
  <2>3. \A t \in admin[a].items : templates[t].state = "deleted" => admin[a].read < templates[t].at
    BY <1>3 DEF AdminsKept, AdminKept, SuiteKept, WriteSuite
  <2>4. w.items = admin[a].items /\ w.read = admin[a].read /\ w.at = clock + 1
    OBVIOUS
  <2> HIDE DEF w
  <2>5. suites'[s] = w /\ \A u \in Suites : u # s => suites'[u] = suites[u]
    BY <2>1 DEF LibraryTyped
  <2>6. SuiteSaved(s)
    BY <1>2, <2>2, <2>3, <2>4, <2>5 DEF SuiteSaved
  <2> QED
    BY <1>2, <2>2, <2>5, <2>6 DEF LibraryMoves
<1>4. ASSUME NEW s \in Suites, DropSuite(a, s)
      PROVE  LibraryMoves
  <2> DEFINE w == [suites[s] EXCEPT !.state = "deleted", !.at = clock + 1]
  <2>1. suites' = [suites EXCEPT ![s] = w] /\ clock' = clock + 1 /\ templates' = templates
    BY <1>4 DEF DropSuite, Commit
  <2>2. w.state = "deleted" /\ w.read = suites[s].read /\ w.at = clock + 1
    <3>1. suites[s] \in Suite
      BY DEF LibraryTyped
    <3> QED
      BY <3>1 DEF Suite
  <2> HIDE DEF w
  <2>3. suites'[s] = w /\ \A u \in Suites : u # s => suites'[u] = suites[u]
    BY <2>1 DEF LibraryTyped
  <2>4. SuiteDropped(s)
    BY <1>2, <2>1, <2>2, <2>3 DEF SuiteDropped
  <2> QED
    BY <1>2, <2>1, <2>3, <2>4 DEF LibraryMoves
<1> QED
  BY <1>1, <1>3, <1>4 DEF SuiteStep, BeginSuite, CopySuite, SuiteRefused

Numbers ==
    /\ clock \in Nat
    /\ \A t \in Templates : templates[t].tags \in Nat /\ templates[t].read \in Nat /\ templates[t].at \in Nat
                            /\ templates[t].values.stamp \in Nat /\ templates[t].state \in States
    /\ \A s \in Suites : suites[s].read \in Nat /\ suites[s].at \in Nat /\ suites[s].items \subseteq Templates
    /\ \A a \in Admins : admin[a].read \in Nat /\ admin[a].tags \in Nat /\ admin[a].values.stamp \in Nat
                         /\ admin[a].items \subseteq Templates

LEMMA RowNumbers == LibraryTyped => Numbers
<1> SUFFICES ASSUME LibraryTyped PROVE Numbers
  OBVIOUS
<1>1. \A t \in Templates : templates[t] \in Template
  BY DEF LibraryTyped
<1>2. \A s \in Suites : suites[s] \in Suite
  BY DEF LibraryTyped
<1>3. \A a \in Admins : admin[a] \in Admin
  BY DEF LibraryTyped
<1>4. \A t \in Templates : templates[t].values \in Values
  BY <1>1 DEF Template
<1>5. \A a \in Admins : admin[a].values \in Values
  BY <1>3 DEF Admin
<1>6. clock \in Nat
  BY DEF LibraryTyped
<1>7. \A t \in Templates : templates[t].tags \in Nat /\ templates[t].read \in Nat /\ templates[t].at \in Nat
                           /\ templates[t].values.stamp \in Nat /\ templates[t].state \in States
  BY <1>1, <1>4 DEF Template, Values
<1>8. \A s \in Suites : suites[s].read \in Nat /\ suites[s].at \in Nat /\ suites[s].items \subseteq Templates
  BY <1>2 DEF Suite
<1>9. \A a \in Admins : admin[a].read \in Nat /\ admin[a].tags \in Nat /\ admin[a].values.stamp \in Nat
                        /\ admin[a].items \subseteq Templates
  BY <1>3, <1>5 DEF Admin, Values
<1> QED
  BY <1>6, <1>7, <1>8, <1>9 DEF Numbers

LEMMA NextNumbers == LibraryTyped' => Numbers'
  BY RowNumbers, PTL

LEMMA RowsPast ==
    ASSUME LibraryTyped, LibraryTyped', Past, LibraryMoves
    PROVE  /\ clock <= clock'
           /\ \A t \in Templates : templates'[t].read <= clock' /\ templates'[t].at <= clock'
                                   /\ templates'[t].tags <= clock'
           /\ \A s \in Suites : suites'[s].read <= clock' /\ suites'[s].at <= clock'
<1>1. clock \in Nat /\ clock' \in Nat /\ clock <= clock'
  BY DEF LibraryTyped, LibraryMoves
<1>2. ASSUME NEW t \in Templates
      PROVE  templates'[t].read <= clock' /\ templates'[t].at <= clock' /\ templates'[t].tags <= clock'
  <2>1. templates[t].read <= clock /\ templates[t].at <= clock /\ templates[t].tags <= clock
    BY DEF Past
  <2>2. templates'[t].read \in Nat /\ templates[t].read \in Nat /\ templates[t].at \in Nat /\ templates[t].tags \in Nat
        /\ templates'[t].at \in Nat /\ templates'[t].tags \in Nat
    BY RowNumbers, NextNumbers DEF Numbers
  <2>3. templates'[t] = templates[t] \/ Saved(t) \/ Dropped(t)
    BY DEF LibraryMoves
  <2> QED
    BY <1>1, <2>1, <2>2, <2>3 DEF Saved, Dropped
<1>3. ASSUME NEW s \in Suites
      PROVE  suites'[s].read <= clock' /\ suites'[s].at <= clock'
  <2>1. suites[s].read <= clock /\ suites[s].at <= clock
    BY DEF Past
  <2>2. suites'[s].read \in Nat /\ suites[s].read \in Nat /\ suites[s].at \in Nat /\ suites'[s].at \in Nat
    BY RowNumbers, NextNumbers DEF Numbers
  <2>3. suites'[s] = suites[s] \/ SuiteSaved(s) \/ SuiteDropped(s)
    BY DEF LibraryMoves
  <2> QED
    BY <1>1, <2>1, <2>2, <2>3 DEF SuiteSaved, SuiteDropped
<1> QED
  BY <1>1, <1>2, <1>3

LEMMA RowsKeptByMoves ==
    ASSUME LibraryTyped, RowsKept, LibraryMoves
    PROVE  RowsKept'
<1> SUFFICES ASSUME NEW t \in Templates, templates'[t].state # "unused"
             PROVE  templates'[t].values.draft \in Drafts /\ templates'[t].values.stamp <= templates'[t].tags
  BY DEF RowsKept
<1>1. templates'[t] = templates[t] \/ Saved(t) \/ Dropped(t)
  BY DEF LibraryMoves
<1> QED
  BY <1>1 DEF Saved, Dropped, RowsKept

LEMMA Transitive ==
    \A x, y, z \in Nat : /\ x <= y /\ y <= z => x <= z
                         /\ x <= y /\ y < z => x < z
  OBVIOUS

LEMMA RowChange ==
    ASSUME LibraryTyped, LibraryTyped', LibraryMoves, NEW t \in Templates
    PROVE  /\ templates[t].state # "unused" =>
                 templates'[t].state # "unused" /\ templates[t].tags <= templates'[t].tags
           /\ templates'[t].state = "deleted" => templates'[t] = templates[t] \/ clock < templates'[t].at
<1>1. templates[t].tags \in Nat /\ templates'[t].tags \in Nat /\ templates[t].state \in States
  BY RowNumbers, NextNumbers DEF Numbers
<1>2. CASE templates'[t] = templates[t]
  BY <1>1, <1>2
<1>3. CASE Saved(t)
  BY <1>1, <1>3 DEF Saved
<1>4. CASE Dropped(t)
  BY <1>1, <1>4 DEF Dropped
<1> QED
  BY <1>2, <1>3, <1>4 DEF LibraryMoves

(* A deletion or a save that commits in between carries a later stamp than *)
(* the reads of every transaction under way.                               *)
LEMMA OthersKept ==
    ASSUME LibraryTyped, LibraryTyped', Past, LibraryMoves, NEW b \in Admins, AdminKept(b), admin'[b] = admin[b]
    PROVE  AdminKept(b)'
<1>1. clock \in Nat /\ admin[b].read \in Nat /\ admin[b].read <= clock /\ admin[b].values.stamp \in Nat
      /\ admin[b].items \subseteq Templates
  BY RowNumbers DEF Numbers, Past
<1>2. CopyKept(b)'
  <2> SUFFICES ASSUME admin[b].at = "copy tags"
               PROVE  LET t == admin[b].row IN
                      /\ t \in Templates /\ templates'[t].state # "unused" /\ admin[b].values.draft \in Drafts
                      /\ admin[b].values.stamp <= templates'[t].tags
    BY DEF CopyKept
  <2>1. PICK t \in Templates : t = admin[b].row
    BY DEF AdminKept, CopyKept
  <2>2. /\ templates[t].state # "unused" /\ admin[b].values.draft \in Drafts
        /\ admin[b].values.stamp <= templates[t].tags
    BY <2>1 DEF AdminKept, CopyKept
  <2>3. templates[t].tags \in Nat /\ templates'[t].tags \in Nat
    BY RowNumbers, NextNumbers DEF Numbers
  <2>4. templates'[t].state # "unused" /\ templates[t].tags <= templates'[t].tags
    BY <2>2, RowChange
  <2>5. admin[b].values.stamp <= templates'[t].tags
    <3>1. /\ admin[b].values.stamp \in Nat /\ templates[t].tags \in Nat /\ templates'[t].tags \in Nat
          /\ admin[b].values.stamp <= templates[t].tags /\ templates[t].tags <= templates'[t].tags
      BY <1>1, <2>2, <2>3, <2>4
    <3> QED
      BY <3>1, Transitive
  <2> QED
    BY <2>1, <2>2, <2>4, <2>5
<1>3. WriteKept(b)'
  BY DEF AdminKept, WriteKept
<1>4. DropKept(b)'
  <2> SUFFICES ASSUME admin[b].at = "drop", NEW s \in Suites, suites'[s].state = "live",
                      admin[b].row \in suites'[s].items
               PROVE  admin[b].read < suites'[s].at
    BY DEF DropKept
  <2>1. suites'[s] = suites[s] \/ SuiteSaved(s) \/ SuiteDropped(s)
    BY DEF LibraryMoves
  <2>2. suites'[s].at \in Nat
    BY NextNumbers DEF Numbers
  <2> QED
    BY <1>1, <2>1, <2>2 DEF SuiteSaved, SuiteDropped, AdminKept, DropKept
<1>5. SuiteKept(b)'
  <2> SUFFICES ASSUME admin[b].at = "suite write", NEW t \in admin[b].items
               PROVE  templates'[t].state # "unused"
                      /\ (templates'[t].state = "deleted" => admin[b].read < templates'[t].at)
    BY DEF SuiteKept
  <2>1. t \in Templates
    BY <1>1
  <2>2. templates'[t].at \in Nat
    BY <2>1, NextNumbers DEF Numbers
  <2>3. templates[t].state # "unused" /\ (templates[t].state = "deleted" => admin[b].read < templates[t].at)
    BY DEF AdminKept, SuiteKept
  <2>4. /\ templates'[t].state # "unused"
        /\ templates'[t].state = "deleted" => templates'[t] = templates[t] \/ clock < templates'[t].at
    BY <2>1, <2>3, RowChange
  <2>5. CASE templates'[t] = templates[t]
    BY <2>3, <2>5
  <2>6. CASE templates'[t].state = "deleted" /\ clock < templates'[t].at
    <3>1. /\ admin[b].read \in Nat /\ clock \in Nat /\ templates'[t].at \in Nat
          /\ admin[b].read <= clock /\ clock < templates'[t].at /\ templates'[t].state = "deleted"
      BY <1>1, <2>2, <2>6
    <3> QED
      BY <3>1, Transitive
  <2> QED
    BY <2>4, <2>5, <2>6
<1> QED
  BY <1>2, <1>3, <1>4, <1>5 DEF AdminKept

(* What the transaction under way relies on after its own step.            *)
Reads(a) == admin'[a].read <= clock' /\ admin'[a].tags <= clock'

LEMMA ReadsNow ==
    ASSUME clock \in Nat, clock' = clock, NEW a, admin'[a].read = clock, admin'[a].tags = 0
    PROVE  Reads(a)
<1>1. clock <= clock /\ 0 <= clock
  OBVIOUS
<1> QED
  BY <1>1 DEF Reads

LEMMA IdleKept ==
    ASSUME LibraryTyped, clock' \in Nat, NEW a \in Admins, Goto(a, NoForm)
    PROVE  AdminKept(a)' /\ Reads(a) /\ \A b \in Admins : b # a => admin'[b] = admin[b]
<1>1. admin'[a] = NoForm /\ \A b \in Admins : b # a => admin'[b] = admin[b]
  BY DEF Goto, LibraryTyped
<1>2. NoForm.at = "idle" /\ NoForm.read = 0 /\ NoForm.tags = 0
  BY DEF NoForm
<1> QED
  BY <1>1, <1>2 DEF AdminKept, CopyKept, WriteKept, DropKept, SuiteKept, Reads

LEMMA TemplateActorKept ==
    ASSUME LibraryTyped, clock' \in Nat, Past, RowsKept, AdminsKept, NEW a \in Admins, TemplateStep(a)
    PROVE  AdminKept(a)' /\ Reads(a) /\ \A b \in Admins : b # a => admin'[b] = admin[b]
<1>1. CASE Goto(a, NoForm)
  BY <1>1, IdleKept
<1>2. ASSUME NEW rec, Goto(a, rec)
      PROVE  admin'[a] = rec /\ \A b \in Admins : b # a => admin'[b] = admin[b]
  BY <1>2 DEF Goto, LibraryTyped
<1>3. clock \in Nat /\ clock <= clock
  BY DEF LibraryTyped
<1>4. ASSUME NEW t, NEW n, NEW d \in Drafts, BeginTemplate(a, t, n, d)
      PROVE  AdminKept(a)' /\ Reads(a) /\ \A b \in Admins : b # a => admin'[b] = admin[b]
  <2> DEFINE v == [draft |-> d, stamp |-> 0, against |-> cache]
             rec == [NoForm EXCEPT !.at = "template write", !.row = t, !.name = n, !.read = clock, !.values = v]
  <2>1. Goto(a, rec) /\ clock' = clock
    BY <1>4 DEF BeginTemplate, OnlyAdmin, LibraryKeeps
  <2>2. v.draft = d /\ v.stamp = 0
    OBVIOUS
  <2> HIDE DEF v
  <2>3. rec.at = "template write" /\ rec.read = clock /\ rec.tags = 0 /\ rec.values = v
    BY DEF NoForm
  <2> HIDE DEF rec
  <2>4. admin'[a] = rec /\ \A b \in Admins : b # a => admin'[b] = admin[b]
    BY <1>2, <2>1
  <2>5. AdminKept(a)'
    BY <2>2, <2>3, <2>4 DEF AdminKept, CopyKept, WriteKept, DropKept, SuiteKept
  <2> QED
    BY <1>3, <2>1, <2>3, <2>4, <2>5, ReadsNow
<1>5. ASSUME NEW t \in Templates, ReadOriginal(a, t)
      PROVE  AdminKept(a)' /\ Reads(a) /\ \A b \in Admins : b # a => admin'[b] = admin[b]
  <2> DEFINE rec == [NoForm EXCEPT !.at = "copy tags", !.row = t, !.read = clock, !.values = templates[t].values]
  <2>1. Goto(a, rec) /\ clock' = clock /\ templates' = templates /\ t \in Live(templates)
    BY <1>5 DEF ReadOriginal, OnlyAdmin, LibraryKeeps
  <2>2. rec.at = "copy tags" /\ rec.row = t /\ rec.read = clock /\ rec.tags = 0 /\ rec.values = templates[t].values
    BY DEF NoForm
  <2> HIDE DEF rec
  <2>3. admin'[a] = rec /\ \A b \in Admins : b # a => admin'[b] = admin[b]
    BY <1>2, <2>1
  <2>4. templates[t].state # "unused" /\ templates[t].values.draft \in Drafts
        /\ templates[t].values.stamp <= templates[t].tags
    BY <2>1 DEF Live, RowsKept
  <2>5. AdminKept(a)'
    BY <2>1, <2>2, <2>3, <2>4 DEF AdminKept, CopyKept, WriteKept, DropKept, SuiteKept
  <2> QED
    BY <1>3, <2>1, <2>2, <2>3, <2>5, ReadsNow
<1>6. ASSUME NEW t \in Templates, ReadUsers(a, t)
      PROVE  AdminKept(a)' /\ Reads(a) /\ \A b \in Admins : b # a => admin'[b] = admin[b]
  <2> DEFINE rec == [NoForm EXCEPT !.at = "drop", !.row = t, !.read = clock]
  <2>1. Goto(a, rec) /\ clock' = clock /\ suites' = suites
        /\ ~ \E s \in Live(suites) : t \in suites[s].items
    BY <1>6 DEF ReadUsers, OnlyAdmin, LibraryKeeps
  <2>2. rec.at = "drop" /\ rec.row = t /\ rec.read = clock /\ rec.tags = 0
    BY DEF NoForm
  <2> HIDE DEF rec
  <2>3. admin'[a] = rec /\ \A b \in Admins : b # a => admin'[b] = admin[b]
    BY <1>2, <2>1
  <2>4. \A s \in Suites : ~ (suites[s].state = "live" /\ t \in suites[s].items)
    BY <2>1 DEF Live, LibraryTyped
  <2>5. AdminKept(a)'
    BY <2>1, <2>2, <2>3, <2>4 DEF AdminKept, CopyKept, WriteKept, DropKept, SuiteKept
  <2> QED
    BY <1>3, <2>1, <2>2, <2>3, <2>5, ReadsNow
<1>7. CASE ReadOriginalTags(a) /\ ~ Goto(a, NoForm)
  <2>1. PICK n \in CopyNames(templates) :
          Goto(a, [admin[a] EXCEPT !.at = "template write", !.row = None, !.name = n,
                        !.tags = templates[admin[a].row].tags, !.values.against = cache])
    BY <1>7 DEF ReadOriginalTags
  <2>2. admin[a] \in Admin /\ admin[a].at = "copy tags" /\ OnlyAdmin
    BY <1>7 DEF ReadOriginalTags, LibraryTyped
  <2>3. admin[a].values \in Values
    BY <2>2 DEF Admin
  <2>4. PICK t \in Templates : t = admin[a].row
    BY <2>2 DEF AdminsKept, AdminKept, CopyKept
  <2>5. templates[t].state # "unused" /\ admin[a].values.draft \in Drafts
        /\ admin[a].values.stamp <= templates[t].tags
    BY <2>2, <2>4 DEF AdminsKept, AdminKept, CopyKept
  <2> DEFINE v == [admin[a].values EXCEPT !.against = cache]
             rec == [admin[a] EXCEPT !.at = "template write", !.row = None, !.name = n,
                        !.tags = templates[t].tags, !.values = v]
  <2>6. v.draft = admin[a].values.draft /\ v.stamp = admin[a].values.stamp
    BY <2>3 DEF Values
  <2>7. Goto(a, rec)
    BY <2>1, <2>2, <2>4 DEF Admin
  <2> HIDE DEF v
  <2>8. rec.at = "template write" /\ rec.row = None /\ rec.tags = templates[t].tags /\ rec.values = v
        /\ rec.read = admin[a].read
    BY <2>2 DEF Admin
  <2> HIDE DEF rec
  <2>9. admin'[a] = rec /\ \A b \in Admins : b # a => admin'[b] = admin[b]
    BY <1>2, <2>7
  <2>10. AdminKept(a)'
    BY <2>5, <2>6, <2>8, <2>9 DEF AdminKept, CopyKept, WriteKept, DropKept, SuiteKept
  <2>11. Reads(a)
    <3>1. templates[t].tags <= clock /\ admin[a].read <= clock /\ clock' = clock
      BY <2>2 DEF Past, OnlyAdmin, LibraryKeeps
    <3> QED
      BY <3>1, <2>8, <2>9 DEF Reads
  <2> QED
    BY <2>9, <2>10, <2>11
<1>8. WriteTemplate(a) \/ TemplateRefused(a) \/ DropTemplate(a) => Goto(a, NoForm)
  BY DEF WriteTemplate, TemplateRefused, DropTemplate, Commit
<1> QED
  BY <1>1, <1>4, <1>5, <1>6, <1>7, <1>8 DEF TemplateStep

LEMMA SuiteActorKept ==
    ASSUME LibraryTyped, clock' \in Nat, NEW a \in Admins, SuiteStep(a)
    PROVE  AdminKept(a)' /\ Reads(a) /\ \A b \in Admins : b # a => admin'[b] = admin[b]
<1>1. CASE Goto(a, NoForm)
  BY <1>1, IdleKept
<1>2. ASSUME NEW s, NEW n, NEW i, BeginSuite(a, s, n, i)
      PROVE  AdminKept(a)' /\ Reads(a) /\ \A b \in Admins : b # a => admin'[b] = admin[b]
  <2> DEFINE rec == [NoForm EXCEPT !.at = "suite write", !.row = s, !.name = n, !.items = i, !.read = clock]
  <2>1. Goto(a, rec) /\ clock' = clock /\ templates' = templates /\ i \subseteq Live(templates) /\ clock \in Nat
    BY <1>2 DEF BeginSuite, OnlyAdmin, LibraryKeeps, LibraryTyped
  <2>2. rec.at = "suite write" /\ rec.items = i /\ rec.read = clock /\ rec.tags = 0
    BY DEF NoForm
  <2> HIDE DEF rec
  <2>3. admin'[a] = rec /\ \A b \in Admins : b # a => admin'[b] = admin[b]
    BY <2>1 DEF Goto, LibraryTyped
  <2>4. \A t \in i : templates[t].state = "live"
    BY <2>1 DEF Live
  <2>5. AdminKept(a)'
    BY <2>1, <2>2, <2>3, <2>4 DEF AdminKept, CopyKept, WriteKept, DropKept, SuiteKept
  <2> QED
    BY <2>1, <2>2, <2>3, <2>5, ReadsNow
<1>3. WriteSuite(a) \/ SuiteRefused(a) \/ (\E s \in Suites : DropSuite(a, s)) => Goto(a, NoForm)
  BY DEF DropSuite, WriteSuite, SuiteRefused, Commit
<1>4. ASSUME NEW s \in Suites, CopySuite(a, s)
      PROVE  \E n : BeginSuite(a, None, n, suites[s].items)
  BY <1>4 DEF CopySuite
<1> QED
  BY <1>1, <1>2, <1>3, <1>4 DEF SuiteStep

-----------------------------------------------------------------------------
(* A template in use is not deleted, but for an overlap *)

LEMMA OverlapKept ==
    ASSUME LibraryTyped, LibraryTyped', Past, LibraryMoves, DeletedInSuiteOnlyByOverlap
    PROVE  DeletedInSuiteOnlyByOverlap'
<1> SUFFICES ASSUME NEW s \in Suites, suites'[s].state = "live", NEW t \in suites'[s].items,
                    templates'[t].state = "deleted"
             PROVE  suites'[s].read < templates'[t].at /\ templates'[t].read < suites'[s].at
  BY DEF DeletedInSuiteOnlyByOverlap, Live, LibraryTyped
<1>1. /\ clock \in Nat /\ t \in Templates
      /\ suites[s].read \in Nat /\ suites'[s].read \in Nat /\ suites[s].at \in Nat /\ suites'[s].at \in Nat
  BY RowNumbers, NextNumbers DEF Numbers
<1>2. templates[t].read \in Nat /\ templates'[t].read \in Nat /\ templates[t].at \in Nat /\ templates'[t].at \in Nat
  BY <1>1, RowNumbers, NextNumbers DEF Numbers
<1>3. suites[s].read <= clock /\ templates[t].read <= clock
  BY <1>1 DEF Past
<1>4. CASE suites' = suites /\ Dropped(t)
  <2>1. templates'[t].read < suites'[s].at
    BY <1>4 DEF Dropped
  <2>2. clock < templates'[t].at
    BY <1>4 DEF Dropped
  <2>3. suites'[s].read <= clock
    BY <1>3, <1>4
  <2> QED
    BY <1>1, <1>2, <2>1, <2>2, <2>3, Transitive
<1>5. CASE templates' = templates /\ SuiteSaved(s)
  <2>1. suites'[s].read < templates'[t].at
    BY <1>5 DEF SuiteSaved
  <2>2. clock < suites'[s].at
    BY <1>5 DEF SuiteSaved
  <2>3. templates'[t].read <= clock
    BY <1>3, <1>5
  <2> QED
    BY <1>1, <1>2, <2>1, <2>2, <2>3, Transitive
<1>6. CASE suites'[s] = suites[s] /\ templates'[t] = templates[t]
  BY <1>6 DEF DeletedInSuiteOnlyByOverlap, Live, LibraryTyped
<1> QED
  BY <1>1, <1>4, <1>5, <1>6 DEF LibraryMoves, Saved, SuiteDropped

-----------------------------------------------------------------------------
(* What a request read *)

LEMMA ReadsStay ==
    ASSUME LibraryTyped, LibraryTyped', Past, LibraryMoves, RequestsTyped, NEW q \in Requests,
           execution'[q] = execution[q], NEW t, ReadSince(q, t)
    PROVE  ReadSince(q, t)' /\ templates[t].tags <= templates'[t].tags
<1>1. t \in Templates /\ templates[t].state # "unused"
  BY DEF ReadSince
<1>2. templates'[t].state # "unused" /\ templates[t].tags <= templates'[t].tags
      /\ (templates'[t].state = "deleted" => templates'[t] = templates[t] \/ clock < templates'[t].at)
  BY <1>1, RowChange
<1>3. clock \in Nat /\ templates'[t].at \in Nat /\ execution[q].since \in Nat /\ execution[q].since <= clock
  BY <1>1, RowNumbers, NextNumbers DEF Numbers, RequestsTyped, Past
<1>4. ASSUME templates'[t].state = "deleted"
      PROVE  execution[q].since < templates'[t].at
  <2>1. CASE templates'[t] = templates[t]
    BY <1>4, <2>1 DEF ReadSince
  <2>2. CASE clock < templates'[t].at
    BY <1>3, <2>2, Transitive
  <2> QED
    BY <1>2, <1>4, <2>1, <2>2
<1> QED
  BY <1>1, <1>2, <1>4 DEF ReadSince

LEMMA RequestsKeptByMoves ==
    ASSUME LibraryTyped, LibraryTyped', Past, LibraryMoves, RequestsTyped, StampsTyped, RequestsKept,
           execution' = execution
    PROVE  RequestsKept' /\ StampsTyped'
<1>1. ASSUME NEW q \in Requests
      PROVE  ReadingKept(q)'
  <2> SUFFICES ASSUME execution[q].at = "tags", NEW t \in DOMAIN execution[q].values
               PROVE  /\ t \in execution[q].picks /\ ReadSince(q, t)'
                      /\ execution[q].values[t].values.stamp <= templates'[t].tags
    BY DEF ReadingKept
  <2>1. t \in execution[q].picks /\ ReadSince(q, t) /\ execution[q].values[t].values.stamp <= templates[t].tags
    BY DEF RequestsKept, ReadingKept
  <2>2. ReadSince(q, t)' /\ templates[t].tags <= templates'[t].tags
    BY <2>1, ReadsStay
  <2>3. t \in Templates /\ execution[q].values[t].values.stamp \in Nat
    BY <2>1 DEF ReadSince, StampsTyped
  <2>4. templates[t].tags \in Nat /\ templates'[t].tags \in Nat
    BY <2>3, RowNumbers, NextNumbers DEF Numbers
  <2> QED
    BY <2>1, <2>2, <2>3, <2>4, Transitive
<1>2. ASSUME NEW q \in Requests
      PROVE  QueuedKept(q)'
  <2> SUFFICES ASSUME execution[q].at = "queued"
               PROVE  /\ DOMAIN execution[q].plan = execution[q].picks
                      /\ \A t \in execution[q].picks : ReadSince(q, t)'
                            /\ execution[q].plan[t].values.stamp <= execution[q].plan[t].tags
    BY DEF QueuedKept
  <2> QED
    BY ReadsStay DEF RequestsKept, QueuedKept
<1>3. StampsTyped'
  BY DEF StampsTyped
<1> QED
  BY <1>1, <1>2, <1>3 DEF RequestsKept

LEMMA RequestStepKept ==
    ASSUME LibraryTyped, Past, RowsKept, RequestsTyped, StampsTyped, RequestsKept, NEW q \in Requests,
           ExecutionStep(q)
    PROVE  /\ RequestsKept' /\ StampsTyped' /\ Past'
<1>1. /\ UNCHANGED <<templates, suites, clock, admin>> /\ clock \in Nat
      /\ \A p \in Requests : p # q => execution'[p] = execution[p]
      /\ execution[q].since \in Nat /\ execution[q].since <= clock
  BY RequestMoves DEF LibraryTyped, RequestsTyped, Past
<1>2. ASSUME NEW p \in Requests, p # q
      PROVE  ReadingKept(p)' /\ QueuedKept(p)' /\ execution'[p].since <= clock'
             /\ (execution'[p].at = "tags" =>
                    \A t \in DOMAIN execution'[p].values : execution'[p].values[t].values.stamp \in Nat)
  <2>1. execution'[p] = execution[p]
    BY <1>1, <1>2
  <2>2. ReadingKept(p) /\ QueuedKept(p) /\ execution[p].since <= clock
    BY DEF RequestsKept, Past
  <2> QED
    BY <1>1, <2>1, <2>2 DEF ReadingKept, QueuedKept, ReadSince, StampsTyped
<1>3. ReadingKept(q)' /\ QueuedKept(q)' /\ execution'[q].since <= clock'
      /\ (execution'[q].at = "tags" =>
             \A t \in DOMAIN execution'[q].values : execution'[q].values[t].values.stamp \in Nat)
  <2>1. CASE execution'[q].at \notin {"tags", "queued"} /\ execution'[q].since \in {execution[q].since, clock}
    BY <1>1, <2>1 DEF ReadingKept, QueuedKept
  <2>2. CASE Moved(q, "tags", execution[q].since)
             /\ execution'[q].values = [t \in execution[q].picks \cap Live(templates) |->
                   [values |-> templates[t].values,
                    kind |-> cache.kind[templates[t].values.draft.profile]]]
    <3>1. execution'[q].at = "tags" /\ execution'[q].since = execution[q].since /\ execution'[q].picks = execution[q].picks
      BY <2>2 DEF Moved
    <3>2. ASSUME NEW t \in DOMAIN execution'[q].values
          PROVE  /\ t \in execution'[q].picks /\ t \in Templates /\ templates[t].state = "live"
                 /\ execution'[q].values[t].values = templates[t].values
      BY <2>2, <3>1, <3>2 DEF Live, LibraryTyped
    <3>3. ASSUME NEW t \in DOMAIN execution'[q].values
          PROVE  /\ execution'[q].values[t].values.stamp <= templates'[t].tags
                 /\ execution'[q].values[t].values.stamp \in Nat /\ ReadSince(q, t)'
      BY <1>1, <3>2, RowNumbers DEF Numbers, RowsKept, ReadSince
    <3> QED
      BY <1>1, <3>1, <3>2, <3>3 DEF ReadingKept, QueuedKept
  <2>3. CASE /\ execution[q].at = "tags" /\ Moved(q, "queued", execution[q].since)
             /\ execution[q].picks = DOMAIN execution[q].values
             /\ execution'[q].plan = [t \in DOMAIN execution[q].values |->
                   [values |-> execution[q].values[t].values, type |-> execution[q].values[t].kind,
                    tags |-> templates[t].tags]]
    <3>1. execution'[q].at = "queued" /\ execution'[q].since = execution[q].since /\ execution'[q].picks = execution[q].picks
      BY <2>3 DEF Moved
    <3>2. DOMAIN execution'[q].plan = execution'[q].picks
      BY <2>3, <3>1
    <3>3. ASSUME NEW t \in execution'[q].picks
          PROVE  /\ ReadSince(q, t)'
                 /\ execution'[q].plan[t].values.stamp <= execution'[q].plan[t].tags
      <4>1. t \in DOMAIN execution[q].values
        BY <2>3, <3>1
      <4>2. execution'[q].plan[t].values = execution[q].values[t].values /\ execution'[q].plan[t].tags = templates[t].tags
        BY <2>3, <4>1
      <4>3. ReadSince(q, t) /\ execution[q].values[t].values.stamp <= templates[t].tags
        BY <2>3, <4>1 DEF RequestsKept, ReadingKept
      <4> QED
        BY <1>1, <3>1, <4>2, <4>3 DEF ReadSince
    <3> QED
      BY <1>1, <3>1, <3>2, <3>3 DEF ReadingKept, QueuedKept
  <2>4. CASE execution[q].at = "queued" /\ Moved(q, "queued", execution[q].since)
             /\ execution'[q].plan = execution[q].plan
    <3>1. execution'[q].at = "queued" /\ execution'[q].since = execution[q].since /\ execution'[q].picks = execution[q].picks
      BY <2>4 DEF Moved
    <3>2. QueuedKept(q)
      BY DEF RequestsKept
    <3> QED
      BY <1>1, <2>4, <3>1, <3>2 DEF ReadingKept, QueuedKept, ReadSince
  <2> QED
    BY <2>1, <2>2, <2>3, <2>4, RequestMoves DEF LibraryTyped
<1>4. RequestsKept' /\ StampsTyped'
  BY <1>2, <1>3 DEF RequestsKept, StampsTyped
<1>5. \A p \in Requests : execution'[p].since <= clock'
  BY <1>2, <1>3
<1>6. Past'
  BY <1>1, <1>5 DEF Past
<1> QED
  BY <1>4, <1>6

-----------------------------------------------------------------------------
(* The theorems *)

Inductive ==
    /\ Typed /\ Past /\ RowsKept /\ AdminsKept /\ RequestsKept /\ StampsTyped
    /\ DeletedInSuiteOnlyByOverlap

LEMMA InitInductive == LibraryInit => Inductive
<1> SUFFICES ASSUME LibraryInit PROVE Inductive
  OBVIOUS
<1>1. Typed
  BY InitTyped
<1>2. PICK d \in Drafts : templates = [t \in Templates |-> IF t # Kept THEN NoTemplate
                           ELSE [state |-> "live", name |-> 1, tags |-> 1, read |-> 0, at |-> 1,
                                 values |-> [draft |-> d, stamp |-> 1, against |-> cache]]]
  BY DEF LibraryInit
<1>3. \A t \in Templates :
        /\ templates[t].state \in {"unused", "live"} /\ templates[t].read = 0
        /\ templates[t].at \in {0, 1} /\ templates[t].tags \in {0, 1}
        /\ templates[t].state # "unused" => templates[t].values.draft \in Drafts /\ templates[t].values.stamp = 1
                                            /\ templates[t].tags = 1
  BY <1>2 DEF NoTemplate
<1>4. \A s \in Suites : suites[s].read \in {0, 1} /\ suites[s].at \in {0, 2}
                        /\ suites[s].items \subseteq Templates
  <2>1. PICK i \in SUBSET {Kept} :
         suites = [s \in Suites |-> IF s # KeptSuite THEN NoSuite
                     ELSE [state |-> "live", name |-> 1, items |-> i, read |-> 1, at |-> 2]]
    BY DEF LibraryInit
  <2> QED
    BY <2>1, KeptAssumption DEF NoSuite
<1>5. \A a \in Admins : admin[a].at = "idle" /\ admin[a].read = 0 /\ admin[a].tags = 0
  BY DEF LibraryInit, NoForm
<1>6. \A q \in Requests : execution[q].at = "idle" /\ execution[q].since = 0
  BY DEF LibraryInit, NoRequest
<1>7. clock = 2
  BY DEF LibraryInit
<1>8. Past
  BY <1>3, <1>4, <1>5, <1>6, <1>7 DEF Past
<1>9. RowsKept
  BY <1>3 DEF RowsKept
<1>10. AdminsKept
  BY <1>5 DEF AdminsKept, AdminKept, CopyKept, WriteKept, DropKept, SuiteKept
<1>11. RequestsKept /\ StampsTyped
  BY <1>6 DEF RequestsKept, ReadingKept, QueuedKept, StampsTyped
<1>12. DeletedInSuiteOnlyByOverlap
  BY <1>3, <1>4 DEF DeletedInSuiteOnlyByOverlap, Live, LibraryInit
<1> QED
  BY <1>1, <1>8, <1>9, <1>10, <1>11, <1>12 DEF Inductive

LEMMA LibraryStepInductive ==
    ASSUME Inductive, Typed', NEW a \in Admins, TemplateStep(a) \/ SuiteStep(a), execution' = execution
    PROVE  Inductive'
<1>1. LibraryTyped /\ LibraryTyped' /\ clock' \in Nat /\ RequestsTyped
  BY DEF Inductive, Typed, LibraryTyped
<1>2. LibraryMoves
  BY <1>1, TemplateStepMoves, SuiteStepMoves DEF Inductive
<1>3. AdminKept(a)' /\ Reads(a) /\ \A b \in Admins : b # a => admin'[b] = admin[b]
  BY <1>1, TemplateActorKept, SuiteActorKept DEF Inductive
<1>4. AdminsKept'
  BY <1>1, <1>2, <1>3, OthersKept DEF Inductive, AdminsKept
<1>5. Past'
  <2>1. /\ clock <= clock'
        /\ \A t \in Templates : templates'[t].read <= clock' /\ templates'[t].at <= clock'
                                /\ templates'[t].tags <= clock'
        /\ \A s \in Suites : suites'[s].read <= clock' /\ suites'[s].at <= clock'
    BY <1>1, <1>2, RowsPast DEF Inductive
  <2>2. ASSUME NEW b \in Admins
        PROVE  admin'[b].read <= clock' /\ admin'[b].tags <= clock'
    <3>1. CASE b = a
      BY <1>3, <3>1 DEF Reads
    <3>2. CASE b # a
      <4>1. admin'[b] = admin[b] /\ admin[b].read <= clock /\ admin[b].tags <= clock
        BY <1>3, <3>2 DEF Inductive, Past
      <4>2. admin[b].read \in Nat /\ admin[b].tags \in Nat /\ clock \in Nat
        BY <1>1, RowNumbers DEF Numbers
      <4> QED
        BY <1>1, <2>1, <4>1, <4>2, Transitive
    <3> QED
      BY <3>1, <3>2
  <2>3. \A q \in Requests : execution'[q].since <= clock'
    <3>1. \A q \in Requests : execution[q].since <= clock /\ execution[q].since \in Nat /\ clock \in Nat
      BY <1>1 DEF Inductive, Past, RequestsTyped, LibraryTyped
    <3> QED
      BY <1>1, <2>1, <3>1, Transitive
  <2> QED
    BY <2>1, <2>2, <2>3 DEF Past
<1>6. RowsKept'
  BY <1>1, <1>2, RowsKeptByMoves DEF Inductive
<1>7. RequestsKept' /\ StampsTyped'
  BY <1>1, <1>2, RequestsKeptByMoves DEF Inductive
<1>8. DeletedInSuiteOnlyByOverlap'
  BY <1>1, <1>2, OverlapKept DEF Inductive
<1> QED
  BY <1>4, <1>5, <1>6, <1>7, <1>8 DEF Inductive

LEMMA Stays ==
    ASSUME Inductive, Typed', UNCHANGED <<templates, suites, clock, admin, execution>>
    PROVE  Inductive'
<1>1. Past' /\ RowsKept' /\ RequestsKept' /\ StampsTyped'
  BY DEF Inductive, Past, RowsKept, RequestsKept, ReadingKept, QueuedKept, ReadSince, StampsTyped
<1>2. AdminsKept'
  BY DEF Inductive, AdminsKept, AdminKept, CopyKept, WriteKept, DropKept, SuiteKept
<1>3. DeletedInSuiteOnlyByOverlap'
  BY DEF Inductive, DeletedInSuiteOnlyByOverlap, Live
<1> QED
  BY <1>1, <1>2, <1>3 DEF Inductive

LEMMA NextInductive == Inductive /\ [LibraryNext]_libraryVars => Inductive'
<1> SUFFICES ASSUME Inductive, [LibraryNext]_libraryVars PROVE Inductive'
  OBVIOUS
<1>1. Typed'
  BY StepTyped DEF Inductive
<1>2. ASSUME NEW a \in Admins, TemplateStep(a) \/ SuiteStep(a), execution' = execution
      PROVE  Inductive'
  BY <1>1, <1>2, LibraryStepInductive
<1>3. CASE UNCHANGED <<templates, suites, clock, admin, execution>>
  BY <1>1, <1>3, Stays
<1>4. ASSUME NEW q \in Requests, ExecutionStep(q), UNCHANGED <<templates, suites, clock, admin>>
      PROVE  Inductive'
  <2>1. RequestsKept' /\ StampsTyped' /\ Past'
    BY <1>4, RequestStepKept DEF Inductive, Typed
  <2>2. RowsKept'
    BY <1>4 DEF Inductive, RowsKept
  <2>3. AdminsKept'
    BY <1>4 DEF Inductive, AdminsKept, AdminKept, CopyKept, WriteKept, DropKept, SuiteKept
  <2>4. DeletedInSuiteOnlyByOverlap'
    BY <1>4 DEF Inductive, DeletedInSuiteOnlyByOverlap, Live
  <2> QED
    BY <1>1, <2>1, <2>2, <2>3, <2>4 DEF Inductive
<1>5. UNCHANGED libraryVars => UNCHANGED <<templates, suites, clock, admin, execution>>
  BY DEF libraryVars
<1> QED
  BY <1>2, <1>3, <1>4, <1>5, NextSplit

LEMMA AlwaysInductive == LibrarySpec => []Inductive
  BY InitInductive, NextInductive, PTL DEF LibrarySpec

(* Every variable keeps its type, and no row is stamped later than the     *)
(* clock that the commits of save_template, save_suite and the deletions   *)
(* advance, whatever MaxWrites is.                                         *)
THEOREM LibraryTypeCorrect == LibrarySpec => []LibraryTypeOK
<1>1. Inductive => LibraryTypeOK
  <2> SUFFICES ASSUME Inductive PROVE LibraryTypeOK
    OBVIOUS
  <2>1. LibraryTyped /\ RequestsTyped /\ CatalogueTyped /\ Past /\ RowsKept /\ Numbers
    BY RowNumbers DEF Inductive, Typed
  <2>2. \A t \in Templates : /\ templates[t].state \in {"unused", "live", "deleted"}
                             /\ templates[t].at \in 0..clock
                             /\ templates[t].state # "unused" => templates[t].values.draft \in Drafts
    BY <2>1 DEF Numbers, Past, RowsKept, States
  <2>3. \A s \in Suites : /\ suites[s].state \in {"unused", "live", "deleted"}
                          /\ suites[s].items \subseteq Templates /\ suites[s].at \in 0..clock
    <3>1. \A s \in Suites : suites[s] \in Suite
      BY <2>1 DEF LibraryTyped
    <3>2. \A s \in Suites : suites[s].state \in {"unused", "live", "deleted"}
      BY <3>1 DEF Suite, States
    <3> QED
      BY <2>1, <3>2 DEF Numbers, Past
  <2>4. \A a \in Admins : admin[a].row \in Templates \cup Suites \cup {None}
    <3>1. \A a \in Admins : admin[a] \in Admin
      BY <2>1 DEF LibraryTyped
    <3> QED
      BY <3>1 DEF Admin
  <2>5. \A q \in Requests : /\ execution[q].picks \subseteq Templates
                            /\ DOMAIN execution[q].plan \subseteq execution[q].picks
    BY <2>1 DEF RequestsTyped
  <2> QED
    BY <2>1, <2>2, <2>3, <2>4, <2>5 DEF LibraryTypeOK, CatalogueTyped, Cache, LibraryTyped
<1> QED
  BY <1>1, AlwaysInductive, PTL

(* A template in use is not deleted: where a live suite names a deleted    *)
(* template, save_suite and delete_template each read before the other     *)
(* committed, for any number of administrators and writes.                 *)
THEOREM UsedTemplatesStay == LibrarySpec => []DeletedInSuiteOnlyByOverlap
<1>1. Inductive => DeletedInSuiteOnlyByOverlap
  BY DEF Inductive
<1> QED
  BY <1>1, AlwaysInductive, PTL

(* A queued plan has an item for every checked template, none of them      *)
(* deleted before _validate looked, and never tags older than its values,  *)
(* whatever is saved, copied, deleted and synced meanwhile.                *)
THEOREM PlansAreWhatWasChecked == LibrarySpec => []PlanIsWhatWasChecked
<1>1. Inductive => PlanIsWhatWasChecked
  <2> SUFFICES ASSUME Inductive, NEW q \in Requests, execution[q].at = "queued"
               PROVE  /\ DOMAIN execution[q].plan = execution[q].picks
                      /\ \A t \in execution[q].picks :
                           LET item == execution[q].plan[t] IN
                           /\ templates[t].state = "deleted" => templates[t].at > execution[q].since
                           /\ item.values.stamp <= item.tags
    BY DEF PlanIsWhatWasChecked
  <2>1. DOMAIN execution[q].plan = execution[q].picks
        /\ \A t \in execution[q].picks :
              ReadSince(q, t) /\ execution[q].plan[t].values.stamp <= execution[q].plan[t].tags
    BY DEF Inductive, RequestsKept, QueuedKept
  <2>2. \A t \in execution[q].picks : templates[t].state = "deleted" => templates[t].at > execution[q].since
    BY <2>1 DEF ReadSince
  <2> QED
    BY <2>1, <2>2
<1> QED
  BY <1>1, AlwaysInductive, PTL
=============================================================================
