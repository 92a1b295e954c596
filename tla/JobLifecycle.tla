---------------------------- MODULE JobLifecycle ----------------------------
(***************************************************************************)
(* What the work queue promises of one rwb_job row, with no workers,       *)
(* heartbeats, messages or transactions in sight: the values of            *)
(* status_code and attempt_count an observer of the table may see follow   *)
(* one another.  RwbQueue is shown to implement it.                        *)
(***************************************************************************)
EXTENDS Naturals

CONSTANT Jobs

VARIABLES status,   \* rwb_job.status_code, "absent" before the insert
          attempt   \* rwb_job.attempt_count

lifecycleVars == <<status, attempt>>

Status == {"absent", "pending", "running", "succeeded", "failed", "cancelled"}
Settled == {"succeeded", "failed", "cancelled"}

LifecycleInit ==
    /\ status  = [j \in Jobs |-> "absent"]
    /\ attempt = [j \in Jobs |-> 0]

(* A job is opened once: every later enqueue of its key is a dedup hit. *)
Open(j) ==
    /\ status[j] = "absent"
    /\ status' = [status EXCEPT ![j] = "pending"]
    /\ UNCHANGED attempt

(* A run starts only from pending. *)
Start(j) ==
    /\ status[j] = "pending"
    /\ status' = [status EXCEPT ![j] = "running"]
    /\ UNCHANGED attempt

(* Only a running job gets a result, and exactly one. *)
Finish(j) ==
    /\ status[j] = "running"
    /\ \E s \in {"succeeded", "failed"} : status' = [status EXCEPT ![j] = s]
    /\ UNCHANGED attempt

(* Some running jobs whose workers look dead go back to pending together,  *)
(* in the same attempt.                                                    *)
Reclaim(S) ==
    /\ \A j \in S : status[j] = "running"
    /\ status' = [j \in Jobs |-> IF j \in S THEN "pending" ELSE status[j]]
    /\ UNCHANGED attempt

(* A person withdraws a job; a success cannot be withdrawn. *)
Withdraw(j) ==
    /\ status[j] \in {"pending", "running", "failed"}
    /\ status' = [status EXCEPT ![j] = "cancelled"]
    /\ UNCHANGED attempt

(* A person asks again.  The attempt is counted, and nothing else ever     *)
(* discards a result.                                                      *)
Reopen(j) ==
    /\ status[j] # "absent"
    /\ status'  = [status EXCEPT ![j] = "pending"]
    /\ attempt' = [attempt EXCEPT ![j] = @ + 1]

LifecycleNext ==
    \/ \E j \in Jobs : Open(j) \/ Start(j) \/ Finish(j) \/ Withdraw(j) \/ Reopen(j)
    \/ \E S \in SUBSET Jobs : Reclaim(S)

LifecycleSpec == LifecycleInit /\ [][LifecycleNext]_lifecycleVars
=============================================================================
