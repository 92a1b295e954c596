-------------------------- MODULE AnalysisGrouping --------------------------
(***************************************************************************)
(* A group of analyses from the compose dialog to the ready row:           *)
(* grouping_service (inspection, plan), grouping_jobs (submit_grouping),   *)
(* the poller's _handle_grouping_terminal and the group branch of          *)
(* finalize_analysis, which finds the group in Risk Modeler by its name.   *)
(*                                                                         *)
(* A name is the posted name and the suffixes it took on: <<2>> is         *)
(* "Name_2", <<2, 3>> is "Name_2_3".  All requests post the same name.     *)
(***************************************************************************)
EXTENDS GroupingInspection, Sequences, FiniteSetsExt

CONSTANTS Analyses,     \* what the requests group
          Worlds,       \* the answers Risk Modeler may give
          Requests,     \* compose dialogs
          SubmissionOf, \* the submission each belongs to
          Threads,
          None,         \* a thread that runs nothing
          MaxNames,     \* bound: name attempts (the code's is 25)
          MaxFaults,    \* bound: threads lost, jobs taken from live threads,
                        \* answers lost, bodies that raise
          MaxResubmits, \* bound: failed jobs resubmitted on the queue page
          MaxChanges    \* bound: changes of what Risk Modeler answers

ASSUME AnalysisGroupingAssumption ==
    /\ Worlds # {} /\ \A s \in Worlds : PossibleWorld(s, Analyses)
    /\ {MaxNames, MaxFaults, MaxResubmits, MaxChanges} \subseteq Nat
    /\ IsFiniteSet(Analyses) /\ IsFiniteSet(Requests) /\ IsFiniteSet(Threads)
    /\ None \notin {"submit", "finalize"} \X (Requests \cup Nat)

VARIABLES world,    \* what Risk Modeler answers now
          rm,       \* groups Risk Modeler accepted, oldest first
          row,      \* the irp_analysis row of each request's group
          irpJobs,  \* grouping irp_jobs, oldest first
          heads,    \* status of the rwb_jobs
          request, thread,
          log,      \* history: see Log
          spent
vars == <<world, rm, row, irpJobs, heads, request, thread, log, spent>>

Submit(q)   == <<"submit", q>>    \* (analyst_request, its id)
Finalize(j) == <<"finalize", j>>  \* (irp_job, j)
MaxJobs == Cardinality(Requests) + MaxFaults
Heads   == {Submit(q) : q \in Requests} \cup {Finalize(j) : j \in 1..MaxJobs}

NoRow == [status |-> "none", name |-> << >>, pointer |-> 0]
Idle  == [at |-> "idle", head |-> None, attempt |-> 0, name |-> << >>, got |-> 0, view |-> << >>]

\* taken: jobs taken from a live thread.  doubt: accepted calls without a
\* record, the worker or the answer being lost.  unmarked: requests a worker was
\* lost for, or raised, between the failure record and the error mark.
Log == [taken : Nat, doubt : Nat, unmarked : SUBSET Requests]
Spend(what) == spent' = [spent EXCEPT ![what] = @ + 1]

Init ==
    /\ world \in Worlds
    /\ rm = << >> /\ irpJobs = << >>
    /\ row = [q \in Requests |-> NoRow]
    /\ heads = [h \in Heads |-> "absent"]
    /\ request = [q \in Requests |-> [at |-> "idle", seen |-> world, choice |-> NoChoice, base |-> << >>]]
    /\ thread = [w \in Threads |-> Idle]
    /\ log = [taken |-> 0, doubt |-> 0, unmarked |-> {}]
    /\ spent = [faults |-> 0, resubmits |-> 0, changes |-> 0]

-----------------------------------------------------------------------------
(* The work queue, as RwbQueue shows it *)

SetHead(h, st) == heads' = [heads EXCEPT ![h] = st]
\* The ways a body ends: raised is failed as run_job writes it, the body having
\* ended in an exception or at its time limit.
Outcome == {"succeeded", "failed", "raised"}

\* A job that ends, or has only its failure to write, needs nothing it has read.
Go(w, at) == thread' = [thread EXCEPT ![w] =
    IF at \in Outcome \cup {"record failure"} THEN [Idle EXCEPT !.at = at, !.head = thread[w].head]
    ELSE [@ EXCEPT !.at = at]]
QueueKeeps == UNCHANGED <<world, rm, row, irpJobs, request>>

\* The request whose group the job of a thread is about.
About(h) == IF h[1] = "submit" THEN h[2] ELSE irpJobs[h[2]].of

Claim(w, h) ==
    /\ thread[w] = Idle /\ heads[h] = "pending" /\ SetHead(h, "running")
    /\ thread' = [thread EXCEPT ![w] = [Idle EXCEPT !.head = h,
                      !.at = IF h[1] = "submit" THEN "look" ELSE "read"]]
    /\ QueueKeeps /\ UNCHANGED <<log, spent>>

Complete(w) ==
    LET h == thread[w].head IN
    /\ thread[w].at \in Outcome
    /\ heads' = IF heads[h] = "running" THEN [heads EXCEPT ![h] = thread[w].at] ELSE heads
    /\ thread' = [thread EXCEPT ![w] = Idle]
    /\ QueueKeeps /\ UNCHANGED <<log, spent>>

\* The job of a lost thread, or one taken from a live one.
Reclaim(h) ==
    /\ heads[h] = "running" /\ SetHead(h, "pending")
    /\ IF \E w \in Threads : thread[w].head = h
         THEN /\ spent.faults < MaxFaults /\ Spend("faults")
              /\ log' = [log EXCEPT !.taken = @ + 1]
         ELSE UNCHANGED <<log, spent>>
    /\ QueueKeeps /\ UNCHANGED thread

\* What an interrupted body leaves behind it.
Interrupts(w) ==
    /\ spent.faults < MaxFaults /\ Spend("faults")
    /\ log' = [log EXCEPT
          !.doubt = IF thread[w].at = "record" THEN @ + 1 ELSE @,
          !.unmarked = IF thread[w].at = "mark" THEN @ \cup {About(thread[w].head)} ELSE @]
    /\ QueueKeeps /\ UNCHANGED heads

Crash(w) ==
    /\ thread[w] # Idle /\ Interrupts(w)
    /\ thread' = [thread EXCEPT ![w] = Idle]

\* run_job: a body that raises unhandled, or meets the actor's time limit, at
\* any of its steps.  Nobody runs the job again.
Raises(w) ==
    /\ thread[w].at \notin Outcome \cup {"idle"} /\ Interrupts(w)
    /\ Go(w, "raised")

-----------------------------------------------------------------------------
(* free_name_attempts *)

Attempt(base, n) == IF n = 0 THEN base ELSE Append(base, n + 1)

\* Live group names of the submission.
Live(q) == {row[p].name : p \in {x \in Requests : /\ SubmissionOf[x] = SubmissionOf[q]
                                                  /\ row[x].status # "none"}}

\* The first attempt from n on whose name is free; none past the last.
FreeAttempts(q, base, n) == {i \in n..MaxNames - 1 : Attempt(base, i) \notin Live(q)}

-----------------------------------------------------------------------------
(* submit_grouping.  The name kept by a thread is group["name"]. *)

BodyKeeps == UNCHANGED <<world, heads, request, log>>
Body1(w) == thread[w].head[2]

\* Mutant: the body does not look for a job it has submitted already.
LookAnyway(w) ==
    /\ thread[w].at = "look" /\ Go(w, "claim")
    /\ BodyKeeps /\ UNCHANGED <<rm, row, irpJobs, spent>>

\* Any irp_job of the group, failed submissions too.
Look(w) ==
    /\ thread[w].at = "look"
    /\ Go(w, IF \E j \in DOMAIN irpJobs : irpJobs[j].of = Body1(w) THEN "succeeded" ELSE "claim")
    /\ BodyKeeps /\ UNCHANGED <<rm, row, irpJobs, spent>>

\* _claim_group: the row of an earlier run, or one under the first free name; no
\* free name is an exception nobody catches.
ClaimGroup(w) ==
    LET q == Body1(w)
        free == FreeAttempts(q, request[q].base, 0)
    IN
    /\ thread[w].at = "claim"
    /\ IF row[q].status # "none"
         THEN /\ thread' = [thread EXCEPT ![w].at = "count", ![w].name = row[q].name]
              /\ UNCHANGED row
       ELSE IF free = {} THEN Go(w, "raised") /\ UNCHANGED row
       ELSE LET name == Attempt(request[q].base, Min(free)) IN
              /\ row' = [row EXCEPT ![q] = [NoRow EXCEPT !.status = "pending", !.name = name]]
              /\ thread' = [thread EXCEPT ![w].at = "count", ![w].name = name]
    /\ BodyKeeps /\ UNCHANGED <<rm, irpJobs, spent>>

\* What a search by name may return: what has finished, and of what still runs
\* Risk Modeler may list it or not.
Hits(name) ==
    LET named(st) == {g \in DOMAIN rm : rm[g].name = name /\ rm[g].state = st} IN
    {named("finished") \cup s : s \in SUBSET named("running")}

\* count_analyses_named, then _rename_group while there is one.
CountNamed(w) ==
    /\ thread[w].at = "count"
    /\ \/ \E s \in Hits(thread[w].name) : Go(w, IF s = {} THEN "inspect" ELSE "rename")
       \/ Go(w, "record failure")
    /\ BodyKeeps /\ UNCHANGED <<rm, row, irpJobs, spent>>

Rename(w) ==
    LET q == Body1(w)
        free == FreeAttempts(q, request[q].base, thread[w].attempt + 1)
        name == Attempt(request[q].base, Min(free))
    IN
    /\ thread[w].at = "rename"
    /\ IF free = {} THEN Go(w, "record failure") /\ UNCHANGED row
       ELSE /\ row' = [row EXCEPT ![q].name = name]
            /\ thread' = [thread EXCEPT ![w].at = "count", ![w].name = name,
                                        ![w].attempt = Min(free)]
    /\ BodyKeeps /\ UNCHANGED <<rm, irpJobs, spent>>

\* GroupingManager.submit before the POST: a second inspection, which must be
\* the one the analyst saw, and the choices against it.
Reinspect(w) ==
    LET q == Body1(w)
        i == Inspect(world, Analyses)
        asked == PeriodsAsked(Inspect(request[q].seen, Analyses))
    IN
    /\ thread[w].at = "inspect"
    /\ \/ /\ Fingerprint(i) = Fingerprint(Inspect(request[q].seen, Analyses))
          /\ i.problems = {} /\ ChoicesResolve(i, request[q].choice)
          /\ thread' = [thread EXCEPT ![w].at = "post", ![w].view = Body(i, request[q].choice, asked)]
       \/ Go(w, "record failure")
    /\ BodyKeeps /\ UNCHANGED <<rm, row, irpJobs, spent>>

Groups(w, n) ==
    rm' = rm \o [k \in 1..n |-> [of |-> Body1(w), name |-> thread[w].name,
                                 body |-> thread[w].view, state |-> "running"]]

Unheard == /\ spent.faults < MaxFaults /\ Spend("faults")
           /\ log' = [log EXCEPT !.doubt = @ + 1]

Post(w) ==
    /\ thread[w].at = "post"
    /\ \E n \in 0..2 :
          /\ Groups(w, n)
          /\ \/ /\ n > 0 /\ thread' = [thread EXCEPT ![w].at = "record", ![w].got = Len(rm) + n,
                                                    ![w].view = << >>]
                /\ IF n = 1 THEN UNCHANGED <<spent, log>> ELSE Unheard
             \/ /\ n < 2 /\ Go(w, "record failure")
                /\ IF n = 0 THEN UNCHANGED <<spent, log>> ELSE Unheard
    /\ UNCHANGED <<world, heads, request, row, irpJobs>>

AddJob(q, g, st) == irpJobs' = Append(irpJobs, [of |-> q, group |-> g, status |-> st])

Record(w) ==
    /\ \/ thread[w].at = "record" /\ AddJob(Body1(w), thread[w].got, "QUEUED") /\ Go(w, "succeeded")
       \/ thread[w].at = "record failure" /\ AddJob(Body1(w), 0, "SUBMISSION FAILED") /\ Go(w, "mark")
    /\ BodyKeeps /\ UNCHANGED <<rm, row, spent>>

\* Mutant: a refused group keeps its row as it is.
MarkNothing(w) ==
    /\ thread[w].at = "mark" /\ Go(w, "failed")
    /\ BodyKeeps /\ UNCHANGED <<rm, row, irpJobs, spent>>

Mark(w) ==
    /\ thread[w].at = "mark" /\ Go(w, "failed")
    /\ row' = [row EXCEPT ![Body1(w)].status = "error"]
    /\ BodyKeeps /\ UNCHANGED <<rm, irpJobs, spent>>

-----------------------------------------------------------------------------
(* finalize_analysis of a group *)

ReadRow(w) ==
    /\ thread[w].at = "read"
    /\ thread' = [thread EXCEPT ![w].at = "resolve", ![w].name = row[About(thread[w].head)].name]
    /\ BodyKeeps /\ UNCHANGED <<rm, row, irpJobs, spent>>

Fails(w, q) == Go(w, "failed") /\ row' = [row EXCEPT ![q].status = "error"]

\* Mutant: the first of several groups of the name is taken.
ResolveFirst(w) ==
    LET q == About(thread[w].head) IN
    /\ thread[w].at = "resolve"
    /\ \/ \E s \in Hits(thread[w].name), g \in DOMAIN rm : g \in s
            /\ thread' = [thread EXCEPT ![w].at = "metadata"]
            /\ row' = [row EXCEPT ![q].pointer = g]
       \/ Fails(w, q)
    /\ BodyKeeps /\ UNCHANGED <<rm, irpJobs, spent>>

\* get_analysis_by_name_only: exactly one hit, and its id is stored at once.
Resolve(w) ==
    LET q == About(thread[w].head) IN
    /\ thread[w].at = "resolve"
    /\ \/ \E g \in DOMAIN rm : {g} \in Hits(thread[w].name)
            /\ thread' = [thread EXCEPT ![w].at = "metadata"]
            /\ row' = [row EXCEPT ![q].pointer = g]
       \/ Fails(w, q)
    /\ BodyKeeps /\ UNCHANGED <<rm, irpJobs, spent>>

Finish(w) ==
    LET q == About(thread[w].head) IN
    /\ thread[w].at = "metadata"
    /\ \/ Go(w, "succeeded") /\ row' = [row EXCEPT ![q].status = "ready"]
       \/ Fails(w, q)
    /\ BodyKeeps /\ UNCHANGED <<rm, irpJobs, spent>>

-----------------------------------------------------------------------------
(* The poller *)

\* Mutant: the status Risk Modeler answers is stored as it is.
PollRaw(j) ==
    /\ irpJobs[j].status = "QUEUED" /\ rm[irpJobs[j].group].state # "running"
    /\ irpJobs' = [irpJobs EXCEPT ![j].status = rm[irpJobs[j].group].state]
    /\ SetHead(Finalize(j), "pending")
    /\ UNCHANGED <<world, rm, row, request, thread, log, spent>>

\* update_tracking and _handle_grouping_terminal, one transaction.
Poll(j) ==
    /\ irpJobs[j].status = "QUEUED" /\ rm[irpJobs[j].group].state # "running"
    /\ IF rm[irpJobs[j].group].state = "finished"
         THEN /\ irpJobs' = [irpJobs EXCEPT ![j].status = "FINISHED"]
              /\ SetHead(Finalize(j), "pending") /\ UNCHANGED row
         ELSE /\ irpJobs' = [irpJobs EXCEPT ![j].status = "FAILED"]
              /\ row' = [row EXCEPT ![irpJobs[j].of].status = "error"] /\ UNCHANGED heads
    /\ UNCHANGED <<world, rm, request, thread, log, spent>>

-----------------------------------------------------------------------------
(* Requests of analysts *)

RequestKeeps == UNCHANGED <<world, rm, row, irpJobs, thread, log>>

\* _free_group_name: the posted name, suffixed against the groups of now; a form
\* that finds none raises, and stores nothing.
BaseName(q) == Attempt(<< >>, Min(FreeAttempts(q, << >>, 0)))

Enqueue(q, seen, choice) ==
    /\ FreeAttempts(q, << >>, 0) # {}
    /\ SetHead(Submit(q), "pending")
    /\ request' = [request EXCEPT ![q] = [at |-> "posted", seen |-> seen, choice |-> choice,
                                          base |-> BaseName(q)]]

\* inspect_grouping: the dialog opens on what Risk Modeler answers now.
OpenDialog(q) ==
    /\ request[q].at = "idle"
    /\ request' = [request EXCEPT ![q].at = "open", ![q].seen = world]
    /\ RequestKeeps /\ UNCHANGED <<heads, spent>>

\* request_grouping: whether the choices fit is the worker's to find out.
PostForm(q) ==
    /\ request[q].at = "open"
    /\ \E c \in FormChoices(Inspect(request[q].seen, Analyses)) : Enqueue(q, request[q].seen, c)
    /\ RequestKeeps /\ UNCHANGED spent

\* group_compose_finish: inspect and post at once, unless finish_blockers.
PressFinish(q) ==
    LET i == Inspect(world, Analyses) IN
    /\ request[q].at = "idle"
    /\ i.problems = {} /\ SchemeNeeded(i) = {} /\ SetNeeded(i) = {}
    /\ Enqueue(q, world, NoChoice)
    /\ RequestKeeps /\ UNCHANGED spent

\* resubmit_rwb_job, from the queue page.
Resubmit(h) ==
    /\ heads[h] \in {"failed", "raised"} /\ SetHead(h, "pending")
    /\ spent.resubmits < MaxResubmits /\ Spend("resubmits")
    /\ RequestKeeps /\ UNCHANGED request

-----------------------------------------------------------------------------
(* Risk Modeler *)

GroupEnds(g) ==
    /\ rm[g].state = "running"
    /\ \E st \in {"finished", "failed"} : rm' = [rm EXCEPT ![g].state = st]
    /\ UNCHANGED <<world, row, irpJobs, heads, request, thread, log, spent>>

WorldChanges ==
    /\ spent.changes < MaxChanges /\ Spend("changes")
    /\ world' \in Worlds \ {world}
    /\ UNCHANGED <<rm, row, irpJobs, heads, request, thread, log>>

-----------------------------------------------------------------------------
SubmitStep(w) == \/ Look(w) \/ ClaimGroup(w) \/ CountNamed(w) \/ Rename(w) \/ Reinspect(w)
                 \/ Post(w) \/ Record(w) \/ Mark(w)
ThreadStep(w) == \/ \E h \in Heads : Claim(w, h)
                 \/ SubmitStep(w) \/ ReadRow(w) \/ Resolve(w) \/ Finish(w) \/ Complete(w)

Next ==
    \/ \E w \in Threads : ThreadStep(w) \/ Crash(w) \/ Raises(w)
    \/ \E h \in Heads : Reclaim(h) \/ Resubmit(h)
    \/ \E j \in DOMAIN irpJobs : Poll(j)
    \/ \E q \in Requests : OpenDialog(q) \/ PostForm(q) \/ PressFinish(q)
    \/ \E g \in DOMAIN rm : GroupEnds(g)
    \/ WorldChanges

Spec == Init /\ [][Next]_vars

-----------------------------------------------------------------------------
(* Properties *)

Seen(q) == Inspect(request[q].seen, Analyses)

(* Every variable keeps its type; no request gets more jobs than it has      *)
(* finalize heads for.                                                       *)
TypeOK ==
    /\ world \in Worlds
    /\ row \in [Requests -> [status : {"none", "pending", "ready", "error"}, name : Seq(Nat),
                             pointer : 0..Len(rm)]]
    /\ Len(irpJobs) <= MaxJobs
    /\ irpJobs \in Seq([of : Requests, group : 0..Len(rm),
                        status : {"QUEUED", "FINISHED", "FAILED", "SUBMISSION FAILED"}])
    /\ heads \in [Heads -> {"absent", "pending", "running"} \cup Outcome]
    /\ \A q \in Requests : /\ request[q].at \in {"idle", "open", "posted"}
                           /\ request[q].seen \in Worlds
    /\ \A w \in Threads : /\ thread[w].at = "idle" <=> thread[w].head = None
                          /\ thread[w].head \in Heads \cup {None}
    /\ log \in Log

\* Every row of the members of world s is in the group of this body.
Covers(s, body) ==
    LET Of(r) == {e \in body.regions : e.key = r.key /\ (e.scheme = 0 <=> r.framework = "PLT")}
        elt == {r \in UNION {s.rows[a] : a \in Analyses} : r.framework = "ELT"}
    IN
    \A a \in Analyses :
        /\ a \in s.found /\ s.rows[a] # {}
        /\ \A r \in s.rows[a] :
             IF body.regions = {}
               THEN r.scheme # 0 /\ \A x \in elt : x.key = r.key => x.scheme = r.scheme
             ELSE IF r.framework = "PLT" THEN r.pet # 0 /\ r.pet \in {e.set : e \in Of(r)}
             ELSE /\ Cardinality({e.scheme : e \in Of(r)}) = 1
                  /\ \A e \in Of(r) : e.scheme = r.scheme \/ e.scheme \in s.active[r.key]
                  /\ body.toPLT => \A e \in Of(r) : \E t \in s.sets[r.key] : t.id = e.set

(* The group Risk Modeler runs is the one the analyst saw inspected, with    *)
(* the choices made there: whatever changes in Risk Modeler between the      *)
(* dialog and the worker is refused, or makes no difference to the request.  *)
(* And it covers every region its members reported: no row is dropped for a  *)
(* missing id, the ELT regions of a partition share one scheme that Risk     *)
(* Modeler applies to it, a conversion to PLT has one set for each.          *)
GroupedAsSeen ==
    \A g \in DOMAIN rm : LET q == rm[g].of IN
        /\ rm[g].body = Body(Seen(q), request[q].choice, PeriodsAsked(Seen(q)))
        /\ Covers(request[q].seen, rm[g].body)

(* A ready group points at a group Risk Modeler built for its own request,   *)
(* found by name alone: two submissions may use one name at once, a second   *)
(* group may stand under it after a lost worker.  Excepted is a job taken    *)
(* from a live thread, which renames the row under the one still running.    *)
ReadyGroupIsItsOwn ==
    \A q \in Requests : row[q].status = "ready" /\ log.taken = 0 =>
        row[q].pointer # 0 /\ rm[row[q].pointer].of = q

(* Risk Modeler gets one group per request, and one more at most for every   *)
(* worker lost before its record, answer lost and job taken: a resubmitted   *)
(* or reclaimed job finds the irp_job and stops.                             *)
GroupsAccounted ==
    \A q \in Requests :
        Cardinality({g \in DOMAIN rm : rm[g].of = q}) <= 1 + log.doubt + log.taken

Quiet == /\ \A h \in Heads : heads[h] \notin {"pending", "running"}
         /\ \A w \in Threads : thread[w] = Idle
         /\ \A j \in DOMAIN irpJobs : irpJobs[j].status # "QUEUED"

\* The job raised before it settled the row.  The queue page still offers it,
\* and a new run would go on: no irp_job makes the submission stop at once.
JobRaised(q) ==
    \/ heads[Submit(q)] = "raised" /\ \A j \in DOMAIN irpJobs : irpJobs[j].of # q
    \/ \E j \in DOMAIN irpJobs : irpJobs[j].of = q /\ heads[Finalize(j)] = "raised"

(* When nothing is under way a requested group is ready or in error, but for *)
(* a job that raised or met its time limit (run_job fails the job and leaves *)
(* the row pending; only a resubmission from the queue page goes on), or a   *)
(* worker lost, or raised, between the failure record and the error mark:    *)
(* the next run finds the record and skips, and the row stays pending.       *)
GroupSettles ==
    Quiet => \A q \in Requests : row[q].status = "pending" =>
        q \in log.unmarked \/ JobRaised(q)

=============================================================================
