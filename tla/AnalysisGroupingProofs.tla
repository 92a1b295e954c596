----------------------- MODULE AnalysisGroupingProofs -----------------------
(***************************************************************************)
(* Proofs about AnalysisGrouping, for any number of requests, submissions,  *)
(* threads, names, faults and changes in Risk Modeler.                      *)
(***************************************************************************)
EXTENDS AnalysisGrouping, FiniteSetTheorems, TLAPS

\* The places of the two bodies; those at which the thread knows the group's
\* name; and those from which it may still record a job.
NamedAt    == {"count", "rename", "inspect", "post", "record"}
WriterAt   == NamedAt \cup {"claim", "record failure"}
SubmitAt   == WriterAt \cup {"look", "mark"}
FinalizeAt == {"read", "resolve", "metadata"}
Ended      == {"succeeded", "failed"}   \* what a body reports of itself
Places     == {"idle", "raised"} \cup Ended \cup SubmitAt \cup FinalizeAt
JobStatus  == {"QUEUED", "FINISHED", "FAILED", "SUBMISSION FAILED"}

\* What a form may have posted, and the body of a group built as it was seen.
Postable     == (UNION {FormChoices(Inspect(s, Analyses)) : s \in Worlds}) \cup {NoChoice}
AsSeen(s, c) == Body(Inspect(s, Analyses), c, PeriodsAsked(Inspect(s, Analyses)))
Bodies       == {AsSeen(s, c) : s \in Worlds, c \in Postable}

Group   == [of : Requests, name : Seq(Nat), body : Bodies, state : {"running", "finished", "failed"}]
GroupRow == [status : {"none", "pending", "ready", "error"}, name : Seq(Nat), pointer : Nat]
Job     == [of : Requests, group : Nat, status : JobStatus]
Dialog  == [at : {"idle", "open", "posted"}, seen : Worlds, choice : Postable, base : Seq(Nat)]
Thread  == [at : Places, head : Heads \cup {None}, attempt : Nat, name : Seq(Nat), got : Nat,
            view : Bodies \cup {<< >>}]
Budget  == [faults : Nat, resubmits : Nat, changes : Nat]

Typed ==
    /\ world \in Worlds
    /\ rm \in Seq(Group)
    /\ row \in [Requests -> GroupRow]
    /\ irpJobs \in Seq(Job)
    /\ heads \in [Heads -> {"absent", "pending", "running"} \cup Outcome]
    /\ request \in [Requests -> Dialog]
    /\ thread \in [Threads -> Thread]
    /\ log \in Log
    /\ spent \in Budget
    /\ log.taken <= spent.faults /\ spent.faults <= MaxFaults

OnSubmit(w, q)   == thread[w].head = Submit(q)
OnFinalize(w, j) == thread[w].head = Finalize(j)
Unserved(q) == \A j \in DOMAIN irpJobs : irpJobs[j].of # q
Attended(q) == \E w \in Threads : OnSubmit(w, q)

\* A thread is in the body of the job it took.
InBody(w) ==
    /\ thread[w].at = "idle" <=> thread[w].head = None
    /\ thread[w].at = "idle" => thread[w] = Idle
    /\ thread[w].at \in SubmitAt => \E q \in Requests : OnSubmit(w, q)
    /\ thread[w].at \in FinalizeAt => \E j \in DOMAIN irpJobs : OnFinalize(w, j)
Placed == \A w \in Threads : InBody(w)

\* The jobs are about groups that were asked for, and what points at a group of
\* Risk Modeler points at one it has.
Keyed ==
    /\ \A q \in Requests : heads[Submit(q)] # "absent" => request[q].at = "posted"
    /\ \A j \in 1..MaxJobs : heads[Finalize(j)] # "absent" =>
          j \in DOMAIN irpJobs /\ irpJobs[j].status = "FINISHED"
    /\ \A w \in Threads : thread[w].head # None => heads[thread[w].head] # "absent"
    /\ \A q \in Requests : /\ row[q].pointer \in 0..Len(rm)
                           /\ ~ Unserved(q) => row[q].status # "none"
                           /\ row[q].status # "none" => heads[Submit(q)] # "absent"

JobKept(j) ==
    /\ irpJobs[j].group \in 0..Len(rm)
    /\ irpJobs[j].status # "SUBMISSION FAILED" =>
          irpJobs[j].group # 0 /\ rm[irpJobs[j].group].of = irpJobs[j].of
    /\ irpJobs[j].status = "FINISHED" => rm[irpJobs[j].group].state = "finished"
JobsKept == \A j \in DOMAIN irpJobs : JobKept(j)

Submitting(w, q) ==
    /\ thread[w].at \in NamedAt \cup {"record failure", "mark"} => row[q].status # "none"
    /\ thread[w].at = "record" => thread[w].got \in 1..Len(rm) /\ rm[thread[w].got].of = q
    /\ thread[w].at \in {"succeeded", "mark"} => ~ Unserved(q)
AllSubmitting == \A w \in Threads, q \in Requests : OnSubmit(w, q) => Submitting(w, q)

-----------------------------------------------------------------------------
(* How many jobs there are *)

JobsOf(Q)   == {j \in DOMAIN irpJobs : irpJobs[j].of \in Q}
StaffOf(Q)  == {w \in Threads : \E q \in Q : OnSubmit(w, q) /\ (Unserved(q) \/ thread[w].at \in WriterAt)}
ServedOf(Q) == {q \in Q : Attended(q) \/ ~ Unserved(q)}
LooseOf(Q)  == {q \in Q : Attended(q) /\ Unserved(q) /\ heads[Submit(q)] # "running"}

\* Of any requests: their jobs, the threads that may record one, and the jobs of
\* theirs that one more thread may claim beside such a thread, are one for each
\* request, and one more for each job taken from a live thread.
JobBudget ==
    \A Q \in SUBSET Requests :
        Cardinality(JobsOf(Q)) + Cardinality(StaffOf(Q)) + Cardinality(LooseOf(Q))
            <= Cardinality(ServedOf(Q)) + log.taken

\* A group is recorded, about to be, or in doubt.
GroupsOf(q)    == {g \in DOMAIN rm : rm[g].of = q}
RecordedOf(q)  == {j \in DOMAIN irpJobs : irpJobs[j].of = q /\ irpJobs[j].group # 0}
RecordingOf(q) == {w \in Threads : OnSubmit(w, q) /\ thread[w].at = "record"}
GroupBudget ==
    \A q \in Requests :
        Cardinality(GroupsOf(q)) <= Cardinality(RecordedOf(q)) + Cardinality(RecordingOf(q)) + log.doubt

-----------------------------------------------------------------------------
(* Whose group a row points at *)

NameKnown(w, q) ==
    /\ thread[w].at \in NamedAt => thread[w].name = row[q].name
    /\ thread[w].at = "record" => rm[thread[w].got].name = row[q].name
NameRead(w, j) ==
    /\ thread[w].at = "resolve"  => thread[w].name = row[irpJobs[j].of].name
    /\ thread[w].at = "metadata" => row[irpJobs[j].of].pointer # 0
JobNamed(j) == irpJobs[j].group # 0 => rm[irpJobs[j].group].name = row[irpJobs[j].of].name
Pointed(q)  == /\ row[q].status = "ready" => row[q].pointer # 0
               /\ row[q].pointer # 0 => rm[row[q].pointer].of = q
NamesKept ==
    log.taken = 0 =>
        /\ \A w \in Threads, q \in Requests : OnSubmit(w, q) => NameKnown(w, q)
        /\ \A j \in DOMAIN irpJobs : JobNamed(j)
        /\ \A w \in Threads, j \in DOMAIN irpJobs : OnFinalize(w, j) => NameRead(w, j)
        /\ \A q \in Requests : Pointed(q)

-----------------------------------------------------------------------------
(* Who settles a row that is pending *)

Marking(q) == \E w \in Threads : OnSubmit(w, q) /\ thread[w].at = "mark"
Handled(j) ==
    \/ irpJobs[j].status = "QUEUED"
    \/ irpJobs[j].status = "FINISHED" /\ heads[Finalize(j)] \in {"pending", "running", "raised"}
    \/ irpJobs[j].status = "SUBMISSION FAILED" /\ Marking(irpJobs[j].of)

\* A submission that reported its end has recorded a job; one that raised may not
\* have, and its job stays to be resubmitted.
HeadEnds(q)        == heads[Submit(q)] \in Ended => ~ Unserved(q)
RunEnds(w, q)      == OnSubmit(w, q) /\ thread[w].at = "failed" => ~ Unserved(q)
JobSettles(j)      == row[irpJobs[j].of].status = "pending" /\ irpJobs[j].of \notin log.unmarked => Handled(j)
FinalizeEnds(w, j) == OnFinalize(w, j) /\ thread[w].at \in Ended => row[irpJobs[j].of].status # "pending"
Settling ==
    /\ \A q \in Requests : HeadEnds(q)
    /\ \A w \in Threads, q \in Requests : RunEnds(w, q)
    /\ \A j \in DOMAIN irpJobs : JobSettles(j)
    /\ \A w \in Threads, j \in DOMAIN irpJobs : FinalizeEnds(w, j)

-----------------------------------------------------------------------------
(* What is built is what was seen *)

Fair(q, body) == body = AsSeen(request[q].seen, request[q].choice) /\ Covers(request[q].seen, body)
ViewFair(w, q) == OnSubmit(w, q) /\ thread[w].at = "post" => Fair(q, thread[w].view)
GroupFair(g)   == request[rm[g].of].at = "posted" /\ Fair(rm[g].of, rm[g].body)
SeenKept == /\ \A w \in Threads, q \in Requests : ViewFair(w, q)
            /\ \A g \in DOMAIN rm : GroupFair(g)

Inductive ==
    /\ Typed /\ Placed /\ Keyed /\ JobsKept /\ AllSubmitting /\ JobBudget /\ GroupBudget
    /\ NamesKept /\ Settling /\ SeenKept

-----------------------------------------------------------------------------
(* The constants, the jobs and the names *)

LEMMA ConstantFacts ==
    /\ Worlds # {} /\ {MaxNames, MaxFaults, MaxResubmits, MaxChanges} \subseteq Nat
    /\ IsFiniteSet(Analyses) /\ IsFiniteSet(Requests) /\ IsFiniteSet(Threads)
    /\ Cardinality(Requests) \in Nat /\ MaxJobs \in Nat
    /\ MaxJobs = Cardinality(Requests) + MaxFaults
<1>1. Cardinality(Requests) \in Nat
  BY AnalysisGroupingAssumption, FS_CardinalityType
<1> QED
  BY <1>1, AnalysisGroupingAssumption DEF MaxJobs

\* The jobs of the two kinds are distinct.
LEMMA HeadFacts ==
    /\ None \notin Heads
    /\ \A q \in Requests : /\ Submit(q) \in Heads /\ Submit(q)[1] = "submit" /\ Submit(q)[2] = q
                           /\ \A p \in Requests : Submit(q) = Submit(p) => q = p
                           /\ \A j \in Nat : Submit(q) # Finalize(j)
    /\ \A j \in Nat : /\ Finalize(j)[1] = "finalize" /\ Finalize(j)[2] = j
                      /\ \A i \in Nat : Finalize(i) = Finalize(j) => i = j
    /\ \A j \in 1..MaxJobs : Finalize(j) \in Heads
    /\ \A h \in Heads : \/ \E q \in Requests : h = Submit(q)
                        \/ \E j \in 1..MaxJobs : h = Finalize(j)
<1>1. \A q \in Requests : Submit(q)[1] = "submit" /\ Submit(q)[2] = q
  BY DEF Submit
<1>2. \A j \in Nat : Finalize(j)[1] = "finalize" /\ Finalize(j)[2] = j
  BY DEF Finalize
<1>3. None \notin Heads
  BY AnalysisGroupingAssumption, ConstantFacts DEF Heads, Submit, Finalize
<1>4. \A q \in Requests, j \in Nat : Submit(q) # Finalize(j)
  BY <1>1, <1>2
<1>5. /\ \A q \in Requests : Submit(q) \in Heads
      /\ \A j \in 1..MaxJobs : Finalize(j) \in Heads
      /\ \A h \in Heads : \/ \E q \in Requests : h = Submit(q)
                          \/ \E j \in 1..MaxJobs : h = Finalize(j)
  BY DEF Heads
<1>6. \A q, p \in Requests : Submit(q) = Submit(p) => q = p
  BY <1>1
<1>7. \A i, j \in Nat : Finalize(i) = Finalize(j) => i = j
  BY <1>2
<1> QED
  BY <1>1, <1>2, <1>3, <1>4, <1>5, <1>6, <1>7

LEMMA Abouts ==
    /\ \A q \in Requests : About(Submit(q)) = q
    /\ \A j \in Nat : About(Finalize(j)) = irpJobs[j].of
BY HeadFacts DEF About

LEMMA IdleFacts ==
    Idle \in Thread /\ Idle.at = "idle" /\ Idle.head = None
BY DEF Idle, Thread, Places

\* The least of some numbers is one of them: of the parts of S up to one of its
\* numbers, the smallest ends with it.
LEMMA MinIn ==
    ASSUME NEW S, S \subseteq Nat, IsFiniteSet(S), S # {}
    PROVE  Min(S) \in S
<1>. DEFINE UpTo(k) == {n \in S : n <= k}
            parts   == {UpTo(k) : k \in S}
            order   == StrictSubsetOrdering(S)
<1>2. parts \subseteq SUBSET S /\ parts # {}
  OBVIOUS
<1>3. IsWellFoundedOn(order, SUBSET S)
  BY FS_FiniteSubsetsOfFinite, FS_StrictSubsetOrderingWellFounded
<1>. HIDE DEF order
<1>4. \E p \in parts : \A q \in parts : ~ (<<q, p>> \in order)
  BY <1>2, <1>3, WFMin
<1>5. PICK m \in S : \A k \in S : ~ (<<UpTo(k), UpTo(m)>> \in order)
  BY <1>4
<1>6. \A n \in S : m <= n
  <2> SUFFICES ASSUME NEW n \in S, n < m PROVE FALSE
    OBVIOUS
  <2>1. m \in UpTo(m) /\ m \notin UpTo(n)
    OBVIOUS
  <2>2. UpTo(n) \subseteq UpTo(m)
    <3> SUFFICES ASSUME NEW x \in S, x <= n PROVE x <= m
      OBVIOUS
    <3> QED
      OBVIOUS
  <2>3. UpTo(n) \in SUBSET S /\ UpTo(m) \in SUBSET S
    OBVIOUS
  <2>4. ~ (<<UpTo(n), UpTo(m)>> \in order)
    BY <1>5
  <2>. HIDE DEF UpTo
  <2> QED
    BY <2>1, <2>2, <2>3, <2>4 DEF order, StrictSubsetOrdering
<1> QED
  BY <1>6 DEF Min

LEMMA AttemptType ==
    ASSUME NEW base \in Seq(Nat), NEW n \in Nat
    PROVE  Attempt(base, n) \in Seq(Nat)
BY DEF Attempt

\* A free name that is taken is the name of an attempt.
LEMMA FreeName ==
    ASSUME NEW q \in Requests, NEW base \in Seq(Nat), NEW n \in Nat,
           FreeAttempts(q, base, n) # {}
    PROVE  /\ Min(FreeAttempts(q, base, n)) \in Nat
           /\ Attempt(base, Min(FreeAttempts(q, base, n))) \in Seq(Nat)
<1>. DEFINE S == FreeAttempts(q, base, n)
<1>1. n \in Int /\ MaxNames - 1 \in Int
  BY ConstantFacts
<1>2. IsFiniteSet(n..MaxNames - 1)
  BY <1>1, FS_Interval
<1>3. S \in SUBSET (n..MaxNames - 1) /\ n..MaxNames - 1 \subseteq Nat
  BY <1>1 DEF FreeAttempts
<1>4. IsFiniteSet(S) /\ S \subseteq Nat
  BY <1>2, <1>3, FS_Subset
<1>. HIDE DEF S
<1>5. Min(S) \in S
  BY <1>4, MinIn DEF S
<1> QED
  BY <1>4, <1>5, AttemptType DEF S

\* A copy of one value, more than once, at the end of a sequence.
LEMMA Extended ==
    ASSUME NEW S, NEW s \in Seq(S), NEW e \in S, NEW n \in Nat
    PROVE  LET t == s \o [k \in 1..n |-> e] IN
           /\ t \in Seq(S) /\ Len(t) = Len(s) + n
           /\ \A i \in 1..Len(s) : t[i] = s[i]
           /\ \A i \in Len(s) + 1..Len(s) + n : t[i] = e
<1>. DEFINE more == [k \in 1..n |-> e]
<1>1. more \in Seq(S) /\ Len(more) = n /\ \A k \in 1..n : more[k] = e
  OBVIOUS
<1>. HIDE DEF more
<1> QED
  BY <1>1 DEF more

LEMMA GroupsTyped ==
    ASSUME NEW s \in Seq(Group)
    PROVE  /\ Len(s) \in Nat /\ DOMAIN s = 1..Len(s)
           /\ \A g \in DOMAIN s : g \in Nat /\ s[g] \in Group /\ s[g].of \in Requests
                                  /\ s[g].name \in Seq(Nat)
<1>1. Len(s) \in Nat /\ DOMAIN s = 1..Len(s) /\ \A g \in DOMAIN s : g \in Nat /\ s[g] \in Group
  OBVIOUS
<1>2. \A e \in Group : e.of \in Requests /\ e.name \in Seq(Nat)
  BY DEF Group
<1> QED
  BY <1>1, <1>2

LEMMA JobsTyped ==
    ASSUME NEW s \in Seq(Job)
    PROVE  /\ Len(s) \in Nat /\ DOMAIN s = 1..Len(s)
           /\ \A j \in DOMAIN s : j \in Nat /\ s[j] \in Job /\ s[j].of \in Requests
                                  /\ s[j].group \in Nat /\ s[j].status \in JobStatus
<1>1. Len(s) \in Nat /\ DOMAIN s = 1..Len(s) /\ \A j \in DOMAIN s : j \in Nat /\ s[j] \in Job
  OBVIOUS
<1>2. \A e \in Job : e.of \in Requests /\ e.group \in Nat /\ e.status \in JobStatus
  BY DEF Job
<1> QED
  BY <1>1, <1>2

LEMMA Types ==
    ASSUME Typed
    PROVE  /\ rm \in Seq(Group) /\ Len(rm) \in Nat /\ DOMAIN rm = 1..Len(rm)
           /\ \A g \in DOMAIN rm : g \in Nat /\ rm[g] \in Group /\ rm[g].of \in Requests
                                   /\ rm[g].name \in Seq(Nat)
           /\ irpJobs \in Seq(Job) /\ Len(irpJobs) \in Nat /\ DOMAIN irpJobs = 1..Len(irpJobs)
           /\ \A j \in DOMAIN irpJobs : j \in Nat /\ irpJobs[j] \in Job /\ irpJobs[j].of \in Requests
                                        /\ irpJobs[j].group \in Nat /\ irpJobs[j].status \in JobStatus
           /\ log.taken \in Nat /\ log.doubt \in Nat
<1>1. rm \in Seq(Group) /\ irpJobs \in Seq(Job) /\ log.taken \in Nat /\ log.doubt \in Nat
  BY DEF Typed, Log
<1> QED
  BY <1>1, GroupsTyped, JobsTyped

LEMMA NextTypes ==
    ASSUME Typed'
    PROVE  /\ rm' \in Seq(Group) /\ Len(rm') \in Nat /\ DOMAIN rm' = 1..Len(rm')
           /\ \A g \in DOMAIN rm' : g \in Nat /\ rm'[g] \in Group /\ rm'[g].of \in Requests
                                    /\ rm'[g].name \in Seq(Nat)
           /\ irpJobs' \in Seq(Job) /\ Len(irpJobs') \in Nat /\ DOMAIN irpJobs' = 1..Len(irpJobs')
           /\ \A j \in DOMAIN irpJobs' : j \in Nat /\ irpJobs'[j] \in Job /\ irpJobs'[j].of \in Requests
                                         /\ irpJobs'[j].group \in Nat /\ irpJobs'[j].status \in JobStatus
           /\ log'.taken \in Nat /\ log'.doubt \in Nat
<1>1. rm' \in Seq(Group) /\ irpJobs' \in Seq(Job) /\ log'.taken \in Nat /\ log'.doubt \in Nat
  BY DEF Typed, Log
<1> QED
  BY <1>1, GroupsTyped, JobsTyped

-----------------------------------------------------------------------------
(* Steps of one thread *)

\* Only thread w moves, and it keeps its job.
Moves(w, at) ==
    /\ thread' \in [Threads -> Thread] /\ \A v \in Threads \ {w} : thread'[v] = thread[v]
    /\ thread'[w].head = thread[w].head /\ thread'[w].at = at
Keeps(w) == /\ thread'[w].name = thread[w].name /\ thread'[w].view = thread[w].view
            /\ thread'[w].got = thread[w].got

\* A thread that goes on keeps its job, and, unless the body is over, what it read.
LEMMA Goes ==
    ASSUME Typed, NEW w \in Threads, NEW at \in Places, Go(w, at)
    PROVE  Moves(w, at) /\ (at \notin Outcome \cup {"record failure"} => Keeps(w))
<1>. DEFINE t == IF at \in Outcome \cup {"record failure"}
                   THEN [Idle EXCEPT !.at = at, !.head = thread[w].head]
                   ELSE [thread[w] EXCEPT !.at = at]
<1>1. thread \in [Threads -> Thread]
  BY DEF Typed
<1>2. thread' = [thread EXCEPT ![w] = t]
  BY DEF Go
<1>3. CASE at \in Outcome \cup {"record failure"}
  <2>1. t = [Idle EXCEPT !.at = at, !.head = thread[w].head]
    BY <1>3
  <2>2. t \in Thread /\ t.at = at /\ t.head = thread[w].head
    BY <2>1, <1>1, IdleFacts DEF Thread, Idle
  <2>. HIDE DEF t
  <2> QED
    BY <1>1, <1>2, <1>3, <2>2 DEF Moves
<1>4. CASE at \notin Outcome \cup {"record failure"}
  <2>1. t = [thread[w] EXCEPT !.at = at]
    BY <1>4
  <2>2. /\ t \in Thread /\ t.at = at /\ t.head = thread[w].head
        /\ t.name = thread[w].name /\ t.view = thread[w].view /\ t.got = thread[w].got
    BY <2>1, <1>1 DEF Thread
  <2>. HIDE DEF t
  <2> QED
    BY <1>1, <1>2, <1>4, <2>2 DEF Moves, Keeps
<1> QED
  BY <1>3, <1>4

LEMMA Becomes ==
    ASSUME Typed, NEW w \in Threads, NEW t \in Thread, thread' = [thread EXCEPT ![w] = t],
           t.head = thread[w].head
    PROVE  Moves(w, t.at) /\ thread'[w] = t
<1>1. thread \in [Threads -> Thread]
  BY DEF Typed
<1> QED
  BY <1>1 DEF Moves

\* The request, or the job of Risk Modeler, that a thread works for.
LEMMA Working ==
    ASSUME Typed, Placed, Keyed, NEW w \in Threads, thread[w].at \in SubmitAt
    PROVE  \E q \in Requests : OnSubmit(w, q) /\ Body1(w) = q /\ About(thread[w].head) = q
<1>1. PICK q \in Requests : OnSubmit(w, q)
  BY DEF Placed, InBody
<1> QED
  BY <1>1, HeadFacts, Abouts DEF OnSubmit, Body1

\* The job of a thread that finalizes is finished, and its group stands in Risk
\* Modeler.
LEMMA Finalizing ==
    ASSUME Typed, Placed, Keyed, JobsKept, NEW w \in Threads, thread[w].at \in FinalizeAt
    PROVE  \E j \in DOMAIN irpJobs :
               /\ OnFinalize(w, j) /\ About(thread[w].head) = irpJobs[j].of
               /\ irpJobs[j].of \in Requests /\ irpJobs[j].status = "FINISHED"
               /\ irpJobs[j].group \in DOMAIN rm /\ rm[irpJobs[j].group].of = irpJobs[j].of
               /\ rm[irpJobs[j].group].state = "finished" /\ row[irpJobs[j].of].status # "none"
<1>1. PICK j \in DOMAIN irpJobs : OnFinalize(w, j)
  BY DEF Placed, InBody
<1>2. irpJobs \in Seq(Job) /\ thread \in [Threads -> Thread] /\ rm \in Seq(Group)
  BY DEF Typed
<1>3. j \in Nat /\ irpJobs[j] \in Job
  BY <1>2
<1>4. About(thread[w].head) = irpJobs[j].of /\ irpJobs[j].of \in Requests
  BY <1>1, <1>3, Abouts DEF OnFinalize, Job
<1>5. thread[w].head # None /\ thread[w].head \in Heads
  <2>1. thread[w].at # "idle" /\ InBody(w)
    BY DEF Placed, FinalizeAt
  <2>2. thread[w].head # None
    BY <2>1 DEF InBody
  <2> QED
    BY <1>2, <2>2 DEF Thread
<1>6. PICK i \in 1..MaxJobs : Finalize(j) = Finalize(i)
  BY <1>1, <1>3, <1>5, HeadFacts DEF OnFinalize
<1>7. i \in Nat
  BY ConstantFacts
<1>8. i = j
  BY <1>3, <1>6, <1>7, HeadFacts
<1>9. irpJobs[j].status = "FINISHED"
  BY <1>1, <1>5, <1>8 DEF Keyed, OnFinalize
<1>10. /\ irpJobs[j].group \in 0..Len(rm) /\ irpJobs[j].group # 0
       /\ rm[irpJobs[j].group].of = irpJobs[j].of /\ rm[irpJobs[j].group].state = "finished"
  BY <1>9 DEF JobsKept, JobKept
<1>11. row[irpJobs[j].of].status # "none"
  BY <1>4 DEF Keyed, Unserved
<1> QED
  BY <1>1, <1>2, <1>4, <1>9, <1>10, <1>11

-----------------------------------------------------------------------------
(* What a step leaves as it is *)

\* The groups of Risk Modeler, the jobs and the rows are never taken back.
GroupsGrow ==
    /\ Len(rm) <= Len(rm')
    /\ \A g \in 1..Len(rm) : /\ rm'[g].of = rm[g].of /\ rm'[g].name = rm[g].name
                             /\ rm'[g].body = rm[g].body
                             /\ rm[g].state = "finished" => rm'[g].state = "finished"
JobsGrow ==
    /\ DOMAIN irpJobs \subseteq DOMAIN irpJobs'
    /\ \A j \in DOMAIN irpJobs : irpJobs'[j].of = irpJobs[j].of /\ irpJobs'[j].group = irpJobs[j].group
RowsStay == \A q \in Requests : row[q].status # "none" => row'[q].status # "none"

LEMMA Unchanging ==
    ASSUME Typed
    PROVE  /\ rm' = rm => GroupsGrow
           /\ irpJobs' = irpJobs => JobsGrow
           /\ row' = row => RowsStay
BY DEF GroupsGrow, JobsGrow, RowsStay

\* One lemma for each part of the invariant: what a step must show to keep it.
LEMMA PlacedKeeps ==
    ASSUME Placed, JobsGrow, \A v \in Threads : thread'[v] = thread[v] \/ InBody(v)'
    PROVE  Placed'
BY DEF Placed, InBody, JobsGrow, OnSubmit, OnFinalize

LEMMA BodyPlaced ==
    ASSUME Placed, JobsGrow, NEW w \in Threads, NEW at \in Places \ {"idle"}, Moves(w, at),
           thread[w].at # "idle",
           at \in SubmitAt => thread[w].at \in SubmitAt,
           at \in FinalizeAt => thread[w].at \in FinalizeAt
    PROVE  Placed'
<1>1. InBody(w)
  BY DEF Placed
<1>2. InBody(w)'
  BY <1>1 DEF InBody, Moves, OnSubmit, OnFinalize, JobsGrow
<1> QED
  BY <1>2, PlacedKeeps DEF Moves

\* The steps of a body leave the work queue and the dialogs alone.
LEMMA BodyKeyed ==
    ASSUME Keyed, JobsGrow, heads' = heads, request' = request,
           \A v \in Threads : thread'[v].head = thread[v].head,
           \A j \in DOMAIN irpJobs : irpJobs[j].status = "FINISHED" => irpJobs'[j].status = "FINISHED",
           \A q \in Requests : /\ row'[q].pointer \in 0..Len(rm')
                               /\ ~ Unserved(q)' => row'[q].status # "none"
                               /\ row'[q].status # "none" => heads[Submit(q)] # "absent"
    PROVE  Keyed'
<1>1. \A q \in Requests : heads'[Submit(q)] # "absent" => request'[q].at = "posted"
  BY DEF Keyed
<1>2. \A j \in 1..MaxJobs : heads'[Finalize(j)] # "absent" =>
          j \in DOMAIN irpJobs' /\ irpJobs'[j].status = "FINISHED"
  BY DEF Keyed, JobsGrow
<1>3. \A w \in Threads : thread'[w].head # None => heads'[thread'[w].head] # "absent"
  BY DEF Keyed
<1> QED
  BY <1>1, <1>2, <1>3 DEF Keyed

\* The steps of the work queue leave the rest alone.
LEMMA QueueKeyed ==
    ASSUME Typed, Keyed, UNCHANGED <<rm, row, irpJobs, request>>,
           \A h \in Heads : heads'[h] = "absent" <=> heads[h] = "absent",
           \A v \in Threads : /\ thread'[v].head \in Heads \cup {None}
                              /\ thread'[v].head = thread[v].head \/ thread'[v].head = None
                                     \/ heads'[thread'[v].head] # "absent"
    PROVE  Keyed'
<1>1. \A q \in Requests : heads'[Submit(q)] # "absent" => request'[q].at = "posted"
  BY HeadFacts DEF Keyed
<1>2. \A j \in 1..MaxJobs : heads'[Finalize(j)] # "absent" =>
          j \in DOMAIN irpJobs' /\ irpJobs'[j].status = "FINISHED"
  BY HeadFacts DEF Keyed
<1>3. \A w \in Threads : thread'[w].head # None => heads'[thread'[w].head] # "absent"
  BY DEF Keyed
<1>4. \A q \in Requests : /\ row'[q].pointer \in 0..Len(rm')
                          /\ ~ Unserved(q)' => row'[q].status # "none"
                          /\ row'[q].status # "none" => heads'[Submit(q)] # "absent"
  BY HeadFacts DEF Keyed, Unserved
<1> QED
  BY <1>1, <1>2, <1>3, <1>4 DEF Keyed

LEMMA JobsKeptKeeps ==
    ASSUME Typed, Typed', JobsKept, GroupsGrow, JobsGrow,
           \A j \in DOMAIN irpJobs' : \/ j \in DOMAIN irpJobs /\ irpJobs'[j].status = irpJobs[j].status
                                      \/ JobKept(j)'
    PROVE  JobsKept'
<1> SUFFICES ASSUME NEW j \in DOMAIN irpJobs' PROVE JobKept(j)'
  BY DEF JobsKept
<1>1. CASE j \in DOMAIN irpJobs /\ irpJobs'[j].status = irpJobs[j].status
  <2>1. JobKept(j) /\ irpJobs'[j].of = irpJobs[j].of /\ irpJobs'[j].group = irpJobs[j].group
    BY <1>1 DEF JobsKept, JobsGrow
  <2>0. rm \in Seq(Group) /\ rm' \in Seq(Group)
    BY DEF Typed
  <2>. DEFINE g == irpJobs[j].group
  <2>3. Len(rm) \in Nat /\ Len(rm') \in Nat
    BY <2>0
  <2>4. Len(rm) <= Len(rm') /\ g \in 0..Len(rm)
    BY <2>1 DEF JobKept, GroupsGrow
  <2>. HIDE DEF g
  <2>5. (g # 0 => g \in 1..Len(rm)) /\ g \in 0..Len(rm')
    BY <2>3, <2>4
  <2>2. irpJobs[j].group # 0 => irpJobs[j].group \in 1..Len(rm)
    BY <2>5 DEF g
  <2>6. irpJobs[j].group \in 0..Len(rm')
    BY <2>5 DEF g
  <2> QED
    BY <1>1, <2>1, <2>2, <2>6 DEF JobKept, GroupsGrow
<1> QED
  BY <1>1

LEMMA SubmittingKeeps ==
    ASSUME Typed, AllSubmitting, GroupsGrow, JobsGrow, RowsStay,
           \A v \in Threads : \/ thread'[v] = thread[v]
                              \/ \A q \in Requests : OnSubmit(v, q)' => Submitting(v, q)'
    PROVE  AllSubmitting'
<1> SUFFICES ASSUME NEW v \in Threads, NEW q \in Requests, OnSubmit(v, q)', thread'[v] = thread[v]
             PROVE  Submitting(v, q)'
  BY DEF AllSubmitting
<1>1. Submitting(v, q)
  BY DEF AllSubmitting, OnSubmit
<1>2. ~ Unserved(q) => ~ Unserved(q)'
  BY DEF Unserved, JobsGrow
<1>3. thread[v].at \in NamedAt \cup {"record failure", "mark"} => row'[q].status # "none"
  BY <1>1 DEF Submitting, RowsStay
<1>4. thread[v].at = "record" => thread[v].got \in 1..Len(rm') /\ rm'[thread[v].got].of = q
  <2>1. ASSUME thread[v].at = "record"
        PROVE  thread[v].got \in 1..Len(rm') /\ rm'[thread[v].got].of = q
    <3>1. thread[v].got \in 1..Len(rm) /\ rm[thread[v].got].of = q
      BY <1>1, <2>1 DEF Submitting
    <3> QED
      BY <3>1 DEF GroupsGrow, Typed
  <2> QED
    BY <2>1
<1> QED
  BY <1>1, <1>2, <1>3, <1>4 DEF Submitting

-----------------------------------------------------------------------------
(* Counting *)

\* An element more, an element less, no element more: what becomes of a count.
LEMMA OneMore ==
    ASSUME NEW S, NEW T, NEW x, IsFiniteSet(S), x \notin S, T = S \cup {x}
    PROVE  Cardinality(T) = Cardinality(S) + 1
BY FS_AddElement

LEMMA OneLess ==
    ASSUME NEW S, NEW T, NEW x, IsFiniteSet(S), x \in S, T \subseteq S \ {x}
    PROVE  Cardinality(T) + 1 <= Cardinality(S)
<1>1. IsFiniteSet(S \ {x}) /\ Cardinality(S \ {x}) = Cardinality(S) - 1
  BY FS_RemoveElement
<1>2. IsFiniteSet(T) /\ Cardinality(T) <= Cardinality(S \ {x})
  BY <1>1, FS_Subset
<1>3. Cardinality(S) \in Nat /\ Cardinality(T) \in Nat /\ Cardinality(S \ {x}) \in Nat
  BY <1>1, <1>2, FS_CardinalityType
<1> QED
  BY <1>1, <1>2, <1>3

LEMMA NoMore ==
    ASSUME NEW S, NEW T, IsFiniteSet(S), T \subseteq S
    PROVE  Cardinality(T) <= Cardinality(S)
BY FS_Subset

LEMMA AtMostOneMore ==
    ASSUME NEW S, NEW T, NEW x, IsFiniteSet(S), T \subseteq S \cup {x}
    PROVE  Cardinality(T) <= Cardinality(S) + 1
<1>0. Cardinality(S) \in Nat
  BY FS_CardinalityType
<1>1. IsFiniteSet(S \cup {x}) /\ Cardinality(S \cup {x}) <= Cardinality(S) + 1
  BY <1>0, FS_AddElement
<1>2. Cardinality(T) <= Cardinality(S \cup {x}) /\ IsFiniteSet(T)
  BY <1>1, FS_Subset
<1>3. Cardinality(S) \in Nat /\ Cardinality(T) \in Nat /\ Cardinality(S \cup {x}) \in Nat
  BY <1>1, <1>2, FS_CardinalityType
<1> QED
  BY <1>1, <1>2, <1>3

\* Some positions of a sequence, some threads, some requests are finitely many.
LEMMA SequenceSize ==
    ASSUME NEW S, NEW s \in Seq(S), NEW T, T \subseteq DOMAIN s
    PROVE  IsFiniteSet(T) /\ Cardinality(T) \in Nat /\ Cardinality(DOMAIN s) = Len(s)
<1>1. DOMAIN s = 1..Len(s) /\ Len(s) \in Nat
  OBVIOUS
<1>2. IsFiniteSet(1..Len(s)) /\ Cardinality(1..Len(s)) = Len(s)
  <2>1. 1 \in Int /\ Len(s) \in Int
    BY <1>1
  <2>2. IsFiniteSet(1..Len(s)) /\ Cardinality(1..Len(s)) = IF 1 > Len(s) THEN 0 ELSE Len(s) - 1 + 1
    BY <2>1, FS_Interval
  <2> QED
    BY <1>1, <2>2
<1>3. IsFiniteSet(T)
  BY <1>1, <1>2, FS_Subset
<1> QED
  BY <1>1, <1>2, <1>3, FS_CardinalityType

LEMMA ThreadsSize ==
    ASSUME NEW T, T \subseteq Threads
    PROVE  IsFiniteSet(T) /\ Cardinality(T) \in Nat
BY ConstantFacts, FS_Subset, FS_CardinalityType

LEMMA RequestsSize ==
    ASSUME NEW T, T \subseteq Requests
    PROVE  IsFiniteSet(T) /\ Cardinality(T) \in Nat /\ Cardinality(T) <= Cardinality(Requests)
BY ConstantFacts, FS_Subset, FS_CardinalityType

\* The counts of the two budgets are numbers, before a step and after it.
LEMMA Sizes ==
    ASSUME Typed, NEW Q \in SUBSET Requests
    PROVE  /\ IsFiniteSet(JobsOf(Q)) /\ IsFiniteSet(StaffOf(Q))
           /\ IsFiniteSet(ServedOf(Q)) /\ IsFiniteSet(LooseOf(Q))
           /\ Cardinality(JobsOf(Q)) \in Nat /\ Cardinality(StaffOf(Q)) \in Nat
           /\ Cardinality(ServedOf(Q)) \in Nat /\ Cardinality(LooseOf(Q)) \in Nat
           /\ log.taken \in Nat
<1>1. irpJobs \in Seq(Job) /\ JobsOf(Q) \subseteq DOMAIN irpJobs /\ log.taken \in Nat
  BY DEF Typed, Log, JobsOf
<1>2. StaffOf(Q) \subseteq Threads /\ ServedOf(Q) \subseteq Requests /\ LooseOf(Q) \subseteq Requests
  BY DEF StaffOf, ServedOf, LooseOf
<1> QED
  BY <1>1, <1>2, SequenceSize, ThreadsSize, RequestsSize

LEMMA NextSizes ==
    ASSUME Typed', NEW Q \in SUBSET Requests
    PROVE  /\ Cardinality(JobsOf(Q)') \in Nat /\ Cardinality(StaffOf(Q)') \in Nat
           /\ Cardinality(ServedOf(Q)') \in Nat /\ Cardinality(LooseOf(Q)') \in Nat
           /\ IsFiniteSet(ServedOf(Q)') /\ log'.taken \in Nat
<1>1. irpJobs' \in Seq(Job) /\ JobsOf(Q)' \subseteq DOMAIN irpJobs' /\ log'.taken \in Nat
  BY DEF Typed, Log, JobsOf
<1>2. StaffOf(Q)' \subseteq Threads /\ ServedOf(Q)' \subseteq Requests /\ LooseOf(Q)' \subseteq Requests
  BY DEF StaffOf, ServedOf, LooseOf
<1> QED
  BY <1>1, <1>2, SequenceSize, ThreadsSize, RequestsSize

\* What the count of jobs sees of one set of requests.
JobTotal(Q) == /\ Cardinality(JobsOf(Q)) + Cardinality(StaffOf(Q)) + Cardinality(LooseOf(Q))
                      <= Cardinality(ServedOf(Q)) + log.taken

\* Fewer jobs, writers and loose requests, and no request served less.
LEMMA TotalKeeps ==
    ASSUME Typed, Typed', JobBudget, NEW Q \in SUBSET Requests, log'.taken >= log.taken,
           JobsOf(Q)' \subseteq JobsOf(Q), StaffOf(Q)' \subseteq StaffOf(Q),
           LooseOf(Q)' \subseteq LooseOf(Q), ServedOf(Q) \subseteq ServedOf(Q)'
    PROVE  JobTotal(Q)'
<1>1. JobTotal(Q)
  BY DEF JobBudget, JobTotal
<1>2. /\ Cardinality(JobsOf(Q)') <= Cardinality(JobsOf(Q))
      /\ Cardinality(StaffOf(Q)') <= Cardinality(StaffOf(Q))
      /\ Cardinality(LooseOf(Q)') <= Cardinality(LooseOf(Q))
      /\ Cardinality(ServedOf(Q)) <= Cardinality(ServedOf(Q)')
  BY Sizes, NextSizes, NoMore
<1> QED
  BY <1>1, <1>2, Sizes, NextSizes DEF JobTotal

\* No job more, no thread more that may record one, no thread gone.
LEMMA JobBudgetKeeps ==
    ASSUME Typed, Typed', JobBudget, log'.taken >= log.taken,
           DOMAIN irpJobs' = DOMAIN irpJobs, \A j \in DOMAIN irpJobs : irpJobs'[j].of = irpJobs[j].of,
           \A q \in Requests : heads[Submit(q)] = "running" => heads'[Submit(q)] = "running",
           \A v \in Threads, q \in Requests :
               /\ OnSubmit(v, q)' <=> OnSubmit(v, q)
               /\ OnSubmit(v, q) /\ thread'[v].at \in WriterAt => thread[v].at \in WriterAt \/ Unserved(q)
    PROVE  JobBudget'
<1> SUFFICES ASSUME NEW Q \in SUBSET Requests PROVE JobTotal(Q)'
  BY DEF JobBudget, JobTotal
<1>1. \A q \in Requests : (Unserved(q)' <=> Unserved(q)) /\ (Attended(q)' <=> Attended(q))
  BY DEF Unserved, Attended
<1>2. JobsOf(Q)' \subseteq JobsOf(Q)
  BY DEF JobsOf
<1>3. StaffOf(Q)' \subseteq StaffOf(Q)
  BY <1>1 DEF StaffOf
<1>4. LooseOf(Q)' \subseteq LooseOf(Q) /\ ServedOf(Q) \subseteq ServedOf(Q)'
  BY <1>1 DEF LooseOf, ServedOf
<1> QED
  BY <1>2, <1>3, <1>4, TotalKeeps

LEMMA GroupSizes ==
    ASSUME Typed, NEW q \in Requests
    PROVE  /\ IsFiniteSet(GroupsOf(q)) /\ IsFiniteSet(RecordedOf(q)) /\ IsFiniteSet(RecordingOf(q))
           /\ Cardinality(GroupsOf(q)) \in Nat /\ Cardinality(RecordedOf(q)) \in Nat
           /\ Cardinality(RecordingOf(q)) \in Nat /\ log.doubt \in Nat
<1>1. /\ rm \in Seq(Group) /\ GroupsOf(q) \subseteq DOMAIN rm
      /\ irpJobs \in Seq(Job) /\ RecordedOf(q) \subseteq DOMAIN irpJobs /\ log.doubt \in Nat
  BY DEF Typed, Log, GroupsOf, RecordedOf
<1>2. RecordingOf(q) \subseteq Threads
  BY DEF RecordingOf
<1>3. IsFiniteSet(GroupsOf(q)) /\ Cardinality(GroupsOf(q)) \in Nat
  BY <1>1, SequenceSize
<1> QED
  BY <1>1, <1>2, <1>3, SequenceSize, ThreadsSize

LEMMA NextGroupSizes ==
    ASSUME Typed', NEW q \in Requests
    PROVE  /\ IsFiniteSet(GroupsOf(q)') /\ IsFiniteSet(RecordedOf(q)') /\ IsFiniteSet(RecordingOf(q)')
           /\ Cardinality(GroupsOf(q)') \in Nat /\ Cardinality(RecordedOf(q)') \in Nat
           /\ Cardinality(RecordingOf(q)') \in Nat /\ log'.doubt \in Nat
<1>1. /\ rm' \in Seq(Group) /\ GroupsOf(q)' \subseteq DOMAIN rm'
      /\ irpJobs' \in Seq(Job) /\ RecordedOf(q)' \subseteq DOMAIN irpJobs' /\ log'.doubt \in Nat
  BY DEF Typed, Log, GroupsOf, RecordedOf
<1>2. RecordingOf(q)' \subseteq Threads
  BY DEF RecordingOf
<1>3. IsFiniteSet(GroupsOf(q)') /\ Cardinality(GroupsOf(q)') \in Nat
  BY <1>1, SequenceSize
<1> QED
  BY <1>1, <1>2, <1>3, SequenceSize, ThreadsSize

\* There is a finalize job for every job in Risk Modeler.
LEMMA JobLimit ==
    ASSUME Typed, JobBudget
    PROVE  /\ Len(irpJobs) <= MaxJobs
           /\ \A j \in DOMAIN irpJobs : j \in 1..MaxJobs /\ Finalize(j) \in Heads
<1>1. /\ irpJobs \in Seq(Job) /\ Len(irpJobs) \in Nat /\ DOMAIN irpJobs = 1..Len(irpJobs)
      /\ \A j \in DOMAIN irpJobs : irpJobs[j].of \in Requests
  BY Types
<1>2. JobsOf(Requests) = DOMAIN irpJobs
  BY <1>1 DEF JobsOf
<1>3. Cardinality(JobsOf(Requests)) = Len(irpJobs)
  BY <1>1, <1>2, SequenceSize
<1>4. Cardinality(ServedOf(Requests)) <= Cardinality(Requests)
  BY RequestsSize DEF ServedOf
<1>5. Cardinality(JobsOf(Requests)) + Cardinality(StaffOf(Requests)) + Cardinality(LooseOf(Requests))
          <= Cardinality(ServedOf(Requests)) + log.taken
  BY DEF JobBudget
<1>6. log.taken <= spent.faults /\ spent.faults <= MaxFaults /\ spent.faults \in Nat
  BY DEF Typed, Budget
<1>7. /\ Cardinality(JobsOf(Requests)) \in Nat /\ Cardinality(StaffOf(Requests)) \in Nat
      /\ Cardinality(ServedOf(Requests)) \in Nat /\ Cardinality(LooseOf(Requests)) \in Nat
      /\ log.taken \in Nat
  BY Sizes
<1>8. Cardinality(Requests) \in Nat /\ MaxJobs = Cardinality(Requests) + MaxFaults /\ MaxFaults \in Nat
  BY ConstantFacts
<1>9. Len(irpJobs) <= MaxJobs
  BY <1>1, <1>3, <1>4, <1>5, <1>6, <1>7, <1>8
<1>10. \A j \in DOMAIN irpJobs : j \in 1..MaxJobs
  BY <1>1, <1>8, <1>9
<1> QED
  BY <1>9, <1>10, HeadFacts

LEMMA GroupBudgetKeeps ==
    ASSUME Typed, Typed', GroupBudget, log'.doubt >= log.doubt,
           DOMAIN rm' = DOMAIN rm, \A g \in DOMAIN rm : rm'[g].of = rm[g].of, JobsGrow,
           \A v \in Threads, q \in Requests :
               OnSubmit(v, q) /\ thread[v].at = "record" => OnSubmit(v, q)' /\ thread'[v].at = "record"
    PROVE  GroupBudget'
<1> SUFFICES ASSUME NEW q \in Requests
             PROVE  Cardinality(GroupsOf(q)') <= Cardinality(RecordedOf(q)') + Cardinality(RecordingOf(q)')
                                                     + log'.doubt
  BY DEF GroupBudget
<1>1. GroupsOf(q)' = GroupsOf(q)
  BY DEF GroupsOf
<1>2. RecordedOf(q) \subseteq RecordedOf(q)' /\ RecordingOf(q) \subseteq RecordingOf(q)'
  BY DEF RecordedOf, RecordingOf, JobsGrow
<1>3. /\ Cardinality(RecordedOf(q)) <= Cardinality(RecordedOf(q)')
      /\ Cardinality(RecordingOf(q)) <= Cardinality(RecordingOf(q)')
  BY <1>2, GroupSizes, NextGroupSizes, NoMore
<1>4. Cardinality(GroupsOf(q)) <= Cardinality(RecordedOf(q)) + Cardinality(RecordingOf(q)) + log.doubt
  BY DEF GroupBudget
<1> QED
  BY <1>1, <1>3, <1>4, GroupSizes, NextGroupSizes

\* What a step shows of the rows whose name it changes, of the threads that it
\* moves, and of the jobs and rows that it writes.
LEMMA NamesKeeps ==
    ASSUME Typed, Typed', Placed, JobsKept, AllSubmitting, NamesKept, Keyed,
           log'.taken = 0 => log.taken = 0, GroupsGrow, JobsGrow,
           \A q \in Requests :
               \/ row'[q].name = row[q].name
               \/ log'.taken = 0 =>
                     /\ Unserved(q)'
                     /\ \A v \in Threads : OnSubmit(v, q) /\ thread[v].at \in NamedAt => thread'[v] # thread[v],
           \A v \in Threads :
               \/ thread'[v] = thread[v]
               \/ log'.taken = 0 =>
                     /\ \A q \in Requests : OnSubmit(v, q)' => NameKnown(v, q)'
                     /\ \A j \in DOMAIN irpJobs' : OnFinalize(v, j)' => NameRead(v, j)',
           \A j \in DOMAIN irpJobs' : j \in DOMAIN irpJobs \/ (log'.taken = 0 => JobNamed(j)'),
           \A q \in Requests : \/ row'[q].status = row[q].status /\ row'[q].pointer = row[q].pointer
                               \/ log'.taken = 0 => Pointed(q)',
           \A q \in Requests : row[q].pointer # 0 => row'[q].pointer # 0 \/ Unserved(q)'
    PROVE  NamesKept'
<1> SUFFICES ASSUME log'.taken = 0
             PROVE  /\ \A w \in Threads, q \in Requests : OnSubmit(w, q)' => NameKnown(w, q)'
                    /\ \A j \in DOMAIN irpJobs' : JobNamed(j)'
                    /\ \A w \in Threads, j \in DOMAIN irpJobs' : OnFinalize(w, j)' => NameRead(w, j)'
                    /\ \A q \in Requests : Pointed(q)'
  BY DEF NamesKept
<1>0. /\ \A w \in Threads, q \in Requests : OnSubmit(w, q) => NameKnown(w, q)
      /\ \A j \in DOMAIN irpJobs : JobNamed(j)
      /\ \A w \in Threads, j \in DOMAIN irpJobs : OnFinalize(w, j) => NameRead(w, j)
      /\ \A q \in Requests : Pointed(q)
  BY DEF NamesKept
<1>. /\ rm \in Seq(Group) /\ irpJobs \in Seq(Job) /\ irpJobs' \in Seq(Job)
     /\ \A j \in DOMAIN irpJobs : irpJobs[j].of \in Requests
  BY Types, NextTypes
<1>1. ASSUME NEW w \in Threads, NEW q \in Requests, OnSubmit(w, q)', thread'[w] = thread[w]
      PROVE  NameKnown(w, q)'
  <2>1. OnSubmit(w, q) /\ NameKnown(w, q) /\ Submitting(w, q)
    BY <1>0, <1>1 DEF OnSubmit, AllSubmitting
  <2>2. thread[w].at \in NamedAt => row'[q].name = row[q].name
    BY <1>1, <2>1
  <2>3. thread[w].at = "record" => thread[w].got \in 1..Len(rm) /\ thread[w].at \in NamedAt
    BY <2>1 DEF Submitting, NamedAt
  <2>4. thread[w].at = "record" => rm'[thread[w].got].name = rm[thread[w].got].name
    BY <2>3 DEF GroupsGrow
  <2> QED
    BY <1>1, <2>1, <2>2, <2>3, <2>4 DEF NameKnown
<1>2. ASSUME NEW j \in DOMAIN irpJobs
      PROVE  /\ irpJobs'[j].of = irpJobs[j].of /\ irpJobs'[j].group = irpJobs[j].group
             /\ row'[irpJobs[j].of].name = row[irpJobs[j].of].name
             /\ row[irpJobs[j].of].pointer # 0 => row'[irpJobs[j].of].pointer # 0
  <2>1. ~ Unserved(irpJobs[j].of)'
    BY DEF Unserved, JobsGrow
  <2> QED
    BY <2>1 DEF JobsGrow
<1>3. ASSUME NEW j \in DOMAIN irpJobs PROVE JobNamed(j)'
  <2>1. JobNamed(j) /\ irpJobs[j].group \in 0..Len(rm)
    BY <1>0 DEF JobsKept, JobKept
  <2>2. irpJobs[j].group # 0 => irpJobs[j].group \in 1..Len(rm)
    BY <2>1
  <2>3. irpJobs[j].group # 0 => rm'[irpJobs[j].group].name = rm[irpJobs[j].group].name
    BY <2>2 DEF GroupsGrow
  <2> QED
    BY <1>2, <2>1, <2>3 DEF JobNamed
<1>4. ASSUME NEW w \in Threads, NEW j \in DOMAIN irpJobs', OnFinalize(w, j)', thread'[w] = thread[w]
      PROVE  NameRead(w, j)'
  <2>1. SUFFICES ASSUME thread[w].at \in FinalizeAt PROVE NameRead(w, j)'
    BY <1>4 DEF NameRead, FinalizeAt
  <2>2. PICK i \in DOMAIN irpJobs : OnFinalize(w, i)
    BY <2>1 DEF Placed, InBody
  <2>3. i = j
    BY <1>4, <2>2, HeadFacts DEF OnFinalize
  <2>4. NameRead(w, j) /\ j \in DOMAIN irpJobs
    BY <1>0, <2>2, <2>3
  <2> QED
    BY <1>2, <1>4, <2>4 DEF NameRead
<1>5. ASSUME NEW q \in Requests, row'[q].status = row[q].status /\ row'[q].pointer = row[q].pointer
      PROVE  Pointed(q)'
  <2>1. Pointed(q) /\ row[q].pointer \in 0..Len(rm)
    BY <1>0 DEF Keyed
  <2>2. row[q].pointer # 0 => row[q].pointer \in 1..Len(rm)
    BY <2>1
  <2> QED
    BY <1>5, <2>1, <2>2 DEF Pointed, GroupsGrow
<1> QED
  BY <1>1, <1>3, <1>4, <1>5

\* What a step shows of the rows and jobs that it writes, of the jobs of the queue
\* that end by it and of the threads that it moves.
LEMMA SettlingKeeps ==
    ASSUME Typed, Settling, JobsGrow,
           log.unmarked \subseteq log'.unmarked,
           \A q \in Requests :
               /\ row'[q].status = "pending" => row[q].status = "pending" \/ Unserved(q)'
               /\ heads'[Submit(q)] \in Ended => heads[Submit(q)] \in Ended \/ HeadEnds(q)',
           \A v \in Threads :
               \/ thread'[v] = thread[v]
               \/ /\ \A q \in Requests : RunEnds(v, q)'
                  /\ \A j \in DOMAIN irpJobs' : FinalizeEnds(v, j)',
           \A j \in DOMAIN irpJobs' : \/ j \in DOMAIN irpJobs /\ (Handled(j) => Handled(j)')
                                      \/ JobSettles(j)',
           \A v \in Threads, j \in DOMAIN irpJobs' :
               OnFinalize(v, j) /\ thread[v].at \in Ended => j \in DOMAIN irpJobs
    PROVE  Settling'
<1>. \A j \in DOMAIN irpJobs : irpJobs[j].of \in Requests
  BY Types
<1>3. \A q \in Requests : Unserved(q)' => Unserved(q)
  BY DEF Unserved, JobsGrow
<1>4. \A q \in Requests : HeadEnds(q)'
  BY <1>3 DEF Settling, HeadEnds
<1>5. \A v \in Threads, q \in Requests : thread'[v] = thread[v] => RunEnds(v, q)'
  BY <1>3 DEF Settling, RunEnds, OnSubmit
<1>6. ASSUME NEW j \in DOMAIN irpJobs
      PROVE  /\ irpJobs'[j].of = irpJobs[j].of
             /\ row'[irpJobs[j].of].status = "pending" => row[irpJobs[j].of].status = "pending"
  BY DEF JobsGrow, Unserved
<1>7. ASSUME NEW j \in DOMAIN irpJobs', j \in DOMAIN irpJobs, Handled(j) => Handled(j)'
      PROVE  JobSettles(j)'
  <2>1. JobSettles(j)
    BY <1>7 DEF Settling
  <2> QED
    BY <1>6, <1>7, <2>1 DEF JobSettles
<1>8. ASSUME NEW v \in Threads, NEW j \in DOMAIN irpJobs', thread'[v] = thread[v]
      PROVE  FinalizeEnds(v, j)'
  <2>1. SUFFICES ASSUME OnFinalize(v, j), thread[v].at \in Ended
                 PROVE  row'[irpJobs'[j].of].status # "pending"
    BY <1>8 DEF FinalizeEnds, OnFinalize
  <2>2. j \in DOMAIN irpJobs /\ row[irpJobs[j].of].status # "pending"
    BY <2>1 DEF Settling, FinalizeEnds
  <2> QED
    BY <1>6, <2>2
<1> QED
  BY <1>4, <1>5, <1>7, <1>8 DEF Settling

\* What has been posted stays posted.
LEMMA SeenKeeps ==
    ASSUME Typed, Placed, Keyed, SeenKept, GroupsGrow, DOMAIN rm = 1..Len(rm),
           \A q \in Requests : request[q].at = "posted" => request'[q] = request[q],
           \A v \in Threads : thread'[v] = thread[v] \/ \A q \in Requests : ViewFair(v, q)',
           \A g \in DOMAIN rm' : g \in DOMAIN rm \/ GroupFair(g)'
    PROVE  SeenKept'
<1>1. ASSUME NEW v \in Threads, NEW q \in Requests, thread'[v] = thread[v] PROVE ViewFair(v, q)'
  <2>1. SUFFICES ASSUME OnSubmit(v, q), thread[v].at = "post" PROVE Fair(q, thread[v].view)'
    BY <1>1 DEF ViewFair, OnSubmit
  <2>2. Submit(q) \in Heads /\ None \notin Heads
    BY HeadFacts
  <2>3. heads[Submit(q)] # "absent"
    BY <2>1, <2>2 DEF Keyed, OnSubmit
  <2>4. request'[q] = request[q]
    BY <2>3 DEF Keyed
  <2>5. Fair(q, thread[v].view)
    BY <2>1 DEF SeenKept, ViewFair
  <2> QED
    BY <1>1, <2>4, <2>5 DEF Fair
<1>2. ASSUME NEW g \in DOMAIN rm PROVE GroupFair(g)'
  <2>1. GroupFair(g) /\ rm'[g].of = rm[g].of /\ rm'[g].body = rm[g].body
    BY DEF SeenKept, GroupsGrow
  <2>2. rm[g].of \in Requests
    BY Types
  <2>3. request'[rm[g].of] = request[rm[g].of]
    BY <2>1, <2>2 DEF GroupFair
  <2> QED
    BY <2>1, <2>3 DEF GroupFair, Fair
<1> QED
  BY <1>1, <1>2 DEF SeenKept

-----------------------------------------------------------------------------
(* The body of a submission *)

\* A set with an element has one, and with a second element two.
LEMMA AtLeast ==
    ASSUME NEW S, IsFiniteSet(S), NEW x \in S
    PROVE  Cardinality(S) >= 1 /\ \A y \in S : y # x => Cardinality(S) >= 2
<1>1. Cardinality(S) \in Nat /\ Cardinality({x}) = 1 /\ IsFiniteSet({x})
  BY FS_CardinalityType, FS_Singleton
<1>2. {x} \subseteq S
  OBVIOUS
<1>3. Cardinality(S) >= 1
  BY <1>1, <1>2, NoMore
<1>4. ASSUME NEW y \in S, y # x PROVE Cardinality(S) >= 2
  <2>1. Cardinality({x} \cup {y}) = 2
    BY <1>1, <1>4, OneMore
  <2> QED
    BY <1>1, <2>1, NoMore
<1> QED
  BY <1>3, <1>4

\* While no job was taken from a live thread, the thread that may record a job
\* has the request to itself.
LEMMA Alone ==
    ASSUME Typed, JobBudget, log.taken = 0, NEW q \in Requests, NEW w \in Threads,
           OnSubmit(w, q), Unserved(q) \/ thread[w].at \in WriterAt
    PROVE  /\ Unserved(q) /\ heads[Submit(q)] = "running"
           /\ \A v \in Threads : OnSubmit(v, q) => v = w
<1>. DEFINE Q == {q}
<1>0. Q \in SUBSET Requests
  OBVIOUS
<1>1. Cardinality(JobsOf(Q)) + Cardinality(StaffOf(Q)) + Cardinality(LooseOf(Q)) <= 1
  <2>1. Cardinality(ServedOf(Q)) <= 1
    <3>1. Cardinality({q}) = 1 /\ IsFiniteSet({q})
      BY FS_Singleton
    <3>2. ServedOf(Q) \subseteq {q}
      BY DEF ServedOf
    <3> QED
      BY <3>1, <3>2, NoMore
  <2>2. Cardinality(JobsOf(Q)) + Cardinality(StaffOf(Q)) + Cardinality(LooseOf(Q))
            <= Cardinality(ServedOf(Q)) + 0
    BY <1>0 DEF JobBudget
  <2>. HIDE DEF Q
  <2> QED
    BY <1>0, <2>1, <2>2, Sizes
<1>2. w \in StaffOf(Q)
  BY DEF StaffOf
<1>. HIDE DEF Q
<1>3. /\ Cardinality(JobsOf(Q)) \in Nat /\ Cardinality(StaffOf(Q)) \in Nat
      /\ Cardinality(LooseOf(Q)) \in Nat /\ IsFiniteSet(JobsOf(Q)) /\ IsFiniteSet(StaffOf(Q))
      /\ IsFiniteSet(LooseOf(Q))
  BY <1>0, Sizes
<1>4. Cardinality(StaffOf(Q)) >= 1
  BY <1>2, <1>3, AtLeast
<1>5. Cardinality(JobsOf(Q)) = 0 /\ Cardinality(LooseOf(Q)) = 0 /\ Cardinality(StaffOf(Q)) = 1
  BY <1>1, <1>3, <1>4
<1>6. \A v \in StaffOf(Q) : v = w
  BY <1>2, <1>3, <1>5, AtLeast
<1>7. JobsOf(Q) = {} /\ LooseOf(Q) = {}
  BY <1>3, <1>5, AtLeast
<1>8. Unserved(q)
  BY <1>7 DEF JobsOf, Unserved, Q
<1>9. heads[Submit(q)] = "running"
  BY <1>7, <1>8 DEF LooseOf, Attended, Q
<1>10. \A v \in Threads : OnSubmit(v, q) => v \in StaffOf(Q)
  BY <1>8 DEF StaffOf, Q
<1> QED
  BY <1>6, <1>8, <1>9, <1>10

\* What every step of the body keeps that records neither a group nor a job.
LEMMA SubmitKeeps ==
    ASSUME Inductive, Typed', NEW w \in Threads, NEW q \in Requests, OnSubmit(w, q),
           NEW at \in SubmitAt \cup Ended \cup {"raised"}, Moves(w, at),
           thread[w].at \in SubmitAt \ {"record"}, at # "record",
           UNCHANGED <<rm, irpJobs, heads, request>>, log'.taken = log.taken, log'.doubt = log.doubt,
           at \in WriterAt => thread[w].at \in WriterAt \/ Unserved(q),
           Submitting(w, q)', ViewFair(w, q)', row'[q].pointer \in 0..Len(rm),
           \A p \in Requests \ {q} : row'[p] = row[p],
           row[q].status # "none" => row'[q].status # "none"
    PROVE  /\ Placed' /\ Keyed' /\ JobsKept' /\ AllSubmitting' /\ JobBudget' /\ GroupBudget' /\ SeenKept'
           /\ \A j \in DOMAIN irpJobs' : ~ OnFinalize(w, j)'
           /\ \A p \in Requests : OnSubmit(w, p)' => p = q
<1>. USE DEF Inductive
<1>1. GroupsGrow /\ JobsGrow /\ RowsStay /\ at # "idle" /\ at \in Places /\ thread[w].at # "idle"
      /\ at \notin FinalizeAt
  BY Unchanging DEF RowsStay, SubmitAt, Ended, WriterAt, NamedAt, Places, FinalizeAt
<1>2. Placed'
  BY <1>1, BodyPlaced
<1>3. \A v \in Threads : thread'[v].head = thread[v].head
  BY DEF Moves
<1>4. \A p \in Requests : (OnSubmit(w, p)' => p = q) /\ (OnSubmit(w, p) => p = q)
  BY <1>3, HeadFacts DEF OnSubmit
<1>5. ASSUME NEW j \in DOMAIN irpJobs PROVE ~ OnFinalize(w, j)'
  <2>1. j \in Nat
    BY Types
  <2> QED
    BY <1>3, <2>1, HeadFacts DEF OnFinalize, OnSubmit
<1>6. ASSUME NEW p \in Requests
      PROVE  /\ row'[p].pointer \in 0..Len(rm')
             /\ ~ Unserved(p)' => row'[p].status # "none"
             /\ row'[p].status # "none" => heads[Submit(p)] # "absent"
  <2>1. /\ row[p].pointer \in 0..Len(rm)
        /\ ~ Unserved(p) => row[p].status # "none"
        /\ row[p].status # "none" => heads[Submit(p)] # "absent"
    BY DEF Keyed
  <2>2. heads[Submit(q)] # "absent"
    BY HeadFacts DEF Keyed, OnSubmit
  <2>3. Unserved(p)' <=> Unserved(p)
    BY DEF Unserved
  <2> QED
    BY <2>1, <2>2, <2>3
<1>7. Keyed'
  BY <1>1, <1>3, <1>6, BodyKeyed
<1>8. JobsKept'
  BY <1>1, JobsKeptKeeps
<1>9. AllSubmitting'
  BY <1>1, <1>4, SubmittingKeeps DEF Moves
<1>10. JobBudget'
  <2>1. \A v \in Threads, p \in Requests :
            /\ OnSubmit(v, p)' <=> OnSubmit(v, p)
            /\ OnSubmit(v, p) /\ thread'[v].at \in WriterAt => thread[v].at \in WriterAt \/ Unserved(p)
    BY <1>3, <1>4 DEF Moves, OnSubmit
  <2>2. log'.taken >= log.taken
    BY Types
  <2> QED
    BY <2>1, <2>2, JobBudgetKeeps
<1>11. GroupBudget'
  <2>1. \A v \in Threads, p \in Requests :
            OnSubmit(v, p) /\ thread[v].at = "record" => OnSubmit(v, p)' /\ thread'[v].at = "record"
    BY DEF Moves, OnSubmit
  <2>2. log'.doubt >= log.doubt
    BY Types
  <2> QED
    BY <1>1, <2>1, <2>2, GroupBudgetKeeps
<1>12. SeenKept'
  <2>1. \A p \in Requests : ViewFair(w, p)'
    BY <1>4 DEF ViewFair
  <2> QED
    BY <1>1, <2>1, SeenKeeps, Types DEF Moves
<1> QED
  BY <1>2, <1>4, <1>5, <1>7, <1>8, <1>9, <1>10, <1>11, <1>12

\* The other two, when the rows stay as they are too.
LEMMA PlainBody ==
    ASSUME Inductive, Typed', NEW w \in Threads, NEW q \in Requests, OnSubmit(w, q),
           NEW at \in SubmitAt \cup Ended \cup {"raised"}, Moves(w, at),
           thread[w].at \in SubmitAt \ {"record", "mark"}, at # "record",
           UNCHANGED <<rm, irpJobs, heads, request, row>>,
           log'.taken = log.taken, log'.doubt = log.doubt, log'.unmarked = log.unmarked,
           at \in WriterAt => thread[w].at \in WriterAt \/ Unserved(q),
           Submitting(w, q)', ViewFair(w, q)', log.taken = 0 => NameKnown(w, q)', RunEnds(w, q)'
    PROVE  Inductive'
<1>. USE DEF Inductive
<1>1. row'[q].pointer \in 0..Len(rm)
  BY DEF Keyed
<1>2. /\ Placed' /\ Keyed' /\ JobsKept' /\ AllSubmitting' /\ JobBudget' /\ GroupBudget' /\ SeenKept'
      /\ \A j \in DOMAIN irpJobs' : ~ OnFinalize(w, j)'
      /\ \A p \in Requests : OnSubmit(w, p)' => p = q
  BY <1>1, SubmitKeeps
<1>3. GroupsGrow /\ JobsGrow
  BY Unchanging
<1>4. NamesKept'
  <2>1. \A v \in Threads :
            \/ thread'[v] = thread[v]
            \/ log'.taken = 0 =>
                  /\ \A p \in Requests : OnSubmit(v, p)' => NameKnown(v, p)'
                  /\ \A j \in DOMAIN irpJobs' : OnFinalize(v, j)' => NameRead(v, j)'
    BY <1>2 DEF Moves
  <2> QED
    BY <1>3, <2>1, NamesKeeps
<1>5. Settling'
  <2>1. \A v \in Threads :
            \/ thread'[v] = thread[v]
            \/ /\ \A p \in Requests : RunEnds(v, p)'
               /\ \A j \in DOMAIN irpJobs' : FinalizeEnds(v, j)'
    BY <1>2 DEF Moves, RunEnds, FinalizeEnds
  <2>2. \A j \in DOMAIN irpJobs' : Handled(j) => Handled(j)'
    BY DEF Handled, Marking, Moves, OnSubmit
  <2>3. log'.taken \in Nat /\ log'.taken >= log.taken
    BY Types
  <2> QED
    BY <1>3, <2>1, <2>2, <2>3, SettlingKeeps
<1> QED
  BY <1>2, <1>4, <1>5

-----------------------------------------------------------------------------
(* What an inspection without problems and resolved choices come to *)

\* What Risk Modeler may answer.
LEMMA WorldFacts ==
    ASSUME NEW s \in Worlds
    PROVE  /\ \A a \in Analyses : s.rows[a] \subseteq Row /\ IsFiniteSet(s.rows[a])
           /\ \A k \in Keys : s.versioned[k] \subseteq s.active[k] /\ 0 \notin s.active[k]
<1>1. PossibleWorld(s, Analyses)
  BY AnalysisGroupingAssumption
<1>2. s.rows \in [Analyses -> SUBSET Row]
  BY <1>1 DEF PossibleWorld, World
<1> QED
  BY <1>1, <1>2 DEF PossibleWorld

\* The parts of an inspection.
LEMMA Inspected ==
    ASSUME NEW s \in Worlds
    PROVE  LET i == Inspect(s, Analyses) IN
           /\ i.toPLT = SimulateToPLT(s, Analyses) /\ i.problems = Problems(s, Analyses)
           /\ UNION {i.facts[a] : a \in DOMAIN i.facts} = AllFacts(s, Analyses)
           /\ DOMAIN i.partitions = {k \in Keys : MembersOf(s, Analyses, k) # {}}
           /\ \A k \in DOMAIN i.partitions :
                 /\ i.partitions[k].schemes = Offered(s, Analyses, k)
                 /\ i.partitions[k].sets = OfferedSets(s, Analyses, k)
                 /\ i.partitions[k].conflicting = (Cardinality(Observed(s, Analyses, k)) > 1)
BY DEF Inspect, AllFacts, Partition

\* A region row without problems.
LEMMA RowsInOrder ==
    ASSUME NEW r \in Row, RowProblems(r) = {}
    PROVE  /\ r.framework \in {"ELT", "PLT"} /\ r.key \in Keys /\ r.key # NoKey
           /\ r.framework = "ELT" => r.scheme # 0
           /\ r.framework = "PLT" => r.pet # 0 /\ r.periods # 0
<1>1. r.framework \in {"ELT", "PLT", "none"} /\ r.key \in Keys \cup {NoKey}
  BY DEF Row
<1>2. r.framework # "none"
  BY DEF RowProblems
<1>3. r.key # NoKey
  BY <1>2 DEF RowProblems
<1>4. r.framework = "ELT" => r.scheme # 0
  BY <1>3 DEF RowProblems
<1>5. r.framework = "PLT" => r.pet # 0 /\ r.periods # 0
  BY DEF RowProblems
<1> QED
  BY <1>1, <1>2, <1>3, <1>4, <1>5

\* A list of no problems tells of every member, every row and every partition.
LEMMA Untroubled ==
    ASSUME NEW s \in Worlds, Problems(s, Analyses) = {}
    PROVE  /\ \A a \in Analyses : /\ a \in s.found /\ s.rows[a] # {}
                                  /\ \A r \in s.rows[a] : r \in Row /\ RowProblems(r) = {}
           /\ \A k \in Keys :
                 /\ Cardinality(Observed(s, Analyses, k)) > 1 => Offered(s, Analyses, k) # {}
                 /\ SimulateToPLT(s, Analyses) /\ EltMembers(s, Analyses, k) # {} =>
                       OfferedSets(s, Analyses, k) # {}
<1>. DEFINE P1 == {<<"not found", a>> : a \in Analyses \ s.found}
            P2 == {<<"no regions", a>> : a \in {x \in Analyses \cap s.found : s.rows[x] = {}}}
            P3 == UNION {{<<c, a>> : c \in UNION {RowProblems(r) : r \in s.rows[a]}} : a \in Analyses \cap s.found}
            P4 == {<<"no scheme", k>> : k \in {x \in Keys : /\ Cardinality(Observed(s, Analyses, x)) > 1
                                                            /\ Offered(s, Analyses, x) = {}}}
            P5 == {<<"no set", k>> : k \in {x \in Keys : /\ SimulateToPLT(s, Analyses)
                                                         /\ EltMembers(s, Analyses, x) # {}
                                                         /\ OfferedSets(s, Analyses, x) = {}}}
<1>1. P1 = {} /\ P2 = {} /\ P3 = {} /\ P4 = {} /\ P5 = {}
  <2>1. Problems(s, Analyses) = P1 \cup P2 \cup P3 \cup P4 \cup P5
    BY DEF Problems
  <2>. HIDE DEF P1, P2, P3, P4, P5
  <2> QED
    BY <2>1
<1>2. \A a \in Analyses : a \in s.found
  <2>1. \A a \in Analyses \ s.found : <<"not found", a>> \in P1
    OBVIOUS
  <2>. HIDE DEF P1, P2, P3, P4, P5
  <2> QED
    BY <1>1, <2>1
<1>3. ASSUME NEW a \in Analyses, s.rows[a] = {} PROVE FALSE
  <2>1. <<"no regions", a>> \in P2
    BY <1>2, <1>3
  <2> QED
    BY <1>1, <2>1
<1>4. ASSUME NEW a \in Analyses, NEW r \in s.rows[a] PROVE RowProblems(r) = {}
  <2>. DEFINE N == {<<c, a>> : c \in UNION {RowProblems(x) : x \in s.rows[a]}}
  <2>1. N \subseteq P3
    BY <1>2
  <2>2. N = {}
    BY <1>1, <2>1
  <2> QED
    BY <2>2
<1>5. ASSUME NEW k \in Keys, Cardinality(Observed(s, Analyses, k)) > 1, Offered(s, Analyses, k) = {}
      PROVE  FALSE
  <2>1. <<"no scheme", k>> \in P4
    BY <1>5
  <2> QED
    BY <1>1, <2>1
<1>6. ASSUME NEW k \in Keys, SimulateToPLT(s, Analyses), EltMembers(s, Analyses, k) # {},
             OfferedSets(s, Analyses, k) = {}
      PROVE  FALSE
  <2>1. <<"no set", k>> \in P5
    BY <1>6
  <2> QED
    BY <1>1, <2>1
<1>7. \A a \in Analyses : s.rows[a] \subseteq Row
  BY WorldFacts
<1> QED
  BY <1>2, <1>3, <1>4, <1>5, <1>6, <1>7

\* A fact keeps what its framework needs of its row.
LEMMA FactOf ==
    ASSUME NEW r \in Row
    PROVE  /\ Fact(r).framework = r.framework /\ Fact(r).key = r.key
           /\ r.framework = "ELT" => Fact(r).scheme = r.scheme
           /\ r.framework # "ELT" => /\ Fact(r).scheme = 0 /\ Fact(r).pet = r.pet
                                     /\ Fact(r).periods = r.periods
BY DEF Fact, Row

\* Every row is a fact, and nothing else is.
LEMMA RowsAreFacts ==
    ASSUME NEW s \in Worlds, Problems(s, Analyses) = {}
    PROVE  /\ \A a \in Analyses : \A r \in s.rows[a] : Fact(r) \in Facts(s, a) /\ Fact(r) \in AllFacts(s, Analyses)
           /\ \A f \in AllFacts(s, Analyses) : \E a \in Analyses : \E r \in s.rows[a] : f = Fact(r)
<1>1. ASSUME NEW a \in Analyses PROVE Facts(s, a) = {Fact(r) : r \in s.rows[a]}
  <2>1. {x \in s.rows[a] : x.framework # "none" /\ x.key # NoKey} = s.rows[a]
    BY Untroubled, RowsInOrder
  <2>2. a \in s.found
    BY Untroubled
  <2> QED
    BY <2>1, <2>2 DEF Facts
<1> QED
  BY <1>1 DEF AllFacts

\* An ELT row brings its scheme to its partition.
LEMMA EltRow ==
    ASSUME NEW s \in Worlds, Problems(s, Analyses) = {}, NEW a \in Analyses, NEW r \in s.rows[a],
           r.framework = "ELT"
    PROVE  /\ r.key \in Keys /\ MembersOf(s, Analyses, r.key) # {}
           /\ EltMembers(s, Analyses, r.key) # {} /\ r.scheme \in Observed(s, Analyses, r.key)
<1>1. r \in Row /\ RowProblems(r) = {}
  BY Untroubled
<1>2. r.key \in Keys /\ r.scheme # 0
  BY <1>1, RowsInOrder
<1>3. /\ Fact(r) \in Facts(s, a) /\ Fact(r) \in AllFacts(s, Analyses)
      /\ Fact(r).key = r.key /\ Fact(r).framework = "ELT" /\ Fact(r).scheme = r.scheme
  BY <1>1, RowsAreFacts, FactOf
<1>4. a \in MembersOf(s, Analyses, r.key) /\ a \in EltMembers(s, Analyses, r.key)
  BY <1>3 DEF MembersOf, EltMembers
<1>5. r.scheme \in Observed(s, Analyses, r.key)
  BY <1>2, <1>3 DEF Observed
<1> QED
  BY <1>2, <1>4, <1>5

LEMMA FiniteImage ==
    ASSUME NEW S, IsFiniteSet(S), NEW f, f = [x \in S |-> f[x]]
    PROVE  IsFiniteSet({f[x] : x \in S})
<1>. DEFINE T == {f[x] : x \in S}
<1>1. f \in Surjection(S, T)
  BY DEF Surjection
<1>. HIDE DEF T
<1>2. IsFiniteSet(T)
  BY <1>1, FS_Surjection
<1> QED
  BY <1>2 DEF T

\* A partition has finitely many schemes, none of them 0.
LEMMA ObservedFinite ==
    ASSUME NEW s \in Worlds, Problems(s, Analyses) = {}, NEW k
    PROVE  IsFiniteSet(Observed(s, Analyses, k)) /\ 0 \notin Observed(s, Analyses, k)
<1>1. ASSUME NEW a \in Analyses PROVE IsFiniteSet({Fact(r) : r \in s.rows[a]})
  <2>. DEFINE f == [r \in s.rows[a] |-> Fact(r)]
  <2>1. IsFiniteSet(s.rows[a])
    BY WorldFacts
  <2>2. IsFiniteSet({f[r] : r \in s.rows[a]})
    <3>1. f = [r \in s.rows[a] |-> f[r]]
      OBVIOUS
    <3>. HIDE DEF f
    <3> QED
      BY <2>1, <3>1, FiniteImage
  <2>3. {f[r] : r \in s.rows[a]} = {Fact(r) : r \in s.rows[a]}
    OBVIOUS
  <2> QED
    BY <2>2, <2>3
<1>. DEFINE F == [a \in Analyses |-> {Fact(r) : r \in s.rows[a]}]
            all == {F[a] : a \in Analyses}
<1>2. IsFiniteSet(all)
  <2>1. F = [a \in Analyses |-> F[a]]
    OBVIOUS
  <2>. HIDE DEF F
  <2> QED
    BY <2>1, ConstantFacts, FiniteImage
<1>3. \A T \in all : IsFiniteSet(T)
  BY <1>1
<1>4. IsFiniteSet(UNION all)
  <2>. HIDE DEF all
  <2> QED
    BY <1>2, <1>3, FS_UNION
<1>5. AllFacts(s, Analyses) = UNION all
  <2>1. AllFacts(s, Analyses) \subseteq UNION all
    BY RowsAreFacts
  <2>2. UNION all \subseteq AllFacts(s, Analyses)
    BY RowsAreFacts
  <2> QED
    BY <2>1, <2>2
<1>. HIDE DEF F, all
<1>. DEFINE K == {x \in AllFacts(s, Analyses) : x.key = k}
            g == [x \in K |-> x.scheme]
<1>6. IsFiniteSet(K)
  BY <1>4, <1>5, FS_Subset
<1>7. IsFiniteSet({g[x] : x \in K})
  <2>1. g = [x \in K |-> g[x]]
    OBVIOUS
  <2>. HIDE DEF g, K
  <2> QED
    BY <1>6, <2>1, FiniteImage
<1>8. Observed(s, Analyses, k) = {g[x] : x \in K} \ {0}
  BY DEF Observed
<1>. HIDE DEF g, K
<1>9. Observed(s, Analyses, k) \subseteq {g[x] : x \in K}
  BY <1>8
<1>10. IsFiniteSet(Observed(s, Analyses, k))
  BY <1>7, <1>9, FS_Subset
<1> QED
  BY <1>8, <1>10

\* A partition with a scheme is offered one, and what it is offered Risk Modeler
\* applies to it, or all its rows have.
LEMMA OfferedFacts ==
    ASSUME NEW s \in Worlds, Problems(s, Analyses) = {}, NEW k \in Keys, Observed(s, Analyses, k) # {}
    PROVE  /\ Offered(s, Analyses, k) # {} /\ 0 \notin Offered(s, Analyses, k)
           /\ Cardinality(Observed(s, Analyses, k)) > 1 => Offered(s, Analyses, k) \subseteq s.active[k]
           /\ ~ Cardinality(Observed(s, Analyses, k)) > 1 =>
                 /\ Offered(s, Analyses, k) = Observed(s, Analyses, k)
                 /\ Cardinality(Offered(s, Analyses, k)) = 1
                 /\ \A x, y \in Observed(s, Analyses, k) : x = y
<1>. DEFINE seen == Observed(s, Analyses, k)
<1>1. IsFiniteSet(seen) /\ 0 \notin seen /\ Cardinality(seen) \in Nat
  BY ObservedFinite, FS_CardinalityType
<1>2. s.versioned[k] \subseteq s.active[k] /\ 0 \notin s.active[k]
  BY WorldFacts
<1>3. CASE Cardinality(seen) > 1
  <2>1. Offered(s, Analyses, k) \in {s.versioned[k], s.active[k]}
    BY <1>1, <1>3 DEF Offered
  <2>2. Offered(s, Analyses, k) # {}
    BY <1>3, Untroubled
  <2> QED
    BY <1>2, <1>3, <2>1, <2>2
<1>4. CASE ~ Cardinality(seen) > 1
  <2>1. Offered(s, Analyses, k) = seen
    BY <1>1, <1>4 DEF Offered
  <2>. HIDE DEF seen
  <2>2. PICK x \in seen : TRUE
    BY DEF seen
  <2>3. Cardinality(seen) >= 1 /\ \A y \in seen : y # x => Cardinality(seen) >= 2
    BY <1>1, AtLeast
  <2>4. Cardinality(seen) = 1 /\ \A y \in seen : y = x
    BY <1>1, <1>4, <2>3
  <2> QED
    BY <1>1, <1>4, <2>1, <2>2, <2>4 DEF seen
<1> QED
  BY <1>3, <1>4

\* Resolved choices give a partition one of the schemes it was offered,
LEMMA SchemeChosen ==
    ASSUME NEW s \in Worlds, NEW c, Problems(s, Analyses) = {}, ChoicesResolve(Inspect(s, Analyses), c),
           NEW k \in Keys, MembersOf(s, Analyses, k) # {}, Observed(s, Analyses, k) # {}
    PROVE  SchemeFor(Inspect(s, Analyses), c, k) \in Offered(s, Analyses, k)
<1>. DEFINE i == Inspect(s, Analyses)
<1>1. /\ k \in DOMAIN i.partitions /\ i.partitions[k].schemes = Offered(s, Analyses, k)
      /\ i.partitions[k].conflicting = (Cardinality(Observed(s, Analyses, k)) > 1)
  BY Inspected
<1>. HIDE DEF i
<1>2. CASE Cardinality(i.partitions[k].schemes) = 1
  <2>1. i.partitions[k].schemes # {}
    BY <1>1, OfferedFacts
  <2> QED
    BY <1>1, <1>2, <2>1 DEF SchemeFor, i
<1>3. CASE Cardinality(i.partitions[k].schemes) # 1
  <2>1. Cardinality(Observed(s, Analyses, k)) > 1
    BY <1>1, <1>3, OfferedFacts
  <2>2. k \in SchemeNeeded(i)
    BY <1>1, <2>1 DEF SchemeNeeded
  <2>3. c.scheme[k] \in i.partitions[k].schemes
    BY <2>2 DEF ChoicesResolve, i
  <2> QED
    BY <1>1, <1>3, <2>3 DEF SchemeFor, i
<1> QED
  BY <1>2, <1>3

\* and one of its simulation sets.
LEMMA SetChosen ==
    ASSUME NEW s \in Worlds, NEW c, Problems(s, Analyses) = {}, ChoicesResolve(Inspect(s, Analyses), c),
           NEW k \in Keys, MembersOf(s, Analyses, k) # {}, EltMembers(s, Analyses, k) # {},
           SimulateToPLT(s, Analyses)
    PROVE  SetFor(Inspect(s, Analyses), c, k) \in s.sets[k]
<1>. DEFINE i == Inspect(s, Analyses)
<1>1. k \in DOMAIN i.partitions /\ i.partitions[k].sets = OfferedSets(s, Analyses, k)
  BY Inspected
<1>2. i.partitions[k].sets # {} /\ i.partitions[k].sets \subseteq s.sets[k]
  BY <1>1, Untroubled DEF OfferedSets
<1>. HIDE DEF i
<1>3. k \in SetNeeded(i)
  BY <1>1, <1>2 DEF SetNeeded
<1>4. PICK t \in i.partitions[k].sets : t.id = c.set[k].id
  BY <1>3 DEF ChoicesResolve, i
<1>5. SetFor(i, c, k) \in i.partitions[k].sets
  BY <1>4 DEF SetFor
<1> QED
  BY <1>2, <1>5 DEF i

\* A row is not left out of the body, and nothing comes into it but from a row.
LEMMA Regions ==
    ASSUME NEW s \in Worlds, NEW c, NEW asked, Problems(s, Analyses) = {},
           ChoicesResolve(Inspect(s, Analyses), c)
    PROVE  LET i == Inspect(s, Analyses)
               body == RegionMap(i, c, asked)
           IN
           /\ \A a \in Analyses : \A r \in s.rows[a] :
                 \/ body = {} /\ ~ SimulateToPLT(s, Analyses) /\ SchemeNeeded(i) = {}
                 \/ Entry(i, c, asked, Fact(r)) \in body
           /\ \A e \in body : \E a \in Analyses : \E r \in s.rows[a] : e = Entry(i, c, asked, Fact(r))
<1>. DEFINE i == Inspect(s, Analyses)
            all == UNION {i.facts[a] : a \in DOMAIN i.facts}
            body == RegionMap(i, c, asked)
<1>1. all = AllFacts(s, Analyses) /\ i.toPLT = SimulateToPLT(s, Analyses)
  BY Inspected
<1>2. ASSUME NEW a \in Analyses, NEW r \in s.rows[a] PROVE ~ Skipped(i, Fact(r)) /\ Fact(r) \in all
  <2>1. /\ r \in Row /\ RowProblems(r) = {}
        /\ Fact(r).framework = r.framework /\ Fact(r).key = r.key
        /\ r.framework \in {"ELT", "PLT"}
        /\ r.framework = "PLT" => /\ Fact(r).pet = r.pet /\ Fact(r).periods = r.periods
                                  /\ r.pet # 0 /\ r.periods # 0
    BY Untroubled, FactOf, RowsInOrder
  <2>2. ASSUME r.framework = "ELT" PROVE i.partitions[r.key].schemes # {}
    <3>1. r.key \in Keys /\ MembersOf(s, Analyses, r.key) # {} /\ Observed(s, Analyses, r.key) # {}
      BY <2>2, EltRow
    <3>2. Offered(s, Analyses, r.key) # {}
      BY <3>1, OfferedFacts
    <3> QED
      BY <3>1, <3>2, Inspected
  <2>3. Fact(r) \in all
    BY <1>1, RowsAreFacts
  <2>. HIDE DEF i
  <2> QED
    BY <2>1, <2>2, <2>3 DEF Skipped
<1>. HIDE DEF i
<1>3. body = IF ~ i.toPLT /\ SchemeNeeded(i) = {} THEN {}
             ELSE {Entry(i, c, asked, f) : f \in {x \in all : ~ Skipped(i, x)}}
  BY DEF RegionMap
<1>. HIDE DEF body, all
<1>4. ASSUME NEW a \in Analyses, NEW r \in s.rows[a]
      PROVE  \/ body = {} /\ ~ SimulateToPLT(s, Analyses) /\ SchemeNeeded(i) = {}
             \/ Entry(i, c, asked, Fact(r)) \in body
  BY <1>1, <1>2, <1>3
<1>5. ASSUME NEW e \in body PROVE \E a \in Analyses : \E r \in s.rows[a] : e = Entry(i, c, asked, Fact(r))
  <2>1. PICK f \in all : e = Entry(i, c, asked, f)
    BY <1>3
  <2>2. \E a \in Analyses : \E r \in s.rows[a] : f = Fact(r)
    BY <1>1, RowsAreFacts
  <2> QED
    BY <2>1, <2>2
<1> QED
  BY <1>4, <1>5 DEF i, body

\* The entry of a row.
LEMMA Entries ==
    ASSUME NEW s \in Worlds, NEW c, NEW asked, Problems(s, Analyses) = {},
           ChoicesResolve(Inspect(s, Analyses), c), NEW a \in Analyses, NEW r \in s.rows[a]
    PROVE  LET e == Entry(Inspect(s, Analyses), c, asked, Fact(r)) IN
           /\ e.key = r.key
           /\ r.framework = "PLT" => e.scheme = 0 /\ e.set = r.pet
           /\ r.framework = "ELT" =>
                 /\ e.scheme = SchemeFor(Inspect(s, Analyses), c, r.key)
                 /\ e.scheme # 0 /\ (e.scheme = r.scheme \/ e.scheme \in s.active[r.key])
                 /\ SimulateToPLT(s, Analyses) => \E t \in s.sets[r.key] : t.id = e.set
<1>. DEFINE i == Inspect(s, Analyses)
            e == Entry(i, c, asked, Fact(r))
<1>1. /\ r \in Row /\ Fact(r).framework = r.framework /\ Fact(r).key = r.key
      /\ r.framework \in {"ELT", "PLT"}
      /\ r.framework = "PLT" => Fact(r).pet = r.pet
  BY Untroubled, FactOf, RowsInOrder
<1>2. i.toPLT = SimulateToPLT(s, Analyses)
  BY Inspected
<1>. HIDE DEF i
<1>3. /\ e.key = r.key
      /\ r.framework = "PLT" => e.scheme = 0 /\ e.set = r.pet
      /\ r.framework = "ELT" => e.scheme = SchemeFor(i, c, r.key)
      /\ r.framework = "ELT" /\ i.toPLT => e.set = SetFor(i, c, r.key).id
  BY <1>1 DEF Entry
<1>. HIDE DEF e
<1>4. ASSUME r.framework = "ELT"
      PROVE  /\ e.scheme # 0 /\ (e.scheme = r.scheme \/ e.scheme \in s.active[r.key])
             /\ SimulateToPLT(s, Analyses) => \E t \in s.sets[r.key] : t.id = e.set
  <2>1. /\ r.key \in Keys /\ MembersOf(s, Analyses, r.key) # {}
        /\ EltMembers(s, Analyses, r.key) # {} /\ r.scheme \in Observed(s, Analyses, r.key)
    BY <1>4, EltRow
  <2>2. e.scheme \in Offered(s, Analyses, r.key)
    BY <1>3, <1>4, <2>1, SchemeChosen DEF i
  <2>3. e.scheme # 0 /\ (e.scheme = r.scheme \/ e.scheme \in s.active[r.key])
    BY <2>1, <2>2, OfferedFacts
  <2>4. SimulateToPLT(s, Analyses) => SetFor(i, c, r.key) \in s.sets[r.key]
    BY <2>1, SetChosen DEF i
  <2> QED
    BY <1>2, <1>3, <1>4, <2>3, <2>4
<1> QED
  BY <1>3, <1>4 DEF i, e

\* A body built without problems from resolved choices covers every row.
LEMMA ResolvedCovers ==
    ASSUME NEW s \in Worlds, NEW c \in Postable, Inspect(s, Analyses).problems = {},
           ChoicesResolve(Inspect(s, Analyses), c)
    PROVE  Covers(s, AsSeen(s, c))
<1>. DEFINE i == Inspect(s, Analyses)
            asked == PeriodsAsked(i)
            body == AsSeen(s, c)
            elt == {x \in UNION {s.rows[a] : a \in Analyses} : x.framework = "ELT"}
            Of(r) == {e \in body.regions : e.key = r.key /\ (e.scheme = 0 <=> r.framework = "PLT")}
<1>1. /\ body.regions = RegionMap(i, c, asked) /\ body.toPLT = SimulateToPLT(s, Analyses)
      /\ Problems(s, Analyses) = {}
  BY Inspected DEF AsSeen, Body
<1>2. /\ \A a \in Analyses : \A r \in s.rows[a] :
             \/ body.regions = {} /\ ~ SimulateToPLT(s, Analyses) /\ SchemeNeeded(i) = {}
             \/ Entry(i, c, asked, Fact(r)) \in body.regions
      /\ \A e \in body.regions : \E a \in Analyses : \E r \in s.rows[a] : e = Entry(i, c, asked, Fact(r))
  BY <1>1, Regions
<1>. HIDE DEF asked, body
<1>3. ASSUME NEW a \in Analyses, NEW r \in s.rows[a]
      PROVE  IF body.regions = {}
               THEN r.scheme # 0 /\ \A x \in elt : x.key = r.key => x.scheme = r.scheme
             ELSE IF r.framework = "PLT" THEN r.pet # 0 /\ r.pet \in {e.set : e \in Of(r)}
             ELSE /\ Cardinality({e.scheme : e \in Of(r)}) = 1
                  /\ \A e \in Of(r) : e.scheme = r.scheme \/ e.scheme \in s.active[r.key]
                  /\ body.toPLT => \A e \in Of(r) : \E t \in s.sets[r.key] : t.id = e.set
  <2>1. r \in Row /\ RowProblems(r) = {} /\ r.framework \in {"ELT", "PLT"}
    BY <1>1, Untroubled, RowsInOrder
  <2>2. CASE body.regions = {}
    <3>1. ~ SimulateToPLT(s, Analyses) /\ SchemeNeeded(i) = {}
      BY <1>2, <2>2
    <3>2. r.framework = "ELT"
      <4>1. Fact(r) \in AllFacts(s, Analyses) /\ Fact(r).framework = r.framework
        BY <1>1, <2>1, RowsAreFacts, FactOf
      <4> QED
        BY <2>1, <3>1, <4>1 DEF SimulateToPLT
    <3>3. /\ r.key \in Keys /\ MembersOf(s, Analyses, r.key) # {}
          /\ r.scheme \in Observed(s, Analyses, r.key) /\ r.scheme # 0
      BY <1>1, <2>1, <3>2, EltRow, RowsInOrder
    <3>4. ~ Cardinality(Observed(s, Analyses, r.key)) > 1
      <4>1. r.key \in DOMAIN i.partitions /\ r.key \notin SchemeNeeded(i)
        BY <3>1, <3>3, Inspected
      <4>2. ~ i.partitions[r.key].conflicting
        BY <4>1 DEF SchemeNeeded
      <4> QED
        BY <4>1, <4>2, Inspected
    <3>5. ASSUME NEW x \in elt, x.key = r.key PROVE x.scheme = r.scheme
      <4>1. x.scheme \in Observed(s, Analyses, r.key)
        BY <1>1, <3>5, EltRow
      <4> QED
        BY <1>1, <3>3, <3>4, <4>1, OfferedFacts
    <3> QED
      BY <2>2, <3>3, <3>5
  <2>3. CASE body.regions # {} /\ r.framework = "PLT"
    <3>. DEFINE e == Entry(i, c, asked, Fact(r))
    <3>1. e \in body.regions
      BY <1>2, <2>3
    <3>2. e.key = r.key /\ e.scheme = 0 /\ e.set = r.pet
      BY <1>1, <2>3, Entries
    <3>3. r.pet # 0
      BY <2>1, <2>3, RowsInOrder
    <3>. HIDE DEF e, i
    <3>4. e \in Of(r)
      BY <2>3, <3>1, <3>2
    <3> QED
      BY <2>3, <3>2, <3>3, <3>4
  <2>4. CASE body.regions # {} /\ r.framework = "ELT"
    <3>. DEFINE e == Entry(i, c, asked, Fact(r))
    <3>1. e \in body.regions
      BY <1>2, <2>4
    <3>2. e.key = r.key /\ e.scheme = SchemeFor(i, c, r.key) /\ e.scheme # 0
      BY <1>1, <2>4, Entries
    <3>3. ASSUME NEW d \in Of(r)
          PROVE  /\ d.scheme = SchemeFor(i, c, r.key)
                 /\ d.scheme = r.scheme \/ d.scheme \in s.active[r.key]
                 /\ SimulateToPLT(s, Analyses) => \E t \in s.sets[r.key] : t.id = d.set
      <4>1. PICK b \in Analyses : \E x \in s.rows[b] : d = Entry(i, c, asked, Fact(x))
        BY <1>2
      <4>2. PICK x \in s.rows[b] : d = Entry(i, c, asked, Fact(x))
        BY <4>1
      <4>3. x.framework \in {"ELT", "PLT"}
        BY <1>1, Untroubled, RowsInOrder
      <4>4. d.key = r.key /\ d.scheme # 0
        BY <2>4
      <4>5. x.framework = "ELT" /\ x.key = r.key
        BY <1>1, <4>2, <4>3, <4>4, Entries
      <4>6. /\ d.scheme = SchemeFor(i, c, r.key)
            /\ SimulateToPLT(s, Analyses) => \E t \in s.sets[r.key] : t.id = d.set
        BY <1>1, <4>2, <4>5, Entries
      <4>7. e.scheme = r.scheme \/ e.scheme \in s.active[r.key]
        BY <1>1, <2>4, Entries
      <4> QED
        BY <3>2, <4>6, <4>7
    <3>. HIDE DEF e, i
    <3>4. e \in Of(r)
      BY <2>4, <3>1, <3>2
    <3>5. {d.scheme : d \in Of(r)} = {SchemeFor(i, c, r.key)}
      <4>. HIDE DEF Of
      <4> QED
        BY <3>2, <3>3, <3>4
    <3>6. Cardinality({SchemeFor(i, c, r.key)}) = 1
      BY FS_Singleton
    <3> QED
      BY <1>1, <2>4, <3>3, <3>5, <3>6
  <2> QED
    BY <2>1, <2>2, <2>3, <2>4
<1>4. \A a \in Analyses : a \in s.found /\ s.rows[a] # {}
  BY <1>1, Untroubled
<1> QED
  BY <1>3, <1>4, Zenon DEF Covers, body

LEMMA BodyTyped ==
    ASSUME Typed, UNCHANGED <<world, heads, request>>, thread' \in [Threads -> Thread],
           row' \in [Requests -> GroupRow], rm' \in Seq(Group), irpJobs' \in Seq(Job),
           log' \in Log, log'.taken = log.taken, spent' \in Budget,
           \/ spent' = spent
           \/ spent'.faults <= MaxFaults /\ spent'.faults >= spent.faults
    PROVE  Typed'
<1>1. log'.taken <= spent'.faults /\ spent'.faults <= MaxFaults
  <2>1. /\ log.taken \in Nat /\ spent.faults \in Nat /\ spent'.faults \in Nat
        /\ log.taken <= spent.faults /\ spent.faults <= MaxFaults
    BY DEF Typed, Log, Budget
  <2> QED
    BY <2>1
<1> QED
  BY <1>1 DEF Typed

\* One lemma for each step of the body: the invariant is kept.
LEMMA LookKeeps ==
    ASSUME Inductive, NEW w \in Threads, Look(w)
    PROVE  Inductive'
<1>0. thread[w].at = "look" /\ UNCHANGED <<world, heads, request, log, rm, row, irpJobs, spent>>
  BY DEF Look, BodyKeeps
<1>1. thread[w].at \in SubmitAt \ {"record", "mark"}
  BY <1>0 DEF SubmitAt
<1>2. PICK q \in Requests : OnSubmit(w, q) /\ Body1(w) = q
  BY <1>1, Working DEF Inductive
<1>. DEFINE at == IF \E j \in DOMAIN irpJobs : irpJobs[j].of = q THEN "succeeded" ELSE "claim"
<1>3. Go(w, at)
  BY <1>2 DEF Look
<1>4. /\ at \in SubmitAt \cup Ended /\ at \in Places /\ at \notin {"record", "failed", "post"}
      /\ at \notin NamedAt \cup {"record failure", "mark"}
      /\ (at = "claim" => Unserved(q)) /\ (at = "succeeded" => ~ Unserved(q))
      /\ at \in WriterAt => Unserved(q)
  BY DEF SubmitAt, Ended, Places, WriterAt, NamedAt, Unserved
<1>. HIDE DEF at
<1>5. Moves(w, at)
  BY <1>3, <1>4, Goes DEF Inductive
<1>6. Typed'
  BY <1>0, <1>5, BodyTyped DEF Inductive, Typed, Moves
<1>7. Submitting(w, q)'
  BY <1>0, <1>4, <1>5 DEF Submitting, Moves, Unserved
<1>8. ViewFair(w, q)' /\ NameKnown(w, q)' /\ RunEnds(w, q)'
  BY <1>4, <1>5 DEF ViewFair, NameKnown, RunEnds, Moves
<1> QED
  BY <1>0, <1>1, <1>2, <1>4, <1>5, <1>6, <1>7, <1>8, PlainBody

LEMMA CountNamedKeeps ==
    ASSUME Inductive, NEW w \in Threads, CountNamed(w)
    PROVE  Inductive'
<1>0. thread[w].at = "count" /\ UNCHANGED <<world, heads, request, log, rm, row, irpJobs, spent>>
  BY DEF CountNamed, BodyKeeps
<1>1. thread[w].at \in SubmitAt \ {"record", "mark"} /\ thread[w].at \in WriterAt /\ thread[w].at \in NamedAt
  BY <1>0 DEF SubmitAt, WriterAt, NamedAt
<1>2. PICK q \in Requests : OnSubmit(w, q) /\ Body1(w) = q
  BY <1>1, Working DEF Inductive
<1>3. PICK at \in {"inspect", "rename", "record failure"} : Go(w, at)
  BY DEF CountNamed
<1>4. at \in SubmitAt \cup Ended /\ at \in Places
  BY DEF SubmitAt, Ended, Places, WriterAt, NamedAt
<1>5. Moves(w, at) /\ (at # "record failure" => Keeps(w))
  BY <1>3, <1>4, Goes DEF Inductive, Outcome
<1>6. Typed'
  BY <1>0, <1>5, BodyTyped DEF Inductive, Typed, Moves
<1>7. Submitting(w, q)'
  <2>1. row[q].status # "none"
    BY <1>1, <1>2 DEF Inductive, AllSubmitting, Submitting
  <2> QED
    BY <1>0, <1>5, <2>1 DEF Submitting, Moves
<1>8. ViewFair(w, q)' /\ RunEnds(w, q)'
  BY <1>5 DEF ViewFair, RunEnds, Moves
<1>9. log.taken = 0 => NameKnown(w, q)'
  <2>1. log.taken = 0 => NameKnown(w, q)
    BY <1>2 DEF Inductive, NamesKept
  <2> QED
    BY <1>0, <1>1, <1>5, <2>1 DEF NameKnown, Moves, Keeps, NamedAt
<1> QED
  BY <1>0, <1>1, <1>2, <1>4, <1>5, <1>6, <1>7, <1>8, <1>9, PlainBody

LEMMA RowSet ==
    ASSUME Typed, NEW q \in Requests, NEW r \in GroupRow, row' = [row EXCEPT ![q] = r]
    PROVE  /\ row' \in [Requests -> GroupRow] /\ row'[q] = r
           /\ \A p \in Requests \ {q} : row'[p] = row[p]
<1>1. row \in [Requests -> GroupRow]
  BY DEF Typed
<1> QED
  BY <1>1

\* A row written anew under the first free name.
LEMMA RowClaimKeeps ==
    ASSUME Inductive, NEW w \in Threads, NEW q \in Requests, OnSubmit(w, q), thread[w].at = "claim",
           UNCHANGED <<world, heads, request, log, rm, irpJobs, spent>>, row[q].status = "none",
           NEW name \in Seq(Nat),
           row' = [row EXCEPT ![q] = [NoRow EXCEPT !.status = "pending", !.name = name]],
           Moves(w, "count"), thread'[w].name = name
    PROVE  Inductive'
<1>. USE DEF Inductive
<1>1. thread[w].at \in SubmitAt \ {"record"} /\ "count" \in SubmitAt \cup Ended
      /\ thread[w].at \in WriterAt
  BY DEF SubmitAt, WriterAt, NamedAt
<1>. DEFINE r == [NoRow EXCEPT !.status = "pending", !.name = name]
<1>2. r \in GroupRow /\ r.status = "pending" /\ r.name = name /\ r.pointer = 0
  BY DEF NoRow, GroupRow
<1>. HIDE DEF r
<1>3. row' \in [Requests -> GroupRow] /\ row'[q] = r /\ \A p \in Requests \ {q} : row'[p] = row[p]
  BY <1>2, RowSet DEF r
<1>4. Typed'
  BY <1>3, BodyTyped DEF Typed, Moves
<1>5. Submitting(w, q)' /\ ViewFair(w, q)' /\ NameKnown(w, q)' /\ RunEnds(w, q)'
  BY <1>2, <1>3 DEF Submitting, ViewFair, NameKnown, RunEnds, Moves
<1>6. /\ Placed' /\ Keyed' /\ JobsKept' /\ AllSubmitting' /\ JobBudget' /\ GroupBudget' /\ SeenKept'
      /\ \A j \in DOMAIN irpJobs' : ~ OnFinalize(w, j)'
      /\ \A p \in Requests : OnSubmit(w, p)' => p = q
  <2>2. row'[q].pointer = 0 /\ Len(rm) \in Nat
    BY <1>2, <1>3, Types
  <2>1. row'[q].pointer \in 0..Len(rm)
    BY <2>2
  <2> QED
    BY <1>1, <1>2, <1>3, <1>4, <1>5, <2>1, SubmitKeeps
<1>7. GroupsGrow /\ JobsGrow /\ Unserved(q) /\ Unserved(q)'
  BY Unchanging DEF Keyed, Unserved
<1>8. NamesKept'
  <2>1. \A v \in Threads : OnSubmit(v, q) => thread[v].at \notin NamedAt
    BY DEF AllSubmitting, Submitting
  <2>2. \A v \in Threads :
            \/ thread'[v] = thread[v]
            \/ log'.taken = 0 =>
                  /\ \A p \in Requests : OnSubmit(v, p)' => NameKnown(v, p)'
                  /\ \A j \in DOMAIN irpJobs' : OnFinalize(v, j)' => NameRead(v, j)'
    BY <1>5, <1>6 DEF Moves
  <2>3. \A p \in Requests : \/ row'[p].status = row[p].status /\ row'[p].pointer = row[p].pointer
                            \/ log'.taken = 0 => Pointed(p)'
    BY <1>2, <1>3 DEF Pointed
  <2>4. \A p \in Requests : row[p].pointer # 0 => row'[p].pointer # 0 \/ Unserved(p)'
    BY <1>3, <1>7
  <2>5. \A p \in Requests :
               \/ row'[p].name = row[p].name
               \/ log'.taken = 0 =>
                     /\ Unserved(p)'
                     /\ \A v \in Threads : OnSubmit(v, p) /\ thread[v].at \in NamedAt => thread'[v] # thread[v]
    BY <1>3, <1>7, <2>1
  <2> QED
    BY <1>4, <1>7, <2>2, <2>3, <2>4, <2>5, NamesKeeps
<1>9. Settling'
  <2>1. \A v \in Threads :
            \/ thread'[v] = thread[v]
            \/ /\ \A p \in Requests : RunEnds(v, p)'
               /\ \A j \in DOMAIN irpJobs' : FinalizeEnds(v, j)'
    BY <1>5, <1>6 DEF Moves, RunEnds, FinalizeEnds
  <2>2. \A j \in DOMAIN irpJobs' : Handled(j) => Handled(j)'
    BY DEF Handled, Marking, Moves, OnSubmit
  <2>3. log'.taken \in Nat /\ log'.taken >= log.taken
    BY Types
  <2>5. \A p \in Requests :
               /\ row'[p].status = "pending" => row[p].status = "pending" \/ Unserved(p)'
               /\ heads'[Submit(p)] \in Ended => heads[Submit(p)] \in Ended \/ HeadEnds(p)'
    BY <1>3, <1>7
  <2> QED
    BY <1>7, <2>1, <2>2, <2>3, <2>5, SettlingKeeps
<1> QED
  BY <1>4, <1>6, <1>8, <1>9

LEMMA ClaimGroupKeeps ==
    ASSUME Inductive, NEW w \in Threads, ClaimGroup(w)
    PROVE  Inductive'
<1>0. thread[w].at = "claim" /\ UNCHANGED <<world, heads, request, log, rm, irpJobs, spent>>
  BY DEF ClaimGroup, BodyKeeps
<1>1. thread[w].at \in SubmitAt \ {"record", "mark"} /\ thread[w].at \in WriterAt
  BY <1>0 DEF SubmitAt, WriterAt
<1>2. PICK q \in Requests : OnSubmit(w, q) /\ Body1(w) = q
  BY <1>1, Working DEF Inductive
<1>3. /\ request[q].base \in Seq(Nat) /\ row[q] \in GroupRow /\ thread[w] \in Thread /\ Typed
      /\ row \in [Requests -> GroupRow]
  BY DEF Inductive, Typed, Dialog
<1>4. /\ "count" \in Places /\ "raised" \in Places /\ "count" \in SubmitAt \cup Ended
      /\ "raised" \notin WriterAt /\ "raised" \notin NamedAt
  BY DEF Places, SubmitAt, Ended, NamedAt, WriterAt
<1>5. ASSUME NEW name \in Seq(Nat), thread' = [thread EXCEPT ![w].at = "count", ![w].name = name]
      PROVE  Moves(w, "count") /\ thread'[w].name = name
  <2>. DEFINE t == [thread[w] EXCEPT !.at = "count", !.name = name]
  <2>1. t \in Thread /\ t.head = thread[w].head /\ t.at = "count" /\ t.name = name
    BY <1>3, <1>4, <1>5 DEF Thread
  <2>2. thread' = [thread EXCEPT ![w] = t]
    BY <1>5
  <2>. HIDE DEF t
  <2> QED
    BY <1>3, <2>1, <2>2, Becomes
<1>6. CASE row[q].status # "none"
  <2>1. thread' = [thread EXCEPT ![w].at = "count", ![w].name = row[q].name] /\ UNCHANGED row
    BY <1>2, <1>6 DEF ClaimGroup
  <2>2. row[q].name \in Seq(Nat)
    BY <1>3 DEF GroupRow
  <2>3. Moves(w, "count") /\ thread'[w].name = row[q].name
    BY <1>5, <2>1, <2>2
  <2>4. Typed'
    BY <1>0, <1>3, <2>1, <2>3, BodyTyped DEF Typed, Moves
  <2>5. Submitting(w, q)' /\ ViewFair(w, q)' /\ NameKnown(w, q)' /\ RunEnds(w, q)'
    BY <1>6, <2>1, <2>3 DEF Submitting, ViewFair, NameKnown, RunEnds, Moves
  <2> QED
    BY <1>0, <1>1, <1>2, <1>4, <2>1, <2>3, <2>4, <2>5, PlainBody
<1>7. CASE row[q].status = "none" /\ FreeAttempts(q, request[q].base, 0) = {}
  <2>1. Go(w, "raised") /\ UNCHANGED row
    BY <1>2, <1>7 DEF ClaimGroup
  <2>2. Moves(w, "raised")
    BY <1>3, <1>4, <2>1, Goes
  <2>3. Typed'
    BY <1>0, <1>3, <2>1, <2>2, BodyTyped DEF Typed, Moves
  <2>4. Submitting(w, q)' /\ ViewFair(w, q)' /\ NameKnown(w, q)' /\ RunEnds(w, q)'
    BY <1>4, <2>2 DEF Submitting, ViewFair, NameKnown, RunEnds, Moves, NamedAt
  <2> QED
    BY <1>0, <1>1, <1>2, <1>4, <2>1, <2>2, <2>3, <2>4, PlainBody
<1>8. CASE row[q].status = "none" /\ FreeAttempts(q, request[q].base, 0) # {}
  <2>. DEFINE name == Attempt(request[q].base, Min(FreeAttempts(q, request[q].base, 0)))
  <2>1. /\ row' = [row EXCEPT ![q] = [NoRow EXCEPT !.status = "pending", !.name = name]]
        /\ thread' = [thread EXCEPT ![w].at = "count", ![w].name = name]
    BY <1>2, <1>8 DEF ClaimGroup
  <2>2. name \in Seq(Nat)
    BY <1>3, <1>8, FreeName
  <2>. HIDE DEF name
  <2>3. Moves(w, "count") /\ thread'[w].name = name
    BY <1>5, <2>1, <2>2
  <2> QED
    BY <1>0, <1>2, <1>8, <2>1, <2>2, <2>3, RowClaimKeeps
<1> QED
  BY <1>6, <1>7, <1>8

LEMMA RenameKeeps ==
    ASSUME Inductive, NEW w \in Threads, Rename(w)
    PROVE  Inductive'
<1>. USE DEF Inductive
<1>0. thread[w].at = "rename" /\ UNCHANGED <<world, heads, request, log, rm, irpJobs, spent>>
  BY DEF Rename, BodyKeeps
<1>1. thread[w].at \in SubmitAt \ {"record", "mark"} /\ thread[w].at \in WriterAt /\ thread[w].at \in NamedAt
  BY <1>0 DEF SubmitAt, WriterAt, NamedAt
<1>2. PICK q \in Requests : OnSubmit(w, q) /\ Body1(w) = q
  BY <1>1, Working
<1>3. /\ request[q].base \in Seq(Nat) /\ row[q] \in GroupRow /\ thread[w] \in Thread
      /\ row \in [Requests -> GroupRow] /\ thread[w].attempt + 1 \in Nat
  <2>1. request[q] \in Dialog /\ row[q] \in GroupRow /\ thread[w] \in Thread /\ row \in [Requests -> GroupRow]
    BY DEF Typed
  <2> QED
    BY <2>1 DEF Dialog, Thread
<1>4. row[q].status # "none"
  BY <1>1, <1>2 DEF AllSubmitting, Submitting
<1>. DEFINE free == FreeAttempts(q, request[q].base, thread[w].attempt + 1)
            name == Attempt(request[q].base, Min(free))
<1>5. CASE free = {}
  <2>1. Go(w, "record failure") /\ UNCHANGED row
    BY <1>2, <1>5 DEF Rename
  <2>2. "record failure" \in SubmitAt \cup Ended /\ "record failure" \in Places /\ "record failure" \in WriterAt
    BY DEF SubmitAt, Places, WriterAt
  <2>3. Moves(w, "record failure")
    BY <2>1, <2>2, Goes
  <2>4. Typed'
    BY <1>0, <2>1, <2>3, BodyTyped DEF Typed, Moves
  <2>5. Submitting(w, q)' /\ ViewFair(w, q)' /\ NameKnown(w, q)' /\ RunEnds(w, q)'
    BY <1>4, <2>1, <2>3 DEF Submitting, ViewFair, NameKnown, RunEnds, Moves, NamedAt
  <2> QED
    BY <1>0, <1>1, <1>2, <2>1, <2>2, <2>3, <2>4, <2>5, PlainBody
<1>6. CASE free # {}
  <2>1. /\ row' = [row EXCEPT ![q].name = name]
        /\ thread' = [thread EXCEPT ![w].at = "count", ![w].name = name, ![w].attempt = Min(free)]
    BY <1>2, <1>6 DEF Rename
  <2>2. name \in Seq(Nat) /\ Min(free) \in Nat
    BY <1>3, <1>6, FreeName
  <2>. HIDE DEF free, name
  <2>. DEFINE r == [row[q] EXCEPT !.name = name]
              t == [thread[w] EXCEPT !.at = "count", !.name = name, !.attempt = Min(free)]
  <2>3. r \in GroupRow /\ r.status = row[q].status /\ r.pointer = row[q].pointer /\ r.name = name
    BY <1>3, <2>2 DEF GroupRow
  <2>4. row' = [row EXCEPT ![q] = r]
    BY <2>1
  <2>5. "count" \in Places /\ "count" \in SubmitAt \cup Ended /\ "count" \in NamedAt
    BY DEF Places, SubmitAt, WriterAt, NamedAt
  <2>6. t \in Thread /\ t.head = thread[w].head /\ t.at = "count" /\ t.name = name
    BY <1>3, <2>2, <2>5 DEF Thread
  <2>7. thread' = [thread EXCEPT ![w] = t]
    BY <2>1
  <2>. HIDE DEF r, t
  <2>8. row' \in [Requests -> GroupRow] /\ row'[q] = r /\ \A p \in Requests \ {q} : row'[p] = row[p]
    BY <2>3, <2>4, RowSet
  <2>9. Moves(w, "count") /\ thread'[w].name = name
    BY <2>6, <2>7, Becomes
  <2>10. Typed'
    BY <1>0, <2>8, <2>9, BodyTyped DEF Typed, Moves
  <2>11. Submitting(w, q)' /\ ViewFair(w, q)' /\ NameKnown(w, q)' /\ RunEnds(w, q)'
    BY <1>4, <2>3, <2>8, <2>9 DEF Submitting, ViewFair, NameKnown, RunEnds, Moves
  <2>12. row'[q].pointer \in 0..Len(rm)
    BY <2>3, <2>8 DEF Keyed
  <2>13. /\ Placed' /\ Keyed' /\ JobsKept' /\ AllSubmitting' /\ JobBudget' /\ GroupBudget' /\ SeenKept'
         /\ \A j \in DOMAIN irpJobs' : ~ OnFinalize(w, j)'
         /\ \A p \in Requests : OnSubmit(w, p)' => p = q
    BY <1>0, <1>1, <1>2, <1>4, <2>3, <2>5, <2>8, <2>9, <2>10, <2>11, <2>12, SubmitKeeps
  <2>14. GroupsGrow /\ JobsGrow
    BY <1>0, Unchanging
  <2>15. \A p \in Requests : row'[p].status = row[p].status /\ row'[p].pointer = row[p].pointer
    BY <2>3, <2>8
  <2>16. NamesKept'
    <3>1. log.taken = 0 => Unserved(q) /\ \A v \in Threads : OnSubmit(v, q) => v = w
      BY <1>1, <1>2, Alone
    <3>2. \A v \in Threads :
              \/ thread'[v] = thread[v]
              \/ log'.taken = 0 =>
                    /\ \A p \in Requests : OnSubmit(v, p)' => NameKnown(v, p)'
                    /\ \A j \in DOMAIN irpJobs' : OnFinalize(v, j)' => NameRead(v, j)'
      BY <2>9, <2>11, <2>13 DEF Moves
    <3>3. thread'[w] # thread[w]
      BY <1>0, <2>9 DEF Moves
    <3>4. \A p \in Requests :
               \/ row'[p].name = row[p].name
               \/ log'.taken = 0 =>
                     /\ Unserved(p)'
                     /\ \A v \in Threads : OnSubmit(v, p) /\ thread[v].at \in NamedAt => thread'[v] # thread[v]
      BY <1>0, <2>8, <3>1, <3>3 DEF Unserved
    <3>5. \A p \in Requests : row[p].pointer # 0 => row'[p].pointer # 0 \/ Unserved(p)'
      BY <2>15
    <3> QED
      BY <1>0, <2>10, <2>14, <2>15, <3>2, <3>4, <3>5, NamesKeeps
  <2>17. Settling'
    <3>0. /\ \A p \in Requests : RunEnds(w, p)'
          /\ \A j \in DOMAIN irpJobs' : FinalizeEnds(w, j)'
      BY <2>11, <2>13 DEF RunEnds, FinalizeEnds
    <3>1. \A v \in Threads :
              \/ thread'[v] = thread[v]
              \/ /\ \A p \in Requests : RunEnds(v, p)'
                 /\ \A j \in DOMAIN irpJobs' : FinalizeEnds(v, j)'
      BY <2>9, <3>0 DEF Moves
    <3>2. \A j \in DOMAIN irpJobs' : Handled(j) => Handled(j)'
      BY <1>0, <2>9 DEF Handled, Marking, Moves, OnSubmit
    <3>3. log'.taken \in Nat /\ log'.taken >= log.taken
      BY <1>0, Types
    <3> QED
      BY <1>0, <2>14, <2>15, <3>1, <3>2, <3>3, SettlingKeeps
  <2> QED
    BY <2>10, <2>13, <2>16, <2>17
<1> QED
  BY <1>5, <1>6

LEMMA ReinspectKeeps ==
    ASSUME Inductive, NEW w \in Threads, Reinspect(w)
    PROVE  Inductive'
<1>. USE DEF Inductive
<1>0. thread[w].at = "inspect" /\ UNCHANGED <<world, heads, request, log, rm, row, irpJobs, spent>>
  BY DEF Reinspect, BodyKeeps
<1>1. thread[w].at \in SubmitAt \ {"record", "mark"} /\ thread[w].at \in WriterAt /\ thread[w].at \in NamedAt
  BY <1>0 DEF SubmitAt, WriterAt, NamedAt
<1>2. PICK q \in Requests : OnSubmit(w, q) /\ Body1(w) = q
  BY <1>1, Working
<1>3. request[q].seen \in Worlds /\ request[q].choice \in Postable /\ thread[w] \in Thread
  <2>1. request[q] \in Dialog /\ thread[w] \in Thread
    BY DEF Typed
  <2> QED
    BY <2>1 DEF Dialog
<1>4. row[q].status # "none" /\ (log.taken = 0 => NameKnown(w, q))
  BY <1>1, <1>2 DEF AllSubmitting, Submitting, NamesKept
<1>. DEFINE seen == Inspect(request[q].seen, Analyses)
            c    == request[q].choice
<1>5. CASE Go(w, "record failure")
  <2>1. "record failure" \in SubmitAt \cup Ended /\ "record failure" \in Places
    BY DEF SubmitAt, Places, WriterAt
  <2>2. Moves(w, "record failure")
    BY <1>5, <2>1, Goes
  <2>3. Typed'
    BY <1>0, <2>2, BodyTyped DEF Typed, Moves
  <2>4. Submitting(w, q)' /\ ViewFair(w, q)' /\ NameKnown(w, q)' /\ RunEnds(w, q)'
    BY <1>0, <1>4, <2>2 DEF Submitting, ViewFair, NameKnown, RunEnds, Moves, NamedAt
  <2> QED
    BY <1>0, <1>1, <1>2, <2>1, <2>2, <2>3, <2>4, PlainBody
<1>6. CASE /\ Fingerprint(Inspect(world, Analyses)) = Fingerprint(seen)
           /\ Inspect(world, Analyses).problems = {} /\ ChoicesResolve(Inspect(world, Analyses), c)
           /\ thread' = [thread EXCEPT ![w].at = "post",
                                       ![w].view = Body(Inspect(world, Analyses), c, PeriodsAsked(seen))]
  <2>1. Inspect(world, Analyses) = seen
    BY <1>6 DEF Fingerprint
  <2>2. thread' = [thread EXCEPT ![w].at = "post", ![w].view = AsSeen(request[q].seen, c)]
    BY <1>6, <2>1 DEF AsSeen
  <2>3. AsSeen(request[q].seen, c) \in Bodies /\ Covers(request[q].seen, AsSeen(request[q].seen, c))
    <3>1. seen.problems = {} /\ ChoicesResolve(seen, c)
      BY <1>6, <2>1
    <3> QED
      BY <1>3, <3>1, ResolvedCovers DEF Bodies
  <2>. DEFINE body == AsSeen(request[q].seen, c)
              t == [thread[w] EXCEPT !.at = "post", !.view = body]
  <2>4. "post" \in Places /\ "post" \in SubmitAt \cup Ended
    BY DEF Places, SubmitAt, NamedAt, WriterAt
  <2>. HIDE DEF body
  <2>5. t \in Thread /\ t.head = thread[w].head /\ t.at = "post" /\ t.view = body /\ t.name = thread[w].name
    BY <1>3, <2>3, <2>4 DEF Thread, body
  <2>6. thread' = [thread EXCEPT ![w] = t]
    BY <2>2 DEF body
  <2>. HIDE DEF t
  <2>7. Moves(w, "post") /\ thread'[w].view = body /\ thread'[w].name = thread[w].name
    BY <2>5, <2>6, Becomes
  <2>8. Typed'
    BY <1>0, <2>7, BodyTyped DEF Typed, Moves
  <2>9. Fair(q, thread[w].view)'
    BY <1>0, <2>3, <2>7 DEF Fair, body
  <2>10. Submitting(w, q)' /\ ViewFair(w, q)' /\ RunEnds(w, q)'
    BY <1>0, <1>4, <2>7, <2>9 DEF Submitting, ViewFair, RunEnds, Moves
  <2>11. log.taken = 0 => NameKnown(w, q)'
    BY <1>0, <1>1, <1>4, <2>7 DEF NameKnown, Moves
  <2> QED
    BY <1>0, <1>1, <1>2, <2>4, <2>7, <2>8, <2>10, <2>11, PlainBody
<1> QED
  BY <1>2, <1>5, <1>6 DEF Reinspect

LEMMA MarkKeeps ==
    ASSUME Inductive, NEW w \in Threads, Mark(w)
    PROVE  Inductive'
<1>. USE DEF Inductive
<1>0. thread[w].at = "mark" /\ UNCHANGED <<world, heads, request, log, rm, irpJobs, spent>>
  BY DEF Mark, BodyKeeps
<1>1. thread[w].at \in SubmitAt \ {"record"}
  BY <1>0 DEF SubmitAt
<1>2. PICK q \in Requests : OnSubmit(w, q) /\ Body1(w) = q
  BY <1>1, Working
<1>3. "failed" \in SubmitAt \cup Ended /\ "failed" \in Places /\ "failed" \notin WriterAt
  BY DEF Ended, Places, WriterAt, NamedAt
<1>4. Go(w, "failed") /\ row' = [row EXCEPT ![q].status = "error"]
  BY <1>2 DEF Mark
<1>5. Moves(w, "failed")
  BY <1>3, <1>4, Goes
<1>6. ~ Unserved(q)
  BY <1>0, <1>2 DEF AllSubmitting, Submitting
<1>. DEFINE r == [row[q] EXCEPT !.status = "error"]
<1>7. row[q] \in GroupRow
  BY DEF Typed
<1>8. r \in GroupRow /\ r.status = "error" /\ r.pointer = row[q].pointer /\ r.name = row[q].name
  BY <1>7 DEF GroupRow
<1>9. row' = [row EXCEPT ![q] = r]
  BY <1>4
<1>. HIDE DEF r
<1>10. row' \in [Requests -> GroupRow] /\ row'[q] = r /\ \A p \in Requests \ {q} : row'[p] = row[p]
  BY <1>8, <1>9, RowSet
<1>11. Typed'
  BY <1>0, <1>5, <1>10, BodyTyped DEF Typed, Moves
<1>12. Submitting(w, q)' /\ ViewFair(w, q)' /\ NameKnown(w, q)' /\ RunEnds(w, q)'
  BY <1>0, <1>5, <1>6 DEF Submitting, ViewFair, NameKnown, RunEnds, Moves, NamedAt, Unserved
<1>13. row'[q].pointer \in 0..Len(rm)
  BY <1>8, <1>10 DEF Keyed
<1>14. /\ Placed' /\ Keyed' /\ JobsKept' /\ AllSubmitting' /\ JobBudget' /\ GroupBudget' /\ SeenKept'
       /\ \A j \in DOMAIN irpJobs' : ~ OnFinalize(w, j)'
       /\ \A p \in Requests : OnSubmit(w, p)' => p = q
  BY <1>0, <1>1, <1>2, <1>3, <1>5, <1>8, <1>10, <1>11, <1>12, <1>13, SubmitKeeps
<1>15. GroupsGrow /\ JobsGrow
  BY <1>0, Unchanging
<1>16. NamesKept'
  <2>1. \A v \in Threads :
            \/ thread'[v] = thread[v]
            \/ log'.taken = 0 =>
                  /\ \A p \in Requests : OnSubmit(v, p)' => NameKnown(v, p)'
                  /\ \A j \in DOMAIN irpJobs' : OnFinalize(v, j)' => NameRead(v, j)'
    BY <1>5, <1>12, <1>14 DEF Moves
  <2>2. \A p \in Requests : row'[p].name = row[p].name /\ row'[p].pointer = row[p].pointer
    BY <1>8, <1>10
  <2>3. log.taken = 0 => Pointed(q)'
    BY <1>0, <1>8, <1>10 DEF Pointed, NamesKept
  <2>4. \A p \in Requests : \/ row'[p].status = row[p].status /\ row'[p].pointer = row[p].pointer
                            \/ log'.taken = 0 => Pointed(p)'
    BY <1>0, <1>10, <2>3
  <2> QED
    BY <1>0, <1>11, <1>15, <2>1, <2>2, <2>4, NamesKeeps
<1>17. Settling'
  <2>1. \A v \in Threads :
            \/ thread'[v] = thread[v]
            \/ /\ \A p \in Requests : RunEnds(v, p)'
               /\ \A j \in DOMAIN irpJobs' : FinalizeEnds(v, j)'
    BY <1>5, <1>12, <1>14 DEF Moves, RunEnds, FinalizeEnds
  <2>2. ASSUME NEW j \in DOMAIN irpJobs'
        PROVE  (j \in DOMAIN irpJobs /\ (Handled(j) => Handled(j)')) \/ JobSettles(j)'
    <3>1. j \in DOMAIN irpJobs /\ irpJobs[j].of \in Requests
      BY <1>0, Types
    <3>2. CASE irpJobs[j].of = q
      BY <1>0, <1>8, <1>10, <3>2 DEF JobSettles
    <3>3. CASE irpJobs[j].of # q
      <4>1. Marking(irpJobs[j].of) => Marking(irpJobs[j].of)'
        <5>1. ~ OnSubmit(w, irpJobs[j].of)
          BY <1>2, <3>1, <3>3, HeadFacts DEF OnSubmit
        <5>2. ASSUME NEW v \in Threads, OnSubmit(v, irpJobs[j].of), thread[v].at = "mark"
              PROVE  Marking(irpJobs[j].of)'
          <6>1. thread'[v] = thread[v] /\ irpJobs' = irpJobs
            BY <1>0, <1>5, <5>1, <5>2 DEF Moves
          <6> QED
            BY <5>2, <6>1 DEF Marking, OnSubmit
        <5> QED
          BY <5>2 DEF Marking
      <4> QED
        BY <1>0, <3>1, <4>1 DEF Handled
    <3> QED
      BY <3>2, <3>3
  <2>3. log'.taken \in Nat /\ log'.taken >= log.taken
    BY <1>0, Types
  <2>4. \A p \in Requests : \/ row'[p].status = row[p].status
                            \/ row'[p].status = "error" /\ ~ Unserved(p)'
    <3>1. row'[q].status = "error" /\ ~ Unserved(q)'
      BY <1>0, <1>6, <1>8, <1>10 DEF Unserved
    <3> QED
      BY <1>10, <3>1
  <2> QED
    BY <1>0, <1>15, <2>1, <2>2, <2>3, <2>4, SettlingKeeps
<1> QED
  BY <1>11, <1>14, <1>16, <1>17

LEMMA FinalizeHead ==
    ASSUME Typed, Keyed, NEW w \in Threads, NEW j \in Nat, OnFinalize(w, j)
    PROVE  j \in DOMAIN irpJobs /\ irpJobs[j].status = "FINISHED" /\ j \in 1..MaxJobs
<1>1. thread[w].head \in Heads \cup {None}
  BY DEF Typed, Thread
<1>2. thread[w].head # None
  <2>1. Finalize(j) # None
    BY AnalysisGroupingAssumption DEF Finalize
  <2> QED
    BY <2>1 DEF OnFinalize
<1>3. PICK i \in 1..MaxJobs : Finalize(j) = Finalize(i)
  BY <1>1, <1>2, HeadFacts DEF OnFinalize
<1>4. i \in Nat
  BY ConstantFacts
<1>5. i = j
  BY <1>3, <1>4, HeadFacts
<1> QED
  BY <1>2, <1>3, <1>5 DEF Keyed, OnFinalize

\* Where a POST leads to.
Failure == "record failure"
PostAt  == {"record", Failure}

\* n groups more, all for the request of thread w; of them k are in doubt.
PostedGroup(w, q) ==
    [of |-> q, name |-> thread[w].name, body |-> thread[w].view, state |-> "running"]
Posts(w, q, n, at, k) ==
    /\ rm' \in Seq(Group) /\ Len(rm') = Len(rm) + n
    /\ \A i \in 1..Len(rm) : rm'[i] = rm[i]
    /\ \A i \in Len(rm) + 1..Len(rm) + n : rm'[i] = PostedGroup(w, q)
    /\ Moves(w, at) /\ thread'[w].name \in Seq(Nat)
    /\ at = "record" => /\ n > 0 /\ n <= k + 1
                        /\ thread'[w].got = Len(rm) + n /\ thread'[w].name = thread[w].name
    /\ at # "record" => n <= k
    /\ log' \in Log /\ log'.taken = log.taken /\ log'.unmarked = log.unmarked
    /\ log'.doubt = log.doubt + k
    /\ spent' \in Budget
    /\ \/ spent' = spent
       \/ spent'.faults <= MaxFaults /\ spent'.faults >= spent.faults

\* What the fault of a lost answer, and a POST, do to the state.
LEMMA UnheardEffect ==
    ASSUME Typed, Unheard
    PROVE  /\ log' \in Log /\ log'.taken = log.taken /\ log'.unmarked = log.unmarked
           /\ log'.doubt = log.doubt + 1
           /\ spent' \in Budget /\ spent'.faults <= MaxFaults /\ spent'.faults >= spent.faults
<1>1. log \in Log /\ log' = [log EXCEPT !.doubt = @ + 1]
  BY DEF Typed, Unheard
<1>2. spent \in Budget /\ spent' = [spent EXCEPT !["faults"] = @ + 1] /\ spent.faults < MaxFaults
  BY DEF Typed, Unheard, Spend
<1>3. MaxFaults \in Nat
  BY ConstantFacts
<1>4. /\ log' \in Log /\ log'.taken = log.taken /\ log'.unmarked = log.unmarked
      /\ log'.doubt = log.doubt + 1
  BY <1>1 DEF Log
<1>5. spent' \in Budget /\ spent'.faults <= MaxFaults /\ spent'.faults >= spent.faults
  BY <1>2, <1>3 DEF Budget
<1> QED
  BY <1>4, <1>5

LEMMA PostEffect ==
    ASSUME Typed, NEW w \in Threads, NEW q \in Requests, Post(w), Body1(w) = q,
           PostedGroup(w, q) \in Group
    PROVE  \E n \in 0..2, at \in PostAt, k \in 0..1 : Posts(w, q, n, at, k)
<1>. DEFINE e == PostedGroup(w, q)
<1>1. PICK n \in 0..2 :
          /\ Groups(w, n)
          /\ \/ /\ n > 0 /\ thread' = [thread EXCEPT ![w].at = "record", ![w].got = Len(rm) + n,
                                                    ![w].view = << >>]
                /\ IF n = 1 THEN UNCHANGED <<spent, log>> ELSE Unheard
             \/ /\ n < 2 /\ Go(w, Failure)
                /\ IF n = 0 THEN UNCHANGED <<spent, log>> ELSE Unheard
  BY DEF Post, Failure
<1>2. rm \in Seq(Group) /\ Len(rm) \in Nat /\ n \in Nat /\ log.doubt \in Nat
  BY Types
<1>3. rm' = rm \o [i \in 1..n |-> e]
  BY <1>1 DEF Groups, PostedGroup
<1>. HIDE DEF e
<1>4. /\ rm' \in Seq(Group) /\ Len(rm') = Len(rm) + n
      /\ \A i \in 1..Len(rm) : rm'[i] = rm[i]
      /\ \A i \in Len(rm) + 1..Len(rm) + n : rm'[i] = PostedGroup(w, q)
  <2>1. e \in Group
    BY DEF e
  <2>2. LET t == rm \o [i \in 1..n |-> e] IN
           /\ t \in Seq(Group) /\ Len(t) = Len(rm) + n
           /\ \A i \in 1..Len(rm) : t[i] = rm[i]
           /\ \A i \in Len(rm) + 1..Len(rm) + n : t[i] = e
    BY <1>2, <2>1, Extended
  <2> QED
    BY <1>3, <2>2 DEF e
<1>5. thread[w] \in Thread /\ log \in Log /\ spent \in Budget
  BY DEF Typed
<1>6. ASSUME UNCHANGED <<spent, log>>
      PROVE  /\ log' \in Log /\ log'.taken = log.taken /\ log'.unmarked = log.unmarked
             /\ log'.doubt = log.doubt + 0
             /\ spent' \in Budget /\ spent' = spent
  BY <1>2, <1>5, <1>6
<1>7. CASE n > 0 /\ thread' = [thread EXCEPT ![w].at = "record", ![w].got = Len(rm) + n,
                                             ![w].view = << >>]
                 /\ IF n = 1 THEN UNCHANGED <<spent, log>> ELSE Unheard
  <2>. DEFINE m == Len(rm) + n
              t == [thread[w] EXCEPT !.at = "record", !.got = m, !.view = << >>]
  <2>0. m \in Nat
    BY <1>2
  <2>1. "record" \in Places /\ "record" \in PostAt
    BY DEF Places, SubmitAt, WriterAt, NamedAt, PostAt
  <2>3. thread' = [thread EXCEPT ![w] = t]
    BY <1>7
  <2>. HIDE DEF m
  <2>2. /\ t \in Thread /\ t.head = thread[w].head /\ t.at = "record" /\ t.got = m
        /\ t.name = thread[w].name /\ t.name \in Seq(Nat)
    BY <1>5, <2>0, <2>1 DEF Thread
  <2>. HIDE DEF t
  <2>4. Moves(w, "record") /\ thread'[w] = t
    BY <2>2, <2>3, Becomes
  <2>7. /\ Moves(w, "record") /\ thread'[w].name \in Seq(Nat) /\ n > 0
        /\ thread'[w].got = Len(rm) + n /\ thread'[w].name = thread[w].name
    BY <1>7, <2>2, <2>4 DEF m
  <2>5. CASE n = 1
    <3>1. Posts(w, q, n, "record", 0)
      BY <1>4, <1>6, <1>7, <2>5, <2>7 DEF Posts
    <3> QED
      BY <2>1, <3>1
  <2>6. CASE n # 1
    <3>1. n = 2 /\ Unheard
      BY <1>7, <2>6
    <3>2. Posts(w, q, n, "record", 1)
      BY <1>4, <2>7, <3>1, UnheardEffect DEF Posts
    <3> QED
      BY <2>1, <3>2
  <2> QED
    BY <2>5, <2>6
<1>8. CASE n < 2 /\ Go(w, Failure) /\ IF n = 0 THEN UNCHANGED <<spent, log>> ELSE Unheard
  <2>1. Failure \in Places
    BY DEF Places, SubmitAt, WriterAt, Failure
  <2>2. Moves(w, Failure)
    BY <1>8, <2>1, Goes
  <2>3. thread'[w].name \in Seq(Nat)
    BY <2>2 DEF Moves, Thread
  <2>. Failure \in PostAt /\ Failure # "record"
    BY DEF PostAt, Failure
  <2>4. CASE n = 0
    BY <1>4, <1>6, <1>8, <2>2, <2>3, <2>4 DEF Posts
  <2>5. CASE n # 0
    <3>1. n = 1 /\ Unheard
      BY <1>8, <2>5
    <3> QED
      BY <1>4, <2>2, <2>3, <3>1, UnheardEffect DEF Posts
  <2> QED
    BY <2>4, <2>5
<1> QED
  BY <1>1, <1>7, <1>8

LEMMA PostKeeps ==
    ASSUME Inductive, NEW w \in Threads, Post(w)
    PROVE  Inductive'
<1>. USE DEF Inductive
<1>0. thread[w].at = "post" /\ UNCHANGED <<world, heads, request, row, irpJobs>>
  BY DEF Post
<1>1. thread[w].at \in SubmitAt /\ thread[w].at \in WriterAt /\ thread[w].at \in NamedAt
  BY <1>0 DEF SubmitAt, WriterAt, NamedAt
<1>2. PICK q \in Requests : OnSubmit(w, q) /\ Body1(w) = q
  BY <1>1, Working
<1>3. Fair(q, thread[w].view) /\ request[q].at = "posted"
  <2>1. heads[Submit(q)] # "absent"
    BY <1>2, HeadFacts DEF Keyed, OnSubmit
  <2> QED
    BY <1>0, <1>2, <2>1 DEF SeenKept, ViewFair, Keyed
<1>4. PostedGroup(w, q) \in Group
  <2>1. request[q] \in Dialog /\ thread[w] \in Thread
    BY DEF Typed
  <2>2. thread[w].name \in Seq(Nat) /\ request[q].seen \in Worlds /\ request[q].choice \in Postable
    BY <2>1 DEF Dialog, Thread
  <2>3. thread[w].view \in Bodies
    BY <1>3, <2>2 DEF Fair, Bodies
  <2> QED
    BY <2>2, <2>3 DEF PostedGroup, Group
<1>5. PICK n \in 0..2, at \in PostAt, k \in 0..1 : Posts(w, q, n, at, k)
  BY <1>0, <1>2, <1>4, PostEffect
<1>6. Moves(w, at) /\ n \in Nat /\ k \in Nat /\ Len(rm) \in Nat
  BY <1>5, Types DEF Posts
<1>7. Typed'
  BY <1>0, <1>5, BodyTyped DEF Typed, Posts, Moves
<1>8. GroupsGrow /\ JobsGrow
  <2>1. Len(rm) <= Len(rm')
    BY <1>5, <1>6 DEF Posts
  <2> QED
    BY <1>0, <1>5, <2>1, Unchanging DEF GroupsGrow, Posts
<1>9. \A v \in Threads : thread'[v].head = thread[v].head
  BY <1>6 DEF Moves
<1>10. \A p \in Requests : (OnSubmit(w, p)' => p = q) /\ (OnSubmit(w, p) => p = q)
  BY <1>2, <1>9, HeadFacts DEF OnSubmit
<1>11. \A j \in DOMAIN irpJobs' : ~ OnFinalize(w, j)'
  BY <1>0, <1>2, <1>9, Types, HeadFacts DEF OnFinalize, OnSubmit
<1>12. /\ at \in Places \ {"idle"} /\ at \in SubmitAt /\ at \notin FinalizeAt /\ at \in WriterAt
       /\ at \in NamedAt => at = "record"
       /\ at \notin {"post", "mark", "succeeded", "failed"}
  BY DEF Places, SubmitAt, WriterAt, NamedAt, FinalizeAt, PostAt, Failure
<1>13. Placed'
  BY <1>0, <1>1, <1>6, <1>8, <1>12, BodyPlaced
<1>14. Keyed'
  <2>1. ASSUME NEW p \in Requests
        PROVE  /\ row'[p].pointer \in 0..Len(rm')
               /\ ~ Unserved(p)' => row'[p].status # "none"
               /\ row'[p].status # "none" => heads[Submit(p)] # "absent"
    <3>1. row[p].pointer \in 0..Len(rm) /\ Len(rm') = Len(rm) + n
      BY <1>5 DEF Keyed, Posts
    <3>2. row[p].pointer \in 0..Len(rm')
      BY <1>6, <3>1
    <3>3. (~ Unserved(p)' => row[p].status # "none") /\ (row[p].status # "none" => heads[Submit(p)] # "absent")
      BY <1>0 DEF Keyed, Unserved
    <3> QED
      BY <1>0, <3>2, <3>3
  <2> QED
    BY <1>0, <1>8, <1>9, <2>1, BodyKeyed
<1>15. JobsKept'
  BY <1>0, <1>7, <1>8, JobsKeptKeeps
<1>16. row[q].status # "none" /\ (log.taken = 0 => NameKnown(w, q))
  BY <1>1, <1>2 DEF AllSubmitting, Submitting, NamesKept
<1>17. at = "record" => /\ thread'[w].got \in 1..Len(rm') /\ rm'[thread'[w].got] = PostedGroup(w, q)
                        /\ thread'[w].name = thread[w].name
  <2>1. SUFFICES ASSUME at = "record"
                 PROVE  /\ thread'[w].got \in 1..Len(rm') /\ rm'[thread'[w].got] = PostedGroup(w, q)
                        /\ thread'[w].name = thread[w].name
    OBVIOUS
  <2>2. n > 0 /\ thread'[w].got = Len(rm) + n /\ Len(rm') = Len(rm) + n /\ thread'[w].name = thread[w].name
    BY <1>5, <2>1 DEF Posts
  <2>3. thread'[w].got \in 1..Len(rm') /\ thread'[w].got \in Len(rm) + 1..Len(rm) + n
    BY <1>6, <2>2
  <2> QED
    BY <1>5, <2>2, <2>3 DEF Posts
<1>18. AllSubmitting'
  <2>0. /\ row'[q].status # "none" /\ thread'[w].at \notin {"succeeded", "mark"}
        /\ thread'[w].at = "record" => thread'[w].got \in 1..Len(rm') /\ rm'[thread'[w].got].of = q
    BY <1>0, <1>6, <1>12, <1>16, <1>17 DEF Moves, PostedGroup
  <2>1. Submitting(w, q)'
    BY <2>0, Zenon DEF Submitting
  <2> QED
    BY <1>0, <1>6, <1>8, <1>10, <2>1, SubmittingKeeps, Unchanging DEF Moves
<1>19. JobBudget'
  <2>1. \A v \in Threads, p \in Requests :
            /\ OnSubmit(v, p)' <=> OnSubmit(v, p)
            /\ OnSubmit(v, p) /\ thread'[v].at \in WriterAt => thread[v].at \in WriterAt \/ Unserved(p)
    BY <1>1, <1>6, <1>9 DEF Moves, OnSubmit
  <2>2. log'.taken >= log.taken
    BY <1>5, Types DEF Posts
  <2> QED
    BY <1>0, <1>7, <2>1, <2>2, JobBudgetKeeps
<1>20. GroupBudget'
  <2>0. SUFFICES ASSUME NEW p \in Requests
                 PROVE  Cardinality(GroupsOf(p)') <= Cardinality(RecordedOf(p)') + Cardinality(RecordingOf(p)')
                                                         + log'.doubt
    BY DEF GroupBudget
  <2>1. Cardinality(GroupsOf(p)) <= Cardinality(RecordedOf(p)) + Cardinality(RecordingOf(p)) + log.doubt
    BY DEF GroupBudget
  <2>2. RecordedOf(p)' = RecordedOf(p) /\ log'.doubt = log.doubt + k
    BY <1>0, <1>5 DEF RecordedOf, Posts
  <2>3. RecordingOf(p) \subseteq RecordingOf(p)'
    BY <1>0, <1>6 DEF RecordingOf, Moves, OnSubmit
  <2>4. Cardinality(RecordingOf(p)) <= Cardinality(RecordingOf(p)')
    BY <1>7, <2>3, NextGroupSizes, NoMore
  <2>5. DOMAIN rm = 1..Len(rm) /\ DOMAIN rm' = 1..Len(rm) + n
    BY <1>5, <1>7, Types, NextTypes DEF Posts
  <2>. DEFINE c == Cardinality(RecordedOf(p))
  <2>8. /\ Cardinality(GroupsOf(p)) <= c + Cardinality(RecordingOf(p)) + log.doubt
        /\ Cardinality(RecordedOf(p)') = c /\ log'.doubt = log.doubt + k /\ c \in Nat
        /\ Cardinality(GroupsOf(p)) \in Nat /\ Cardinality(GroupsOf(p)') \in Nat
        /\ Cardinality(RecordingOf(p)) \in Nat /\ Cardinality(RecordingOf(p)') \in Nat
        /\ log.doubt \in Nat
    BY <1>7, <2>1, <2>2, GroupSizes, NextGroupSizes
  <2>. HIDE DEF c
  <2>6. CASE p # q
    <3>1. ASSUME NEW g \in GroupsOf(p)' PROVE g \in GroupsOf(p)
      <4>1. g \in 1..Len(rm) + n /\ rm'[g].of = p
        BY <2>5 DEF GroupsOf
      <4>2. g \in 1..Len(rm) \/ g \in Len(rm) + 1..Len(rm) + n
        BY <1>6, <4>1
      <4>3. g \in 1..Len(rm)
        BY <1>5, <2>6, <4>1, <4>2 DEF Posts, PostedGroup
      <4> QED
        BY <1>5, <2>5, <4>1, <4>3 DEF Posts, GroupsOf
    <3>2. Cardinality(GroupsOf(p)') <= Cardinality(GroupsOf(p))
      BY <3>1, GroupSizes, NoMore
    <3> QED
      BY <1>6, <2>4, <2>8, <3>2
  <2>7. CASE p = q
    <3>. DEFINE one == GroupsOf(p) \cup {Len(rm) + 1}
    <3>1. ASSUME NEW g \in GroupsOf(p)'
          PROVE  \/ g \in GroupsOf(p)
                 \/ n >= 1 /\ g = Len(rm) + 1
                 \/ n = 2 /\ g = Len(rm) + 2
      <4>1. g \in 1..Len(rm) + n /\ rm'[g].of = p
        BY <2>5 DEF GroupsOf
      <4>2. CASE g \in 1..Len(rm)
        BY <1>5, <2>5, <4>1, <4>2 DEF Posts, GroupsOf
      <4>3. CASE g \notin 1..Len(rm)
        BY <1>6, <4>1, <4>3
      <4> QED
        BY <4>2, <4>3
    <3>2. Cardinality(GroupsOf(p)') <= Cardinality(GroupsOf(p)) + n
      <4>0. IsFiniteSet(GroupsOf(p)) /\ Cardinality(GroupsOf(p)) \in Nat /\ Cardinality(GroupsOf(p)') \in Nat
        BY <1>7, GroupSizes, NextGroupSizes
      <4>1. IsFiniteSet(one) /\ Cardinality(one) <= Cardinality(GroupsOf(p)) + 1 /\ Cardinality(one) \in Nat
        BY <4>0, AtMostOneMore, FS_AddElement, FS_CardinalityType
      <4>2. CASE n = 0
        BY <3>1, <4>0, <4>2, NoMore
      <4>3. CASE n = 1
        <5>1. GroupsOf(p)' \subseteq one
          BY <3>1, <4>3
        <5>. HIDE DEF one
        <5>2. Cardinality(GroupsOf(p)') <= Cardinality(one)
          BY <4>1, <5>1, NoMore
        <5> QED
          BY <4>0, <4>1, <4>3, <5>2
      <4>4. CASE n = 2
        <5>1. GroupsOf(p)' \subseteq one \cup {Len(rm) + 2}
          BY <3>1, <4>4
        <5>. HIDE DEF one
        <5>2. Cardinality(GroupsOf(p)') <= Cardinality(one) + 1
          BY <4>1, <5>1, AtMostOneMore
        <5> QED
          BY <4>0, <4>1, <4>4, <5>2
      <4> QED
        BY <4>2, <4>3, <4>4
    <3>3. CASE at = "record"
      <4>1. w \notin RecordingOf(p) /\ RecordingOf(p)' = RecordingOf(p) \cup {w}
        BY <1>0, <1>2, <1>6, <1>9, <2>7, <3>3 DEF RecordingOf, Moves, OnSubmit
      <4>2. Cardinality(RecordingOf(p)') = Cardinality(RecordingOf(p)) + 1
        BY <4>1, GroupSizes, OneMore
      <4>3. n <= k + 1
        BY <1>5, <3>3 DEF Posts
      <4> QED
        BY SMTT(60), <1>6, <2>8, <3>2, <4>2, <4>3
    <3>4. CASE at # "record"
      <4>1. n <= k
        BY <1>5, <3>4 DEF Posts
      <4> QED
        BY <1>6, <2>4, <2>8, <3>2, <4>1
    <3> QED
      BY <3>3, <3>4
  <2> QED
    BY <2>6, <2>7
<1>21. NamesKept'
  <2>1. log'.taken = log.taken
    BY <1>5 DEF Posts
  <2>2. log.taken = 0 => NameKnown(w, q)'
    BY <1>0, <1>1, <1>6, <1>12, <1>16, <1>17 DEF NameKnown, Moves, PostedGroup, NamedAt
  <2>3. \A v \in Threads :
            \/ thread'[v] = thread[v]
            \/ log'.taken = 0 =>
                  /\ \A p \in Requests : OnSubmit(v, p)' => NameKnown(v, p)'
                  /\ \A j \in DOMAIN irpJobs' : OnFinalize(v, j)' => NameRead(v, j)'
    BY <1>6, <1>10, <1>11, <2>1, <2>2 DEF Moves
  <2> QED
    BY <1>0, <1>7, <1>8, <2>1, <2>3, NamesKeeps
<1>22. Settling'
  <2>1. \A v \in Threads :
            \/ thread'[v] = thread[v]
            \/ /\ \A p \in Requests : RunEnds(v, p)'
               /\ \A j \in DOMAIN irpJobs' : FinalizeEnds(v, j)'
    BY <1>6, <1>11, <1>12 DEF Moves, RunEnds, FinalizeEnds
  <2>2. \A j \in DOMAIN irpJobs' : Handled(j) => Handled(j)'
    BY <1>0, <1>6 DEF Handled, Marking, Moves, OnSubmit
  <2>3. /\ log'.taken = log.taken /\ log'.taken \in Nat /\ log'.taken >= log.taken
        /\ log'.unmarked = log.unmarked
    BY <1>5, Types DEF Posts
  <2> QED
    BY <1>0, <1>8, <2>1, <2>2, <2>3, SettlingKeeps
<1>23. SeenKept'
  <2>1. \A p \in Requests : ViewFair(w, p)'
    BY <1>6, <1>12 DEF ViewFair, Moves
  <2>2. ASSUME NEW g \in DOMAIN rm', g \notin DOMAIN rm PROVE GroupFair(g)'
    <3>1. g \in 1..Len(rm) + n /\ g \notin 1..Len(rm)
      BY <1>5, <1>7, <2>2, Types, NextTypes DEF Posts
    <3>2. g \in Len(rm) + 1..Len(rm) + n
      BY <1>6, <3>1
    <3>3. rm'[g] = PostedGroup(w, q)
      BY <1>5, <3>2 DEF Posts
    <3>4. rm'[g].of = q /\ rm'[g].body = thread[w].view
      BY <3>3 DEF PostedGroup
    <3> QED
      BY <1>0, <1>3, <3>4 DEF GroupFair, Fair
  <2> QED
    BY <1>0, <1>6, <1>8, <2>1, <2>2, SeenKeeps, Types DEF Moves
<1> QED
  BY <1>7, <1>13, <1>14, <1>15, <1>18, <1>19, <1>20, <1>21, <1>22, <1>23

LEMMA Sums ==
    ASSUME NEW a \in Nat, NEW b \in Nat, NEW c \in Nat, NEW d \in Nat, NEW t \in Nat,
           NEW a1 \in Nat, NEW b1 \in Nat, NEW c1 \in Nat, NEW d1 \in Nat, NEW t1 \in Nat,
           a + b + c <= d + t, a1 <= a + 1, b1 + 1 <= b, c1 <= c, d <= d1, t1 >= t
    PROVE  a1 + b1 + c1 <= d1 + t1
OBVIOUS

\* A job more, for the request of thread w.
Refused == "SUBMISSION FAILED"
RecordedJob(q, g, st) == [of |-> q, group |-> g, status |-> st]

LEMMA RecordKeeps ==
    ASSUME Inductive, NEW w \in Threads, Record(w)
    PROVE  Inductive'
<1>. USE DEF Inductive
<1>0. thread[w].at \in {"record", Failure} /\ UNCHANGED <<world, heads, request, log, rm, row, spent>>
  BY DEF Record, BodyKeeps, Failure
<1>25. \/ thread[w].at = "record" /\ AddJob(Body1(w), thread[w].got, "QUEUED") /\ Go(w, "succeeded")
       \/ thread[w].at = Failure /\ AddJob(Body1(w), 0, Refused) /\ Go(w, "mark")
  BY DEF Record, BodyKeeps, Failure, Refused
<1>1. thread[w].at \in SubmitAt /\ thread[w].at \in WriterAt /\ thread[w].at \notin {"idle", "mark"}
  BY <1>0 DEF SubmitAt, WriterAt, NamedAt, Failure
<1>2. PICK q \in Requests : OnSubmit(w, q) /\ Body1(w) = q
  BY <1>1, Working
<1>3. Submitting(w, q) /\ row[q].status # "none"
  BY <1>0, <1>2 DEF AllSubmitting, Submitting, NamedAt, Failure
<1>4. \E g \in 0..Len(rm), st \in JobStatus, at \in {"succeeded", "mark"} :
          /\ irpJobs' = Append(irpJobs, RecordedJob(q, g, st)) /\ Moves(w, at)
          /\ at = "succeeded" => /\ thread[w].at = "record" /\ st = "QUEUED" /\ g # 0 /\ rm[g].of = q
                                 /\ g = thread[w].got
          /\ at = "mark" => thread[w].at # "record" /\ st = Refused /\ g = 0
  <2>1. CASE thread[w].at = "record" /\ AddJob(Body1(w), thread[w].got, "QUEUED") /\ Go(w, "succeeded")
    <3>1. Moves(w, "succeeded")
      BY <2>1, Goes DEF Places, Ended
    <3>2. thread[w].got \in 1..Len(rm) /\ rm[thread[w].got].of = q
      BY <1>3, <2>1 DEF Submitting
    <3>3. thread[w].got \in 0..Len(rm) /\ thread[w].got # 0 /\ Len(rm) \in Nat
      BY <3>2, Types
    <3>4. irpJobs' = Append(irpJobs, RecordedJob(q, thread[w].got, "QUEUED")) /\ "QUEUED" \in JobStatus
      BY <1>2, <2>1 DEF AddJob, RecordedJob, JobStatus
    <3> QED
      BY <2>1, <3>1, <3>2, <3>3, <3>4
  <2>2. CASE thread[w].at = Failure /\ AddJob(Body1(w), 0, Refused) /\ Go(w, "mark")
    <3>1. Moves(w, "mark") /\ thread[w].at # "record"
      BY <2>2, Goes DEF Places, SubmitAt, Failure
    <3>2. 0 \in 0..Len(rm)
      BY Types
    <3>3. irpJobs' = Append(irpJobs, RecordedJob(q, 0, Refused)) /\ Refused \in JobStatus
      BY <1>2, <2>2 DEF AddJob, RecordedJob, JobStatus, Refused
    <3> QED
      BY <3>1, <3>2, <3>3
  <2> QED
    BY <1>25, <2>1, <2>2
<1>5. PICK g \in 0..Len(rm), st \in JobStatus, at \in {"succeeded", "mark"} :
          /\ irpJobs' = Append(irpJobs, RecordedJob(q, g, st)) /\ Moves(w, at)
          /\ at = "succeeded" => /\ thread[w].at = "record" /\ st = "QUEUED" /\ g # 0 /\ rm[g].of = q
                                 /\ g = thread[w].got
          /\ at = "mark" => thread[w].at # "record" /\ st = Refused /\ g = 0
  BY <1>4
<1>. DEFINE e == RecordedJob(q, g, st)
<1>26. PICK new \in Nat : new = Len(irpJobs) + 1
  BY Types
<1>6. e \in Job /\ e.of = q /\ e.group = g /\ e.status = st
  BY Types DEF RecordedJob, Job
<1>7. /\ irpJobs \in Seq(Job) /\ Len(irpJobs) \in Nat /\ DOMAIN irpJobs = 1..Len(irpJobs)
      /\ irpJobs' = Append(irpJobs, e)
  BY <1>5, Types
<1>. HIDE DEF e
<1>8. /\ irpJobs' \in Seq(Job) /\ DOMAIN irpJobs' = DOMAIN irpJobs \cup {new} /\ new \notin DOMAIN irpJobs
      /\ irpJobs'[new] = e /\ \A j \in DOMAIN irpJobs : irpJobs'[j] = irpJobs[j]
  BY <1>6, <1>7, <1>26
<1>9. Typed'
  BY <1>0, <1>5, <1>8, BodyTyped DEF Typed, Moves
<1>10. GroupsGrow /\ JobsGrow /\ RowsStay
  BY <1>0, <1>8, Unchanging DEF JobsGrow
<1>11. \A v \in Threads : thread'[v].head = thread[v].head
  BY <1>5 DEF Moves
<1>12. \A p \in Requests : (OnSubmit(w, p)' => p = q) /\ (OnSubmit(w, p) => p = q)
  BY <1>2, <1>11, HeadFacts DEF OnSubmit
<1>13. OnSubmit(w, q)' /\ \A j \in DOMAIN irpJobs' : ~ OnFinalize(w, j)'
  <2>1. \A j \in DOMAIN irpJobs' : j \in Nat
    BY <1>9, NextTypes
  <2> QED
    BY <1>2, <1>11, <2>1, HeadFacts DEF OnFinalize, OnSubmit
<1>14. Placed'
  <2>1. at \in Places \ {"idle"} /\ at \notin FinalizeAt
    BY DEF Places, SubmitAt, Ended, FinalizeAt
  <2> QED
    BY <1>1, <1>5, <1>10, <2>1, BodyPlaced
<1>15. \A p \in Requests : p # q => (Unserved(p)' <=> Unserved(p))
  BY <1>6, <1>8 DEF Unserved
<1>16. ~ Unserved(q)' /\ \A p \in Requests : Unserved(p)' => Unserved(p)
  BY <1>6, <1>8 DEF Unserved
<1>17. Keyed'
  <2>1. ASSUME NEW p \in Requests
        PROVE  /\ row'[p].pointer \in 0..Len(rm')
               /\ ~ Unserved(p)' => row'[p].status # "none"
               /\ row'[p].status # "none" => heads[Submit(p)] # "absent"
    BY <1>0, <1>3, <1>15 DEF Keyed
  <2>2. \A j \in DOMAIN irpJobs : irpJobs[j].status = "FINISHED" => irpJobs'[j].status = "FINISHED"
    BY <1>8
  <2> QED
    BY <1>0, <1>10, <1>11, <2>1, <2>2, BodyKeyed
<1>18. JobsKept'
  <2>1. /\ irpJobs'[new].group \in 0..Len(rm')
        /\ irpJobs'[new].status # Refused =>
              irpJobs'[new].group # 0 /\ rm'[irpJobs'[new].group].of = irpJobs'[new].of
        /\ irpJobs'[new].status # "FINISHED"
    <3>1. Refused # "FINISHED"
      BY DEF Refused
    <3> QED
      BY <1>0, <1>5, <1>6, <1>8, <3>1
  <2>2. JobKept(new)'
    BY <2>1, Zenon DEF JobKept, Refused
  <2>3. \A j \in DOMAIN irpJobs' : \/ j \in DOMAIN irpJobs /\ irpJobs'[j].status = irpJobs[j].status
                                   \/ JobKept(j)'
    BY <1>8, <2>2
  <2> QED
    BY <1>9, <1>10, <2>3, JobsKeptKeeps
<1>19. AllSubmitting'
  <2>1. Submitting(w, q)'
    BY <1>0, <1>3, <1>5, <1>16 DEF Submitting, Moves
  <2> QED
    BY <1>5, <1>10, <1>12, <2>1, SubmittingKeeps DEF Moves
<1>20. JobBudget'
  <2>0. SUFFICES ASSUME NEW Q \in SUBSET Requests PROVE JobTotal(Q)'
    BY DEF JobBudget, JobTotal
  <2>1. /\ \A v \in Threads, p \in Requests : OnSubmit(v, p)' <=> OnSubmit(v, p)
        /\ \A p \in Requests : Attended(p)' <=> Attended(p)
    BY <1>11 DEF OnSubmit, Attended
  <2>2. LooseOf(Q)' \subseteq LooseOf(Q)
    BY <1>0, <1>16, <2>1 DEF LooseOf
  <2>3. ServedOf(Q) \subseteq ServedOf(Q)'
    BY <1>16, <2>1 DEF ServedOf
  <2>4. w \notin StaffOf(Q)'
    <3>1. thread'[w].at \notin WriterAt
      BY <1>5 DEF Moves, WriterAt, NamedAt
    <3> QED
      BY <1>12, <1>16, <3>1 DEF StaffOf
  <2>5. StaffOf(Q)' \subseteq StaffOf(Q)
    BY <1>5, <1>16, <2>1, <2>4 DEF StaffOf, Moves
  <2>6. log'.taken >= log.taken
    BY <1>0, Types
  <2>7. CASE q \notin Q
    <3>1. JobsOf(Q)' \subseteq JobsOf(Q)
      BY <1>6, <1>8, <2>7 DEF JobsOf
    <3> QED
      BY <1>9, <2>2, <2>3, <2>5, <2>6, <3>1, TotalKeeps
  <2>8. CASE q \in Q
    <3>1. JobsOf(Q)' \subseteq JobsOf(Q) \cup {new}
      BY <1>8 DEF JobsOf
    <3>2. w \in StaffOf(Q) /\ StaffOf(Q)' \subseteq StaffOf(Q) \ {w}
      BY <1>1, <1>2, <2>4, <2>5, <2>8 DEF StaffOf
    <3>3. /\ Cardinality(JobsOf(Q)') <= Cardinality(JobsOf(Q)) + 1
          /\ Cardinality(StaffOf(Q)') + 1 <= Cardinality(StaffOf(Q))
          /\ Cardinality(LooseOf(Q)') <= Cardinality(LooseOf(Q))
          /\ Cardinality(ServedOf(Q)) <= Cardinality(ServedOf(Q)')
      BY <1>9, <2>2, <2>3, <3>1, <3>2, Sizes, NextSizes, AtMostOneMore, OneLess, NoMore
    <3>4. JobTotal(Q)
      BY DEF JobBudget, JobTotal
    <3>5. /\ Cardinality(JobsOf(Q)) \in Nat /\ Cardinality(JobsOf(Q)') \in Nat
          /\ Cardinality(StaffOf(Q)) \in Nat /\ Cardinality(StaffOf(Q)') \in Nat
          /\ Cardinality(LooseOf(Q)) \in Nat /\ Cardinality(LooseOf(Q)') \in Nat
          /\ Cardinality(ServedOf(Q)) \in Nat /\ Cardinality(ServedOf(Q)') \in Nat
          /\ log.taken \in Nat /\ log'.taken \in Nat
      BY <1>9, Sizes, NextSizes
    <3>6. Cardinality(JobsOf(Q)) + Cardinality(StaffOf(Q)) + Cardinality(LooseOf(Q))
              <= Cardinality(ServedOf(Q)) + log.taken
      BY <3>4 DEF JobTotal
    <3>7. Cardinality(JobsOf(Q)') + Cardinality(StaffOf(Q)') + Cardinality(LooseOf(Q)')
              <= Cardinality(ServedOf(Q)') + log'.taken
      BY ZenonT(60), <2>6, <3>3, <3>5, <3>6, Sums
    <3> QED
      BY <3>7 DEF JobTotal
  <2> QED
    BY <2>7, <2>8
<1>21. GroupBudget'
  <2>0. SUFFICES ASSUME NEW p \in Requests
                 PROVE  Cardinality(GroupsOf(p)') <= Cardinality(RecordedOf(p)') + Cardinality(RecordingOf(p)')
                                                         + log'.doubt
    BY DEF GroupBudget
  <2>1. Cardinality(GroupsOf(p)) <= Cardinality(RecordedOf(p)) + Cardinality(RecordingOf(p)) + log.doubt
    BY DEF GroupBudget
  <2>2. GroupsOf(p)' = GroupsOf(p) /\ log'.doubt = log.doubt
    BY <1>0 DEF GroupsOf
  <2>3. RecordedOf(p) \subseteq RecordedOf(p)'
    BY <1>8 DEF RecordedOf
  <2>4. RecordingOf(p) \subseteq RecordingOf(p)' \cup {w}
    BY <1>5 DEF RecordingOf, Moves, OnSubmit
  <2>5. CASE p = q /\ at = "succeeded"
    <3>1. new \in RecordedOf(p)' /\ new \notin RecordedOf(p)
      BY <1>5, <1>6, <1>8, <2>5 DEF RecordedOf
    <3>2. Cardinality(RecordedOf(p)) + 1 <= Cardinality(RecordedOf(p)')
      <4>1. RecordedOf(p) \subseteq RecordedOf(p)' \ {new}
        BY <2>3, <3>1
      <4> QED
        BY <1>9, <3>1, <4>1, NextGroupSizes, OneLess
    <3>3. Cardinality(RecordingOf(p)) <= Cardinality(RecordingOf(p)') + 1
      BY <1>9, <2>4, NextGroupSizes, AtMostOneMore
    <3> QED
      BY SMTT(60), <1>9, <2>1, <2>2, <3>2, <3>3, GroupSizes, NextGroupSizes
  <2>6. CASE p # q \/ at = "mark"
    <3>1. w \notin RecordingOf(p)
      BY <1>5, <1>12, <2>6 DEF RecordingOf
    <3>2. RecordingOf(p) \subseteq RecordingOf(p)'
      BY <2>4, <3>1
    <3>3. Cardinality(RecordingOf(p)) <= Cardinality(RecordingOf(p)')
      BY <1>9, <3>2, NextGroupSizes, NoMore
    <3>4. Cardinality(RecordedOf(p)) <= Cardinality(RecordedOf(p)')
      BY <1>9, <2>3, NextGroupSizes, NoMore
    <3> QED
      BY SMTT(60), <1>9, <2>1, <2>2, <3>3, <3>4, GroupSizes, NextGroupSizes
  <2> QED
    BY <2>5, <2>6
<1>22. NamesKept'
  <2>1. NameKnown(w, q)'
    BY <1>5 DEF NameKnown, Moves, NamedAt
  <2>2. \A v \in Threads :
            \/ thread'[v] = thread[v]
            \/ log'.taken = 0 =>
                  /\ \A p \in Requests : OnSubmit(v, p)' => NameKnown(v, p)'
                  /\ \A j \in DOMAIN irpJobs' : OnFinalize(v, j)' => NameRead(v, j)'
    BY <1>5, <1>12, <1>13, <2>1 DEF Moves
  <2>3. log.taken = 0 => JobNamed(new)'
    <3>1. log.taken = 0 => NameKnown(w, q)
      BY <1>2 DEF NamesKept
    <3>2. log.taken = 0 /\ at = "succeeded" => rm[g].name = row[q].name
      BY <1>5, <3>1 DEF NameKnown
    <3> QED
      BY <1>0, <1>5, <1>6, <1>8, <3>2 DEF JobNamed
  <2>4. \A j \in DOMAIN irpJobs' : j \in DOMAIN irpJobs \/ (log'.taken = 0 => JobNamed(j)')
    BY <1>0, <1>8, <2>3
  <2> QED
    BY <1>0, <1>9, <1>10, <2>2, <2>4, NamesKeeps
<1>23. Settling'
  <2>1. \A v \in Threads :
            \/ thread'[v] = thread[v]
            \/ /\ \A p \in Requests : RunEnds(v, p)'
               /\ \A j \in DOMAIN irpJobs' : FinalizeEnds(v, j)'
    BY <1>5, <1>13 DEF Moves, RunEnds, FinalizeEnds
  <2>2. ASSUME NEW j \in DOMAIN irpJobs PROVE Handled(j) => Handled(j)'
    <3>1. irpJobs'[j] = irpJobs[j] /\ heads' = heads
      BY <1>0, <1>8
    <3>2. Marking(irpJobs[j].of) => Marking(irpJobs[j].of)'
      BY <1>1, <1>5 DEF Marking, Moves, OnSubmit
    <3> QED
      BY <3>1, <3>2, Zenon DEF Handled
  <2>3. log'.taken \in Nat /\ log'.taken >= log.taken
    BY <1>0, Types
  <2>4. JobSettles(new)'
    <3>1. CASE at = "succeeded"
      BY <1>5, <1>6, <1>8, <3>1, Zenon DEF JobSettles, Handled
    <3>2. CASE at = "mark"
      <4>1. Marking(q)'
        BY <1>5, <1>13, <3>2 DEF Marking, Moves
      <4> QED
        BY <1>5, <1>6, <1>8, <3>2, <4>1, Zenon DEF JobSettles, Handled, Refused
    <3> QED
      BY <3>1, <3>2
  <2>5. \A j \in DOMAIN irpJobs' : \/ j \in DOMAIN irpJobs /\ (Handled(j) => Handled(j)')
                                   \/ JobSettles(j)'
    BY <1>8, <2>2, <2>4
  <2>6. \A v \in Threads, j \in DOMAIN irpJobs' :
            OnFinalize(v, j) /\ thread[v].at \in Ended => j \in DOMAIN irpJobs
    BY <1>9, NextTypes, FinalizeHead
  <2> QED
    BY <1>0, <1>10, <2>1, <2>3, <2>5, <2>6, SettlingKeeps
<1>24. SeenKept'
  <2>1. \A p \in Requests : ViewFair(w, p)'
    BY <1>5 DEF ViewFair, Moves
  <2> QED
    BY <1>0, <1>5, <1>10, <2>1, SeenKeeps, Types DEF Moves
<1> QED
  BY <1>9, <1>14, <1>17, <1>18, <1>19, <1>20, <1>21, <1>22, <1>23, <1>24

-----------------------------------------------------------------------------
(* finalize_analysis of a group *)

\* What every step of the finalize body keeps.
LEMMA FinalizeKeeps ==
    ASSUME Inductive, Typed', NEW w \in Threads, NEW j \in DOMAIN irpJobs, OnFinalize(w, j),
           NEW q \in Requests, irpJobs[j].of = q, row[q].status # "none",
           NEW at \in {"resolve", "metadata"} \cup Ended, Moves(w, at), thread[w].at \in FinalizeAt,
           UNCHANGED <<rm, irpJobs, heads, request, log>>, \A p \in Requests \ {q} : row'[p] = row[p],
           row'[q].pointer \in 0..Len(rm), row'[q].status # "none", row'[q].name = row[q].name,
           row'[q].status = "pending" => row[q].status = "pending" /\ at \notin Ended,
           row[q].pointer # 0 => row'[q].pointer # 0,
           log.taken = 0 => NameRead(w, j)' /\ Pointed(q)'
    PROVE  Inductive'
<1>. USE DEF Inductive
<1>1. GroupsGrow /\ JobsGrow /\ RowsStay
  BY Unchanging DEF RowsStay
<1>2. \A v \in Threads : thread'[v].head = thread[v].head
  BY DEF Moves
<1>3. \A p \in Requests : ~ OnSubmit(w, p)' /\ ~ OnSubmit(w, p)
  BY <1>2, Types, HeadFacts DEF OnSubmit, OnFinalize
<1>4. \A i \in DOMAIN irpJobs : OnFinalize(w, i)' => i = j
  BY <1>2, Types, HeadFacts DEF OnFinalize
<1>5. /\ thread[w].at \notin SubmitAt \cup {"idle", "record", "post", "mark"}
      /\ at \in Places \ {"idle"} /\ at \notin SubmitAt
  BY DEF SubmitAt, FinalizeAt, WriterAt, NamedAt, Places, Ended
<1>6. Placed'
  BY <1>1, <1>5, BodyPlaced
<1>7. Keyed'
  <2>1. ASSUME NEW p \in Requests
        PROVE  /\ row'[p].pointer \in 0..Len(rm')
               /\ ~ Unserved(p)' => row'[p].status # "none"
               /\ row'[p].status # "none" => heads[Submit(p)] # "absent"
    <3>1. /\ row[p].pointer \in 0..Len(rm)
          /\ ~ Unserved(p) => row[p].status # "none"
          /\ row[p].status # "none" => heads[Submit(p)] # "absent"
      BY DEF Keyed
    <3>2. Unserved(p)' <=> Unserved(p)
      BY DEF Unserved
    <3> QED
      BY <3>1, <3>2
  <2> QED
    BY <1>1, <1>2, <2>1, BodyKeyed
<1>8. JobsKept'
  BY <1>1, JobsKeptKeeps
<1>9. AllSubmitting'
  BY <1>1, <1>3, SubmittingKeeps DEF Moves
<1>10. JobBudget'
  <2>1. \A v \in Threads, p \in Requests :
            /\ OnSubmit(v, p)' <=> OnSubmit(v, p)
            /\ OnSubmit(v, p) /\ thread'[v].at \in WriterAt => thread[v].at \in WriterAt \/ Unserved(p)
    BY <1>2, <1>3 DEF Moves, OnSubmit
  <2>2. log'.taken >= log.taken
    BY Types
  <2> QED
    BY <2>1, <2>2, JobBudgetKeeps
<1>11. GroupBudget'
  <2>1. \A v \in Threads, p \in Requests :
            OnSubmit(v, p) /\ thread[v].at = "record" => OnSubmit(v, p)' /\ thread'[v].at = "record"
    BY <1>3 DEF Moves, OnSubmit
  <2>2. log'.doubt >= log.doubt
    BY Types
  <2> QED
    BY <1>1, <2>1, <2>2, GroupBudgetKeeps
<1>12. NamesKept'
  <2>1. ASSUME log.taken = 0, NEW i \in DOMAIN irpJobs', OnFinalize(w, i)'
        PROVE  NameRead(w, i)'
    <3>1. i = j
      BY <1>4, <2>1
    <3> QED
      BY <2>1, <3>1
  <2>2. \A v \in Threads :
            \/ thread'[v] = thread[v]
            \/ log'.taken = 0 =>
                  /\ \A p \in Requests : OnSubmit(v, p)' => NameKnown(v, p)'
                  /\ \A i \in DOMAIN irpJobs' : OnFinalize(v, i)' => NameRead(v, i)'
    BY <1>3, <2>1 DEF Moves
  <2>3. \A p \in Requests : \/ row'[p].status = row[p].status /\ row'[p].pointer = row[p].pointer
                            \/ log'.taken = 0 => Pointed(p)'
    OBVIOUS
  <2>4. \A p \in Requests : row'[p].name = row[p].name /\ (row[p].pointer # 0 => row'[p].pointer # 0)
    OBVIOUS
  <2> QED
    BY <1>1, <2>2, <2>3, <2>4, NamesKeeps
<1>13. Settling'
  <2>1. ASSUME NEW i \in DOMAIN irpJobs' PROVE FinalizeEnds(w, i)'
    BY <1>4 DEF FinalizeEnds, Moves
  <2>2. \A v \in Threads :
            \/ thread'[v] = thread[v]
            \/ /\ \A p \in Requests : RunEnds(v, p)'
               /\ \A i \in DOMAIN irpJobs' : FinalizeEnds(v, i)'
    BY <1>3, <2>1 DEF Moves, RunEnds
  <2>3. \A i \in DOMAIN irpJobs' : Handled(i) => Handled(i)'
    BY <1>5 DEF Handled, Marking, Moves, OnSubmit
  <2>4. log'.taken \in Nat /\ log'.taken >= log.taken
    BY Types
  <2>5. \A p \in Requests : /\ row'[p].status = "pending" => row[p].status = "pending"
                            /\ row[p].status = "none" => row'[p].status = "none"
    OBVIOUS
  <2> QED
    BY <1>1, <2>2, <2>3, <2>4, <2>5, SettlingKeeps
<1>14. SeenKept'
  <2>1. \A p \in Requests : ViewFair(w, p)'
    BY <1>3 DEF ViewFair
  <2> QED
    BY <1>1, <2>1, SeenKeeps, Types DEF Moves
<1> QED
  BY <1>6, <1>7, <1>8, <1>9, <1>10, <1>11, <1>12, <1>13, <1>14

LEMMA ReadRowKeeps ==
    ASSUME Inductive, NEW w \in Threads, ReadRow(w)
    PROVE  Inductive'
<1>. USE DEF Inductive
<1>0. thread[w].at = "read" /\ UNCHANGED <<world, heads, request, log, rm, row, irpJobs, spent>>
  BY DEF ReadRow, BodyKeeps
<1>1. thread[w].at \in FinalizeAt
  BY <1>0 DEF FinalizeAt
<1>2. PICK j \in DOMAIN irpJobs : /\ OnFinalize(w, j) /\ About(thread[w].head) = irpJobs[j].of
                                  /\ irpJobs[j].of \in Requests /\ row[irpJobs[j].of].status # "none"
  BY <1>1, Finalizing
<1>3. PICK q \in Requests : q = irpJobs[j].of
  BY <1>2
<1>4. thread[w] \in Thread /\ row[q] \in GroupRow /\ "resolve" \in Places
  BY DEF Typed, Places, FinalizeAt
<1>. DEFINE t == [thread[w] EXCEPT !.at = "resolve", !.name = row[q].name]
<1>5. t \in Thread /\ t.at = "resolve" /\ t.head = thread[w].head /\ t.name = row[q].name
  <2>1. row[q].name \in Seq(Nat)
    BY <1>4 DEF GroupRow
  <2> QED
    BY <1>4, <2>1 DEF Thread
<1>6. thread' = [thread EXCEPT ![w] = t]
  BY <1>2, <1>3 DEF ReadRow
<1>. HIDE DEF t
<1>7. Moves(w, "resolve") /\ thread'[w].name = row[q].name
  BY <1>5, <1>6, Becomes
<1>8. Typed'
  BY <1>0, <1>7, BodyTyped DEF Typed, Moves
<1>9. NameRead(w, j)'
  BY <1>0, <1>3, <1>7 DEF NameRead, Moves
<1>10. log.taken = 0 => Pointed(q)'
  BY <1>0 DEF NamesKept, Pointed
<1>11. row[q].pointer \in 0..Len(rm)
  BY DEF Keyed
<1> QED
  BY <1>0, <1>1, <1>2, <1>3, <1>7, <1>8, <1>9, <1>10, <1>11, FinalizeKeeps DEF Ended

\* A failed look-up marks the row.
LEMMA FailsKeeps ==
    ASSUME Inductive, NEW w \in Threads, thread[w].at \in FinalizeAt,
           Fails(w, About(thread[w].head)),
           UNCHANGED <<world, heads, request, log, rm, irpJobs, spent>>
    PROVE  Inductive'
<1>. USE DEF Inductive
<1>2. PICK j \in DOMAIN irpJobs : /\ OnFinalize(w, j) /\ About(thread[w].head) = irpJobs[j].of
                                  /\ irpJobs[j].of \in Requests /\ row[irpJobs[j].of].status # "none"
  BY Finalizing
<1>3. PICK q \in Requests : q = irpJobs[j].of
  BY <1>2
<1>4. Go(w, "failed") /\ row' = [row EXCEPT ![q].status = "error"]
  BY <1>2, <1>3 DEF Fails
<1>5. Moves(w, "failed")
  BY <1>4, Goes DEF Places, Ended
<1>. DEFINE r == [row[q] EXCEPT !.status = "error"]
<1>6. row[q] \in GroupRow
  BY DEF Typed
<1>7. r \in GroupRow /\ r.status = "error" /\ r.pointer = row[q].pointer /\ r.name = row[q].name
  BY <1>6 DEF GroupRow
<1>8. row' = [row EXCEPT ![q] = r]
  BY <1>4
<1>. HIDE DEF r
<1>9. row' \in [Requests -> GroupRow] /\ row'[q] = r /\ \A p \in Requests \ {q} : row'[p] = row[p]
  BY <1>7, <1>8, RowSet
<1>10. Typed'
  BY <1>5, <1>9, BodyTyped DEF Typed, Moves
<1>11. NameRead(w, j)'
  BY <1>5 DEF NameRead, Moves
<1>12. log.taken = 0 => Pointed(q)'
  BY <1>7, <1>9 DEF NamesKept, Pointed
<1>13. row[q].pointer \in 0..Len(rm)
  BY DEF Keyed
<1> QED
  BY <1>2, <1>3, <1>5, <1>7, <1>9, <1>10, <1>11, <1>12, <1>13, FinalizeKeeps DEF Ended

LEMMA ResolveKeeps ==
    ASSUME Inductive, NEW w \in Threads, Resolve(w)
    PROVE  Inductive'
<1>. USE DEF Inductive
<1>0. thread[w].at = "resolve" /\ UNCHANGED <<world, heads, request, log, rm, irpJobs, spent>>
  BY DEF Resolve, BodyKeeps
<1>1. thread[w].at \in FinalizeAt
  BY <1>0 DEF FinalizeAt
<1>2. PICK j \in DOMAIN irpJobs :
          /\ OnFinalize(w, j) /\ About(thread[w].head) = irpJobs[j].of
          /\ irpJobs[j].of \in Requests /\ row[irpJobs[j].of].status # "none"
          /\ irpJobs[j].group \in DOMAIN rm /\ rm[irpJobs[j].group].of = irpJobs[j].of
          /\ rm[irpJobs[j].group].state = "finished"
  BY <1>1, Finalizing
<1>3. PICK q \in Requests : q = irpJobs[j].of
  BY <1>2
<1>4. CASE Fails(w, About(thread[w].head))
  BY <1>0, <1>1, <1>4, FailsKeeps
<1>5. ASSUME NEW g \in DOMAIN rm, {g} \in Hits(thread[w].name),
             thread' = [thread EXCEPT ![w].at = "metadata"], row' = [row EXCEPT ![q].pointer = g]
      PROVE  Inductive'
  <2>. DEFINE t == [thread[w] EXCEPT !.at = "metadata"]
              r == [row[q] EXCEPT !.pointer = g]
  <2>1. thread[w] \in Thread /\ row[q] \in GroupRow /\ "metadata" \in Places
    BY DEF Typed, Places, FinalizeAt
  <2>2. t \in Thread /\ t.at = "metadata" /\ t.head = thread[w].head
    BY <2>1 DEF Thread
  <2>3. g \in Nat /\ g # 0 /\ g \in 0..Len(rm)
    BY Types
  <2>4. r \in GroupRow /\ r.status = row[q].status /\ r.pointer = g /\ r.name = row[q].name
    BY <2>1, <2>3 DEF GroupRow
  <2>5. thread' = [thread EXCEPT ![w] = t] /\ row' = [row EXCEPT ![q] = r]
    BY <1>5
  <2>. HIDE DEF t, r
  <2>6. Moves(w, "metadata")
    BY <2>2, <2>5, Becomes
  <2>7. row' \in [Requests -> GroupRow] /\ row'[q] = r /\ \A p \in Requests \ {q} : row'[p] = row[p]
    BY <2>4, <2>5, RowSet
  <2>8. Typed'
    BY <1>0, <2>6, <2>7, BodyTyped DEF Typed, Moves
  <2>9. NameRead(w, j)'
    BY <1>0, <1>3, <2>3, <2>4, <2>6, <2>7 DEF NameRead, Moves
  <2>10. log.taken = 0 => rm[g].of = q
    <3>1. SUFFICES ASSUME log.taken = 0 PROVE rm[g].of = q
      OBVIOUS
    <3>2. thread[w].name = row[q].name
      BY <1>0, <1>2, <1>3, <3>1 DEF NamesKept, NameRead
    <3>3. rm[irpJobs[j].group].name = row[q].name
      <4>1. irpJobs[j].group # 0
        BY <1>2, Types
      <4> QED
        BY <1>3, <3>1, <4>1 DEF NamesKept, JobNamed
    <3>4. irpJobs[j].group \in {g}
      BY <1>2, <1>5, <3>2, <3>3 DEF Hits
    <3> QED
      BY <1>2, <1>3, <3>4
  <2>11. log.taken = 0 => Pointed(q)'
    BY <1>0, <2>3, <2>4, <2>7, <2>10 DEF Pointed
  <2> QED
    BY <1>0, <1>1, <1>2, <1>3, <2>3, <2>4, <2>6, <2>7, <2>8, <2>9, <2>11, FinalizeKeeps DEF Ended
<1> QED
  BY <1>2, <1>3, <1>4, <1>5 DEF Resolve

LEMMA FinishKeeps ==
    ASSUME Inductive, NEW w \in Threads, Finish(w)
    PROVE  Inductive'
<1>. USE DEF Inductive
<1>0. thread[w].at = "metadata" /\ UNCHANGED <<world, heads, request, log, rm, irpJobs, spent>>
  BY DEF Finish, BodyKeeps
<1>1. thread[w].at \in FinalizeAt
  BY <1>0 DEF FinalizeAt
<1>2. PICK j \in DOMAIN irpJobs : /\ OnFinalize(w, j) /\ About(thread[w].head) = irpJobs[j].of
                                  /\ irpJobs[j].of \in Requests /\ row[irpJobs[j].of].status # "none"
  BY <1>1, Finalizing
<1>3. PICK q \in Requests : q = irpJobs[j].of
  BY <1>2
<1>4. CASE Fails(w, About(thread[w].head))
  BY <1>0, <1>1, <1>4, FailsKeeps
<1>5. CASE Go(w, "succeeded") /\ row' = [row EXCEPT ![q].status = "ready"]
  <2>1. Moves(w, "succeeded")
    BY <1>5, Goes DEF Places, Ended
  <2>. DEFINE r == [row[q] EXCEPT !.status = "ready"]
  <2>2. row[q] \in GroupRow
    BY DEF Typed
  <2>3. r \in GroupRow /\ r.status = "ready" /\ r.pointer = row[q].pointer /\ r.name = row[q].name
    BY <2>2 DEF GroupRow
  <2>4. row' = [row EXCEPT ![q] = r]
    BY <1>5
  <2>. HIDE DEF r
  <2>5. row' \in [Requests -> GroupRow] /\ row'[q] = r /\ \A p \in Requests \ {q} : row'[p] = row[p]
    BY <2>3, <2>4, RowSet
  <2>6. Typed'
    BY <1>0, <2>1, <2>5, BodyTyped DEF Typed, Moves
  <2>7. NameRead(w, j)'
    BY <2>1 DEF NameRead, Moves
  <2>8. log.taken = 0 => row[q].pointer # 0 /\ Pointed(q)
    BY <1>0, <1>2, <1>3 DEF NamesKept, NameRead
  <2>9. log.taken = 0 => Pointed(q)'
    BY <1>0, <2>3, <2>5, <2>8 DEF Pointed
  <2>10. row[q].pointer \in 0..Len(rm)
    BY DEF Keyed
  <2> QED
    BY <1>0, <1>1, <1>2, <1>3, <2>1, <2>3, <2>5, <2>6, <2>7, <2>9, <2>10, FinalizeKeeps DEF Ended
<1> QED
  BY <1>2, <1>3, <1>4, <1>5 DEF Finish

-----------------------------------------------------------------------------
(* The work queue *)

LEMMA ClaimKeeps ==
    ASSUME Inductive, NEW w \in Threads, NEW h \in Heads, Claim(w, h)
    PROVE  Inductive'
<1>. USE DEF Inductive
<1>0. /\ thread[w] = Idle /\ heads[h] = "pending" /\ heads' = [heads EXCEPT ![h] = "running"]
      /\ UNCHANGED <<world, rm, row, irpJobs, request, log, spent>>
  BY DEF Claim, QueueKeeps, SetHead
<1>. DEFINE at == IF h[1] = "submit" THEN "look" ELSE "read"
            t  == [Idle EXCEPT !.head = h, !.at = at]
<1>1. thread' = [thread EXCEPT ![w] = t]
  BY DEF Claim
<1>2. at \in {"look", "read"} /\ at \in Places
  BY DEF Places, SubmitAt, FinalizeAt
<1>. HIDE DEF at
<1>3. t \in Thread /\ t.head = h /\ t.at = at
  BY <1>2, IdleFacts DEF Idle, Thread
<1>. HIDE DEF t
<1>4. /\ thread' \in [Threads -> Thread] /\ thread'[w] = t
      /\ \A v \in Threads \ {w} : thread'[v] = thread[v]
  BY <1>1, <1>3 DEF Typed
<1>5. /\ heads' \in [Heads -> {"absent", "pending", "running"} \cup Outcome]
      /\ heads'[h] = "running" /\ \A g \in Heads : g # h => heads'[g] = heads[g]
  BY <1>0 DEF Typed
<1>6. Typed'
  BY <1>0, <1>4, <1>5 DEF Typed
<1>7. GroupsGrow /\ JobsGrow /\ RowsStay
  BY <1>0, Unchanging
<1>8. thread[w].head = None /\ thread[w].at = "idle" /\ h # None /\ h \in Heads
  BY <1>0, IdleFacts, HeadFacts
<1>9. \/ \E q \in Requests : h = Submit(q) /\ at = "look"
      \/ \E j \in DOMAIN irpJobs : h = Finalize(j) /\ at = "read"
  <2>1. ASSUME NEW q \in Requests, h = Submit(q) PROVE at = "look"
    BY <2>1, HeadFacts DEF at
  <2>2. ASSUME NEW j \in 1..MaxJobs, h = Finalize(j) PROVE at = "read" /\ j \in DOMAIN irpJobs
    <3>1. j \in Nat
      BY ConstantFacts
    <3>2. at = "read"
      BY <2>2, <3>1, HeadFacts DEF at
    <3>3. heads[Finalize(j)] # "absent"
      BY <1>0, <2>2
    <3> QED
      BY <3>2, <3>3 DEF Keyed
  <2> QED
    BY <2>1, <2>2, HeadFacts
<1>10. Placed'
  <2>1. InBody(w)'
    BY <1>0, <1>2, <1>3, <1>4, <1>8, <1>9 DEF InBody, OnSubmit, OnFinalize, SubmitAt, FinalizeAt,
       WriterAt, NamedAt
  <2> QED
    BY <1>4, <1>7, <2>1, PlacedKeeps
<1>11. Keyed'
  <2>1. \A v \in Threads : /\ thread'[v].head \in Heads \cup {None}
                           /\ thread'[v].head = thread[v].head \/ thread'[v].head = None
                                     \/ heads'[thread'[v].head] # "absent"
    BY <1>3, <1>4, <1>5 DEF Thread
  <2>2. \A g \in Heads : heads'[g] = "absent" <=> heads[g] = "absent"
    BY <1>0, <1>5
  <2> QED
    BY <1>0, <2>1, <2>2, QueueKeyed
<1>12. JobsKept'
  BY <1>0, <1>6, <1>7, JobsKeptKeeps
<1>13. thread'[w].at \in {"look", "read"}
  BY <1>2, <1>3, <1>4
<1>14. AllSubmitting'
  <2>1. \A q \in Requests : Submitting(w, q)'
    BY <1>13 DEF Submitting, NamedAt
  <2> QED
    BY <1>4, <1>7, <2>1, SubmittingKeeps
<1>15. JobBudget'
  <2>0. SUFFICES ASSUME NEW Q \in SUBSET Requests PROVE JobTotal(Q)'
    BY DEF JobBudget, JobTotal
  <2>1. \A p \in Requests : Unserved(p)' <=> Unserved(p)
    BY <1>0 DEF Unserved
  <2>2. \A v \in Threads, p \in Requests : v # w => (OnSubmit(v, p)' <=> OnSubmit(v, p))
    BY <1>4 DEF OnSubmit
  <2>3. JobsOf(Q)' \subseteq JobsOf(Q) /\ log'.taken >= log.taken
    BY <1>0, Types DEF JobsOf
  <2>4. \A p \in Requests : ~ OnSubmit(w, p)
    BY <1>8, HeadFacts DEF OnSubmit
  <2>5. thread'[w].at \notin WriterAt
    BY <1>13 DEF WriterAt, NamedAt
  <2>6. CASE \E q \in Q : h = Submit(q) /\ Unserved(q)
    <3>1. PICK q \in Q : h = Submit(q) /\ Unserved(q)
      BY <2>6
    <3>2. /\ \A p \in Requests : OnSubmit(w, p)' <=> p = q
          /\ \A p \in Requests : p # q => heads'[Submit(p)] = heads[Submit(p)]
      BY <1>3, <1>4, <1>5, <3>1, HeadFacts DEF OnSubmit
    <3>3. Attended(q)' /\ \A p \in Requests : p # q => (Attended(p)' <=> Attended(p))
      BY <2>2, <2>4, <3>2 DEF Attended
    <3>4. StaffOf(Q)' \subseteq StaffOf(Q) \cup {w}
      BY <1>4, <2>1, <2>2 DEF StaffOf
    <3>5. LooseOf(Q)' \subseteq LooseOf(Q) /\ q \notin LooseOf(Q)'
      BY <1>5, <2>1, <3>1, <3>2, <3>3 DEF LooseOf
    <3>6. ServedOf(Q) \subseteq ServedOf(Q)' /\ q \in ServedOf(Q)'
      BY <2>1, <3>3 DEF ServedOf
    <3>7. Cardinality(JobsOf(Q)') <= Cardinality(JobsOf(Q))
      BY <2>3, Sizes, NoMore
    <3>8. Cardinality(StaffOf(Q)') <= Cardinality(StaffOf(Q)) + 1
      BY <3>4, Sizes, AtMostOneMore
    <3>9. /\ Cardinality(JobsOf(Q)) \in Nat /\ Cardinality(JobsOf(Q)') \in Nat
          /\ Cardinality(StaffOf(Q)) \in Nat /\ Cardinality(StaffOf(Q)') \in Nat
          /\ Cardinality(LooseOf(Q)) \in Nat /\ Cardinality(LooseOf(Q)') \in Nat
          /\ Cardinality(ServedOf(Q)) \in Nat /\ Cardinality(ServedOf(Q)') \in Nat
          /\ log.taken \in Nat /\ log'.taken \in Nat
      BY <1>6, Sizes, NextSizes
    <3>10. Cardinality(JobsOf(Q)) + Cardinality(StaffOf(Q)) + Cardinality(LooseOf(Q))
              <= Cardinality(ServedOf(Q)) + log.taken
      BY DEF JobBudget
    <3>11. CASE Attended(q)
      <4>1. q \in LooseOf(Q)
        BY <1>0, <3>1, <3>11 DEF LooseOf
      <4>2. Cardinality(LooseOf(Q)') + 1 <= Cardinality(LooseOf(Q))
        <5>1. LooseOf(Q)' \subseteq LooseOf(Q) \ {q}
          BY <3>5
        <5> QED
          BY <4>1, <5>1, Sizes, OneLess
      <4>3. Cardinality(ServedOf(Q)) <= Cardinality(ServedOf(Q)')
        BY <1>6, <3>6, NextSizes, NoMore
      <4> QED
        BY <2>3, <3>7, <3>8, <3>9, <3>10, <4>2, <4>3 DEF JobTotal
    <3>12. CASE ~ Attended(q)
      <4>1. q \notin ServedOf(Q)
        BY <3>1, <3>12 DEF ServedOf
      <4>2. Cardinality(ServedOf(Q)) + 1 <= Cardinality(ServedOf(Q)')
        <5>1. ServedOf(Q) \subseteq ServedOf(Q)' \ {q}
          BY <3>6, <4>1
        <5> QED
          BY <1>6, <3>6, <5>1, NextSizes, OneLess
      <4>3. Cardinality(LooseOf(Q)') <= Cardinality(LooseOf(Q))
        BY <3>5, Sizes, NoMore
      <4> QED
        BY <2>3, <3>7, <3>8, <3>9, <3>10, <4>2, <4>3 DEF JobTotal
    <3> QED
      BY <3>11, <3>12
  <2>7. CASE ~ \E q \in Q : h = Submit(q) /\ Unserved(q)
    <3>1. \A p \in Q : OnSubmit(w, p)' => ~ Unserved(p)
      BY <1>3, <1>4, <2>7 DEF OnSubmit
    <3>2. StaffOf(Q)' \subseteq StaffOf(Q)
      BY <1>4, <2>1, <2>2, <2>5, <3>1 DEF StaffOf
    <3>3. LooseOf(Q)' \subseteq LooseOf(Q)
      <4>1. ASSUME NEW p \in Q, Attended(p)', Unserved(p)', heads'[Submit(p)] # "running"
            PROVE  Attended(p) /\ Unserved(p) /\ heads[Submit(p)] # "running"
        <5>1. Unserved(p) /\ h # Submit(p)
          BY <2>1, <2>7, <4>1
        <5>2. heads'[Submit(p)] = heads[Submit(p)]
          BY <1>5, <5>1, HeadFacts
        <5>3. Attended(p)
          BY <2>2, <3>1, <4>1, <5>1 DEF Attended
        <5> QED
          BY <4>1, <5>1, <5>2, <5>3
      <4> QED
        BY <4>1 DEF LooseOf
    <3>4. ServedOf(Q) \subseteq ServedOf(Q)'
      BY <2>1, <2>2, <2>4 DEF ServedOf, Attended
    <3> QED
      BY <1>6, <2>3, <3>2, <3>3, <3>4, TotalKeeps
  <2> QED
    BY <2>6, <2>7
<1>16. GroupBudget'
  <2>1. \A v \in Threads, q \in Requests :
            OnSubmit(v, q) /\ thread[v].at = "record" => OnSubmit(v, q)' /\ thread'[v].at = "record"
    BY <1>4, <1>8 DEF OnSubmit
  <2> QED
    BY <1>0, <1>6, <1>7, <2>1, Types, GroupBudgetKeeps
<1>17. NamesKept'
  <2>1. \A q \in Requests : NameKnown(w, q)'
    BY <1>13 DEF NameKnown, NamedAt
  <2>2. \A j \in DOMAIN irpJobs' : NameRead(w, j)'
    BY <1>13 DEF NameRead
  <2>3. \A v \in Threads :
            \/ thread'[v] = thread[v]
            \/ log'.taken = 0 =>
                  /\ \A q \in Requests : OnSubmit(v, q)' => NameKnown(v, q)'
                  /\ \A j \in DOMAIN irpJobs' : OnFinalize(v, j)' => NameRead(v, j)'
    BY <1>4, <2>1, <2>2
  <2> QED
    BY <1>0, <1>6, <1>7, <2>3, NamesKeeps
<1>18. Settling'
  <2>1. \A v \in Threads :
            \/ thread'[v] = thread[v]
            \/ /\ \A q \in Requests : RunEnds(v, q)'
               /\ \A j \in DOMAIN irpJobs' : FinalizeEnds(v, j)'
    BY <1>4, <1>13 DEF RunEnds, FinalizeEnds, Ended
  <2>2. \A g \in Heads : heads'[g] = heads[g] \/ heads'[g] = "running"
    BY <1>5
  <2>3. ASSUME NEW j \in DOMAIN irpJobs' PROVE Handled(j) => Handled(j)'
    <3>1. j \in DOMAIN irpJobs /\ Finalize(j) \in Heads
      BY <1>0, JobLimit
    <3>2. heads[Finalize(j)] \in {"pending", "running", "raised"} =>
              heads'[Finalize(j)] \in {"pending", "running", "raised"}
      BY <1>5, <3>1
    <3>3. ASSUME NEW v \in Threads, OnSubmit(v, irpJobs[j].of), thread[v].at = "mark"
          PROVE  OnSubmit(v, irpJobs[j].of)' /\ thread'[v].at = "mark"
      <4>1. v # w
        BY <1>8, <3>3
      <4> QED
        BY <1>0, <1>4, <3>3, <4>1 DEF OnSubmit
    <3>4. irpJobs' = irpJobs
      BY <1>0
    <3>5. Marking(irpJobs[j].of) => Marking(irpJobs[j].of)'
      BY <3>3, <3>4 DEF Marking
    <3> QED
      BY <1>0, <3>2, <3>5, Zenon DEF Handled
  <2>4. log'.taken \in Nat /\ log'.taken >= log.taken
    BY <1>0, Types
  <2>5. \A q \in Requests : heads'[Submit(q)] \in Ended => heads[Submit(q)] \in Ended
    BY <2>2, HeadFacts DEF Ended
  <2> QED
    BY <1>0, <1>7, <2>1, <2>3, <2>4, <2>5, SettlingKeeps
<1>19. SeenKept'
  <2>1. \A q \in Requests : ViewFair(w, q)'
    BY <1>13 DEF ViewFair
  <2> QED
    BY <1>0, <1>4, <1>7, <2>1, SeenKeeps, Types
<1> QED
  BY <1>6, <1>10, <1>11, <1>12, <1>14, <1>15, <1>16, <1>17, <1>18, <1>19

\* A thread lets go of its job: it has ended, or the thread is lost.
LEMMA LetGo ==
    ASSUME Inductive, Typed', NEW w \in Threads, thread[w] # Idle,
           thread' = [thread EXCEPT ![w] = Idle], UNCHANGED <<rm, row, irpJobs, request>>,
           \A h \in Heads :
               \/ heads'[h] = heads[h]
               \/ /\ h = thread[w].head /\ heads[h] = "running"
                  /\ thread[w].at \in Outcome /\ heads'[h] = thread[w].at,
           log'.taken = log.taken,
           log.unmarked \subseteq log'.unmarked, log'.doubt >= log.doubt,
           thread[w].at = "record" => log'.doubt = log.doubt + 1,
           thread[w].at = "mark" => About(thread[w].head) \in log'.unmarked
    PROVE  Inductive'
<1>. USE DEF Inductive
<1>1. /\ thread'[w] = Idle /\ thread'[w].head = None /\ thread'[w].at = "idle"
      /\ \A v \in Threads \ {w} : thread'[v] = thread[v]
  BY IdleFacts DEF Typed
<1>2. GroupsGrow /\ JobsGrow /\ RowsStay
  BY Unchanging
<1>3. \A p \in Requests : ~ OnSubmit(w, p)'
  BY <1>1, HeadFacts DEF OnSubmit
<1>4. \A j \in DOMAIN irpJobs : ~ OnFinalize(w, j)' /\ Finalize(j) \in Heads /\ irpJobs[j].of \in Requests
  BY <1>1, JobLimit, HeadFacts, Types DEF OnFinalize
<1>5. \A h \in Heads : heads'[h] = "absent" <=> heads[h] = "absent"
  BY DEF Outcome
<1>6. Placed'
  <2>1. InBody(w)'
    BY <1>1 DEF InBody, SubmitAt, FinalizeAt, WriterAt, NamedAt
  <2> QED
    BY <1>1, <1>2, <2>1, PlacedKeeps
<1>7. Keyed'
  <2>1. \A v \in Threads : /\ thread'[v].head \in Heads \cup {None}
                           /\ thread'[v].head = thread[v].head \/ thread'[v].head = None
                                     \/ heads'[thread'[v].head] # "absent"
    BY <1>1 DEF Typed, Thread
  <2> QED
    BY <1>5, <2>1, QueueKeyed
<1>8. JobsKept'
  BY <1>2, JobsKeptKeeps
<1>9. AllSubmitting'
  BY <1>1, <1>2, <1>3, SubmittingKeeps
<1>10. JobBudget'
  <2>0. SUFFICES ASSUME NEW Q \in SUBSET Requests PROVE JobTotal(Q)'
    BY DEF JobBudget, JobTotal
  <2>1. \A p \in Requests : Unserved(p)' <=> Unserved(p)
    BY DEF Unserved
  <2>2. \A v \in Threads, p \in Requests : /\ OnSubmit(v, p)' => OnSubmit(v, p)
                                           /\ v # w /\ OnSubmit(v, p) => OnSubmit(v, p)'
    BY <1>1, <1>3 DEF OnSubmit
  <2>3. JobsOf(Q)' \subseteq JobsOf(Q) /\ log'.taken >= log.taken
    BY Types DEF JobsOf
  <2>4. StaffOf(Q)' \subseteq StaffOf(Q) \ {w}
    BY <1>1, <1>3, <2>1, <2>2 DEF StaffOf
  <2>5. \A p \in Requests : ~ OnSubmit(w, p) => heads'[Submit(p)] = heads[Submit(p)]
    BY HeadFacts DEF OnSubmit
  <2>6. ASSUME NEW p \in Requests
        PROVE  /\ Attended(p)' => Attended(p)
               /\ Attended(p) => Attended(p)' \/ OnSubmit(w, p)
    BY <2>2 DEF Attended
  <2>7. CASE \E q \in Q : OnSubmit(w, q) /\ Unserved(q)
    <3>1. PICK q \in Requests : q \in Q /\ OnSubmit(w, q) /\ Unserved(q)
      BY <2>7
    <3>2. ASSUME NEW p \in Requests, OnSubmit(w, p) PROVE p = q
      <4>1. Submit(q) = Submit(p)
        BY <3>1, <3>2 DEF OnSubmit
      <4> QED
        BY <4>1, HeadFacts
    <3>3. w \in StaffOf(Q)
      BY <3>1 DEF StaffOf
    <3>4. Cardinality(StaffOf(Q)') + 1 <= Cardinality(StaffOf(Q))
      BY <2>4, <3>3, Sizes, OneLess
    <3>5. Cardinality(JobsOf(Q)') <= Cardinality(JobsOf(Q))
      BY <2>3, Sizes, NoMore
    <3>6. LooseOf(Q)' \subseteq LooseOf(Q) \cup {q}
      BY <2>1, <2>5, <2>6, <3>2 DEF LooseOf
    <3>7. ServedOf(Q) \subseteq ServedOf(Q)' \cup {q}
      BY <2>1, <2>6, <3>2 DEF ServedOf
    <3>8. /\ Cardinality(JobsOf(Q)) \in Nat /\ Cardinality(JobsOf(Q)') \in Nat
          /\ Cardinality(StaffOf(Q)) \in Nat /\ Cardinality(StaffOf(Q)') \in Nat
          /\ Cardinality(LooseOf(Q)) \in Nat /\ Cardinality(LooseOf(Q)') \in Nat
          /\ Cardinality(ServedOf(Q)) \in Nat /\ Cardinality(ServedOf(Q)') \in Nat
          /\ log.taken \in Nat /\ log'.taken \in Nat
      BY Sizes, NextSizes
    <3>9. Cardinality(JobsOf(Q)) + Cardinality(StaffOf(Q)) + Cardinality(LooseOf(Q))
              <= Cardinality(ServedOf(Q)) + log.taken
      BY DEF JobBudget
    <3>10. CASE Attended(q)'
      <4>1. Cardinality(LooseOf(Q)') <= Cardinality(LooseOf(Q)) + 1
        BY <3>6, Sizes, AtMostOneMore
      <4>2. ServedOf(Q) \subseteq ServedOf(Q)'
        BY <3>1, <3>7, <3>10 DEF ServedOf
      <4>3. Cardinality(ServedOf(Q)) <= Cardinality(ServedOf(Q)')
        BY <4>2, NextSizes, NoMore
      <4> QED
        BY <2>3, <3>4, <3>5, <3>8, <3>9, <4>1, <4>3 DEF JobTotal
    <3>11. CASE ~ Attended(q)'
      <4>1. LooseOf(Q)' \subseteq LooseOf(Q)
        BY <3>6, <3>11 DEF LooseOf
      <4>2. Cardinality(LooseOf(Q)') <= Cardinality(LooseOf(Q))
        BY <4>1, Sizes, NoMore
      <4>3. Cardinality(ServedOf(Q)) <= Cardinality(ServedOf(Q)') + 1
        BY <3>7, NextSizes, AtMostOneMore
      <4> QED
        BY <2>3, <3>4, <3>5, <3>8, <3>9, <4>2, <4>3 DEF JobTotal
    <3> QED
      BY <3>10, <3>11
  <2>8. CASE ~ \E q \in Q : OnSubmit(w, q) /\ Unserved(q)
    <3>1. LooseOf(Q)' \subseteq LooseOf(Q)
      BY <2>1, <2>5, <2>6, <2>8 DEF LooseOf
    <3>2. ServedOf(Q) \subseteq ServedOf(Q)'
      BY <2>1, <2>6, <2>8 DEF ServedOf
    <3>3. StaffOf(Q)' \subseteq StaffOf(Q)
      BY <2>4
    <3> QED
      BY <2>3, <3>1, <3>2, <3>3, TotalKeeps
  <2> QED
    BY <2>7, <2>8
<1>11. GroupBudget'
  <2>1. CASE thread[w].at # "record"
    <3>1. \A v \in Threads, q \in Requests :
              OnSubmit(v, q) /\ thread[v].at = "record" => OnSubmit(v, q)' /\ thread'[v].at = "record"
      BY <1>1, <2>1 DEF OnSubmit
    <3> QED
      BY <1>2, <3>1, GroupBudgetKeeps
  <2>2. CASE thread[w].at = "record"
    <3>0. SUFFICES ASSUME NEW q \in Requests
                   PROVE  Cardinality(GroupsOf(q)') <= Cardinality(RecordedOf(q)')
                              + Cardinality(RecordingOf(q)') + log'.doubt
      BY DEF GroupBudget
    <3>1. Cardinality(GroupsOf(q)) <= Cardinality(RecordedOf(q)) + Cardinality(RecordingOf(q)) + log.doubt
      BY DEF GroupBudget
    <3>2. GroupsOf(q)' = GroupsOf(q) /\ RecordedOf(q)' = RecordedOf(q)
      BY DEF GroupsOf, RecordedOf
    <3>3. RecordingOf(q) \subseteq RecordingOf(q)' \cup {w}
      BY <1>1 DEF RecordingOf, OnSubmit
    <3>4. Cardinality(RecordingOf(q)) <= Cardinality(RecordingOf(q)') + 1
      BY <3>3, NextGroupSizes, AtMostOneMore
    <3>5. log'.doubt = log.doubt + 1
      BY <2>2
    <3> QED
      BY <3>1, <3>2, <3>4, <3>5, GroupSizes, NextGroupSizes
  <2> QED
    BY <2>1, <2>2
<1>12. NamesKept'
  <2>1. \A v \in Threads :
            \/ thread'[v] = thread[v]
            \/ log'.taken = 0 =>
                  /\ \A q \in Requests : OnSubmit(v, q)' => NameKnown(v, q)'
                  /\ \A j \in DOMAIN irpJobs' : OnFinalize(v, j)' => NameRead(v, j)'
    BY <1>1, <1>3, <1>4
  <2> QED
    BY <1>2, <2>1, NamesKeeps
<1>13. Settling'
  <2>1. \A v \in Threads :
            \/ thread'[v] = thread[v]
            \/ /\ \A q \in Requests : RunEnds(v, q)'
               /\ \A j \in DOMAIN irpJobs' : FinalizeEnds(v, j)'
    BY <1>1, <1>3, <1>4 DEF RunEnds, FinalizeEnds
  <2>2. ASSUME NEW q \in Requests, heads'[Submit(q)] \in Ended, heads[Submit(q)] \notin Ended
        PROVE  HeadEnds(q)'
    <3>1. OnSubmit(w, q) /\ thread[w].at \in Ended
      BY <2>2, HeadFacts DEF OnSubmit
    <3>2. ~ Unserved(q)
      BY <3>1 DEF AllSubmitting, Submitting, Ended, Settling, RunEnds
    <3> QED
      BY <3>2 DEF HeadEnds, Unserved
  <2>3. ASSUME NEW j \in DOMAIN irpJobs' PROVE (Handled(j) => Handled(j)') \/ JobSettles(j)'
    <3>0. j \in DOMAIN irpJobs /\ irpJobs' = irpJobs
      OBVIOUS
    <3>1. PICK q \in Requests : q = irpJobs[j].of
      BY <1>4, <3>0
    <3>2. CASE heads'[Finalize(j)] # heads[Finalize(j)]
      <4>1. OnFinalize(w, j) /\ thread[w].at \in Outcome /\ heads'[Finalize(j)] = thread[w].at
        BY <1>4, <3>0, <3>2 DEF OnFinalize
      <4>2. CASE thread[w].at = "raised"
        <5>1. irpJobs[j].status = "FINISHED"
          BY <1>4, <3>0, <3>2, JobLimit DEF Keyed
        <5> QED
          BY <3>0, <4>1, <4>2, <5>1, Zenon DEF Handled
      <4>3. CASE thread[w].at # "raised"
        <5>1. row[irpJobs[j].of].status # "pending"
          BY <3>0, <4>1, <4>3 DEF Settling, FinalizeEnds, Outcome, Ended
        <5> QED
          BY <3>0, <5>1 DEF JobSettles
      <4> QED
        BY <4>2, <4>3
    <3>3. CASE OnSubmit(w, q) /\ thread[w].at = "mark"
      <4>1. q \in log'.unmarked
        BY <3>3, Abouts DEF OnSubmit
      <4> QED
        BY <3>0, <3>1, <4>1 DEF JobSettles
    <3>4. CASE heads'[Finalize(j)] = heads[Finalize(j)] /\ ~ (OnSubmit(w, q) /\ thread[w].at = "mark")
      <4>1. Marking(q) => Marking(q)'
        BY <1>1, <3>4 DEF Marking, OnSubmit
      <4> QED
        BY <3>0, <3>1, <3>4, <4>1, Zenon DEF Handled
    <3> QED
      BY <3>2, <3>3, <3>4
  <2>4. log'.taken \in Nat /\ log'.taken >= log.taken
    BY Types
  <2> QED
    BY <1>2, <2>1, <2>2, <2>3, <2>4, SettlingKeeps
<1>14. SeenKept'
  <2>1. \A q \in Requests : ViewFair(w, q)'
    BY <1>3 DEF ViewFair
  <2> QED
    BY <1>1, <1>2, <2>1, SeenKeeps, Types
<1> QED
  BY <1>6, <1>7, <1>8, <1>9, <1>10, <1>11, <1>12, <1>13, <1>14

LEMMA CompleteKeeps ==
    ASSUME Inductive, NEW w \in Threads, Complete(w)
    PROVE  Inductive'
<1>. USE DEF Inductive
<1>1. /\ thread[w].at \in Outcome /\ thread' = [thread EXCEPT ![w] = Idle]
      /\ UNCHANGED <<world, rm, row, irpJobs, request, log, spent>>
      /\ heads' = IF heads[thread[w].head] = "running"
                    THEN [heads EXCEPT ![thread[w].head] = thread[w].at] ELSE heads
  BY DEF Complete, QueueKeeps
<1>2. thread[w] # Idle /\ thread[w].at \notin {"record", "mark"}
  BY <1>1, IdleFacts DEF Outcome
<1>3. heads' \in [Heads -> {"absent", "pending", "running"} \cup Outcome]
  BY <1>1 DEF Typed
<1>4. thread' \in [Threads -> Thread]
  BY <1>1, IdleFacts DEF Typed
<1>5. Typed'
  BY <1>1, <1>3, <1>4 DEF Typed
<1>6. \A h \in Heads :
          \/ heads'[h] = heads[h]
          \/ /\ h = thread[w].head /\ heads[h] = "running"
             /\ thread[w].at \in Outcome /\ heads'[h] = thread[w].at
  BY <1>1 DEF Typed
<1>7. log'.doubt >= log.doubt
  BY <1>1, Types
<1> QED
  BY <1>1, <1>2, <1>5, <1>6, <1>7, LetGo

\* What an interrupted body leaves in the history.
LEMMA InterruptsEffect ==
    ASSUME Inductive, NEW w \in Threads, Interrupts(w), thread' \in [Threads -> Thread]
    PROVE  /\ Typed' /\ UNCHANGED <<rm, row, irpJobs, request, heads>>
           /\ log'.taken = log.taken /\ log.unmarked \subseteq log'.unmarked
           /\ log'.doubt >= log.doubt
           /\ thread[w].at = "record" => log'.doubt = log.doubt + 1
           /\ thread[w].at = "mark" => About(thread[w].head) \in log'.unmarked
<1>. USE DEF Inductive
<1>1. /\ UNCHANGED <<world, rm, row, irpJobs, request, heads>>
      /\ spent.faults < MaxFaults /\ spent' = [spent EXCEPT !.faults = @ + 1]
  BY DEF Interrupts, QueueKeeps, Spend
<1>. DEFINE doubt == IF thread[w].at = "record" THEN log.doubt + 1 ELSE log.doubt
            unmarked == IF thread[w].at = "mark" THEN log.unmarked \cup {About(thread[w].head)}
                        ELSE log.unmarked
<1>2. log' = [log EXCEPT !.doubt = doubt, !.unmarked = unmarked]
  BY DEF Interrupts
<1>3. log \in Log /\ log.doubt \in Nat /\ log.taken \in Nat
  BY DEF Typed, Log
<1>4. doubt \in Nat /\ doubt >= log.doubt /\ (thread[w].at = "record" => doubt = log.doubt + 1)
  BY <1>3
<1>5. /\ unmarked \in SUBSET Requests /\ log.unmarked \subseteq unmarked
      /\ thread[w].at = "mark" => About(thread[w].head) \in unmarked
  <2>1. thread[w].at = "mark" => About(thread[w].head) \in Requests
    BY Working DEF SubmitAt
  <2> QED
    BY <1>3, <2>1 DEF Log
<1>. HIDE DEF doubt, unmarked
<1>6. /\ log' \in Log /\ log'.taken = log.taken
      /\ log'.doubt = doubt /\ log'.unmarked = unmarked
  BY <1>2, <1>3, <1>4, <1>5 DEF Log
<1>7. spent' \in Budget /\ spent'.faults = spent.faults + 1
  <2>1. spent \in Budget
    BY DEF Typed
  <2> QED
    BY <1>1, <2>1 DEF Budget
<1>8. log'.taken <= spent'.faults /\ spent'.faults <= MaxFaults
  BY SMTT(60), <1>1, <1>3, <1>6, <1>7, ConstantFacts DEF Typed, Budget
<1>9. Typed'
  BY <1>1, <1>6, <1>7, <1>8 DEF Typed
<1> QED
  BY <1>1, <1>4, <1>5, <1>6, <1>9

LEMMA CrashKeeps ==
    ASSUME Inductive, NEW w \in Threads, Crash(w)
    PROVE  Inductive'
<1>1. thread[w] # Idle /\ thread' = [thread EXCEPT ![w] = Idle] /\ Interrupts(w)
  BY DEF Crash
<1>2. thread' \in [Threads -> Thread]
  BY <1>1, IdleFacts DEF Inductive, Typed
<1>3. /\ Typed' /\ UNCHANGED <<rm, row, irpJobs, request, heads>>
      /\ log'.taken = log.taken /\ log.unmarked \subseteq log'.unmarked
      /\ log'.doubt >= log.doubt
      /\ thread[w].at = "record" => log'.doubt = log.doubt + 1
      /\ thread[w].at = "mark" => About(thread[w].head) \in log'.unmarked
  BY <1>1, <1>2, InterruptsEffect
<1> QED
  BY <1>1, <1>3, LetGo

\* A body that raises keeps its job until run_job has written it failed; a raised
\* submission has no claim to have settled its row.
LEMMA RaisesKeeps ==
    ASSUME Inductive, NEW w \in Threads, Raises(w)
    PROVE  Inductive'
<1>. USE DEF Inductive
<1>1. thread[w].at \notin Outcome \cup {"idle"} /\ Go(w, "raised") /\ Interrupts(w)
  BY DEF Raises
<1>2. Moves(w, "raised")
  BY <1>1, Goes DEF Places
<1>3. /\ Typed' /\ UNCHANGED <<rm, row, irpJobs, request, heads>>
      /\ log'.taken = log.taken /\ log.unmarked \subseteq log'.unmarked
      /\ log'.doubt >= log.doubt
      /\ thread[w].at = "record" => log'.doubt = log.doubt + 1
      /\ thread[w].at = "mark" => About(thread[w].head) \in log'.unmarked
  BY <1>1, <1>2, InterruptsEffect DEF Moves
<1>4. GroupsGrow /\ JobsGrow /\ RowsStay
  BY <1>3, Unchanging
<1>5. /\ thread'[w].at = "raised" /\ thread[w].at # "idle"
      /\ \A v \in Threads \ {w} : thread'[v] = thread[v]
      /\ \A v \in Threads : thread'[v].head = thread[v].head
  BY <1>1, <1>2 DEF Moves
<1>6. \A v \in Threads, q \in Requests : OnSubmit(v, q)' <=> OnSubmit(v, q)
  BY <1>5 DEF OnSubmit
<1>7. Placed'
  BY <1>2, <1>4, <1>5, BodyPlaced DEF Places, SubmitAt, FinalizeAt, WriterAt, NamedAt
<1>8. Keyed'
  <2>1. /\ \A h \in Heads : heads'[h] = "absent" <=> heads[h] = "absent"
        /\ \A v \in Threads : thread'[v].head \in Heads \cup {None}
    BY <1>3 DEF Typed, Thread
  <2> QED
    BY <1>3, <1>5, <2>1, QueueKeyed
<1>9. JobsKept'
  BY <1>3, <1>4, JobsKeptKeeps
<1>10. AllSubmitting'
  BY <1>4, <1>5, SubmittingKeeps DEF Submitting, NamedAt
<1>11. JobBudget'
  <2>1. \A v \in Threads : thread'[v].at \in WriterAt => thread[v].at \in WriterAt
    BY <1>5 DEF WriterAt, NamedAt
  <2>2. log'.taken >= log.taken
    BY <1>3, Types
  <2> QED
    BY <1>3, <1>6, <2>1, <2>2, JobBudgetKeeps
<1>12. GroupBudget'
  <2>1. CASE thread[w].at # "record"
    <3>1. \A v \in Threads, q \in Requests :
              OnSubmit(v, q) /\ thread[v].at = "record" => OnSubmit(v, q)' /\ thread'[v].at = "record"
      BY <1>5, <1>6, <2>1
    <3> QED
      BY <1>3, <1>4, <3>1, GroupBudgetKeeps
  <2>2. CASE thread[w].at = "record"
    <3>0. SUFFICES ASSUME NEW q \in Requests
                   PROVE  Cardinality(GroupsOf(q)') <= Cardinality(RecordedOf(q)')
                              + Cardinality(RecordingOf(q)') + log'.doubt
      BY DEF GroupBudget
    <3>1. Cardinality(GroupsOf(q)) <= Cardinality(RecordedOf(q)) + Cardinality(RecordingOf(q)) + log.doubt
      BY DEF GroupBudget
    <3>2. GroupsOf(q)' = GroupsOf(q) /\ RecordedOf(q)' = RecordedOf(q)
      BY <1>3 DEF GroupsOf, RecordedOf
    <3>3. RecordingOf(q) \subseteq RecordingOf(q)' \cup {w}
      BY <1>5, <1>6 DEF RecordingOf
    <3>4. Cardinality(RecordingOf(q)) <= Cardinality(RecordingOf(q)') + 1
      BY <1>3, <3>3, NextGroupSizes, AtMostOneMore
    <3>5. log'.doubt = log.doubt + 1
      BY <1>3, <2>2
    <3> QED
      BY <1>3, <3>1, <3>2, <3>4, <3>5, GroupSizes, NextGroupSizes
  <2> QED
    BY <2>1, <2>2
<1>13. NamesKept'
  <2>1. \A q \in Requests : NameKnown(w, q)'
    BY <1>5 DEF NameKnown, NamedAt
  <2>2. \A j \in DOMAIN irpJobs' : NameRead(w, j)'
    BY <1>5 DEF NameRead
  <2>3. \A v \in Threads :
            \/ thread'[v] = thread[v]
            \/ log'.taken = 0 =>
                  /\ \A q \in Requests : OnSubmit(v, q)' => NameKnown(v, q)'
                  /\ \A j \in DOMAIN irpJobs' : OnFinalize(v, j)' => NameRead(v, j)'
    BY <1>5, <2>1, <2>2
  <2> QED
    BY <1>3, <1>4, <2>3, NamesKeeps
<1>14. Settling'
  <2>1. \A v \in Threads :
            \/ thread'[v] = thread[v]
            \/ /\ \A q \in Requests : RunEnds(v, q)'
               /\ \A j \in DOMAIN irpJobs' : FinalizeEnds(v, j)'
    BY <1>5 DEF RunEnds, FinalizeEnds, Ended
  <2>2. ASSUME NEW j \in DOMAIN irpJobs' PROVE (Handled(j) => Handled(j)') \/ JobSettles(j)'
    <3>0. j \in DOMAIN irpJobs /\ irpJobs' = irpJobs /\ heads' = heads
      BY <1>3
    <3>1. PICK q \in Requests : q = irpJobs[j].of
      BY <3>0, Types
    <3>2. CASE OnSubmit(w, q) /\ thread[w].at = "mark"
      <4>1. q \in log'.unmarked
        BY <1>3, <3>2, Abouts DEF OnSubmit
      <4> QED
        BY <3>0, <3>1, <4>1 DEF JobSettles
    <3>3. CASE ~ (OnSubmit(w, q) /\ thread[w].at = "mark")
      <4>1. Marking(q) => Marking(q)'
        BY <1>5, <1>6, <3>3 DEF Marking
      <4> QED
        BY <3>0, <3>1, <4>1, Zenon DEF Handled
    <3> QED
      BY <3>2, <3>3
  <2> QED
    BY <1>3, <1>4, <2>1, <2>2, SettlingKeeps
<1>15. SeenKept'
  <2>1. \A q \in Requests : ViewFair(w, q)'
    BY <1>5 DEF ViewFair
  <2> QED
    BY <1>3, <1>4, <1>5, <2>1, SeenKeeps, Types
<1> QED
  BY <1>3, <1>7, <1>8, <1>9, <1>10, <1>11, <1>12, <1>13, <1>14, <1>15

\* A job is pending again: reclaimed, or resubmitted.
LEMMA Requeued ==
    ASSUME Inductive, Typed', NEW h \in Heads, heads[h] \in {"running", "failed", "raised"},
           heads' = [heads EXCEPT ![h] = "pending"], UNCHANGED <<rm, row, irpJobs, request, thread>>,
           log'.doubt = log.doubt, log'.unmarked = log.unmarked,
           log'.taken >= log.taken,
           heads[h] = "running" /\ (\E w \in Threads : thread[w].head = h) => log'.taken = log.taken + 1
    PROVE  Inductive'
<1>. USE DEF Inductive
<1>1. GroupsGrow /\ JobsGrow /\ RowsStay
  BY Unchanging
<1>2. heads'[h] = "pending" /\ \A g \in Heads : g # h => heads'[g] = heads[g]
  BY DEF Typed
<1>3. Placed'
  BY <1>1, PlacedKeeps
<1>4. Keyed'
  <2>1. \A g \in Heads : heads'[g] = "absent" <=> heads[g] = "absent"
    BY <1>2
  <2>2. \A v \in Threads : thread'[v].head \in Heads \cup {None}
    BY DEF Typed, Thread
  <2> QED
    BY <2>1, <2>2, QueueKeyed
<1>5. JobsKept'
  BY <1>1, JobsKeptKeeps
<1>6. AllSubmitting'
  BY <1>1, SubmittingKeeps
<1>7. JobBudget'
  <2>0. SUFFICES ASSUME NEW Q \in SUBSET Requests PROVE JobTotal(Q)'
    BY DEF JobBudget, JobTotal
  <2>1. \A p \in Requests : (Unserved(p)' <=> Unserved(p)) /\ (Attended(p)' <=> Attended(p))
    BY DEF Unserved, Attended, OnSubmit
  <2>2. JobsOf(Q)' \subseteq JobsOf(Q)
    BY DEF JobsOf
  <2>3. StaffOf(Q)' \subseteq StaffOf(Q)
    BY <2>1 DEF StaffOf, OnSubmit
  <2>4. ServedOf(Q) \subseteq ServedOf(Q)'
    BY <2>1 DEF ServedOf
  <2>5. CASE \E q \in Q : h = Submit(q) /\ Attended(q) /\ heads[h] = "running"
    <3>1. PICK q \in Requests : q \in Q /\ h = Submit(q) /\ Attended(q) /\ heads[h] = "running"
      BY <2>5
    <3>2. log'.taken = log.taken + 1
      BY <3>1 DEF Attended, OnSubmit
    <3>3. LooseOf(Q)' \subseteq LooseOf(Q) \cup {q}
      <4>1. ASSUME NEW p \in Requests, p # q PROVE heads'[Submit(p)] = heads[Submit(p)]
        BY <1>2, <3>1, <4>1, HeadFacts
      <4> QED
        BY <2>1, <4>1 DEF LooseOf
    <3>4. Cardinality(LooseOf(Q)') <= Cardinality(LooseOf(Q)) + 1
      BY <3>3, Sizes, AtMostOneMore
    <3>5. /\ Cardinality(JobsOf(Q)') <= Cardinality(JobsOf(Q))
          /\ Cardinality(StaffOf(Q)') <= Cardinality(StaffOf(Q))
          /\ Cardinality(ServedOf(Q)) <= Cardinality(ServedOf(Q)')
      BY <2>2, <2>3, <2>4, Sizes, NextSizes, NoMore
    <3>6. /\ Cardinality(JobsOf(Q)) \in Nat /\ Cardinality(JobsOf(Q)') \in Nat
          /\ Cardinality(StaffOf(Q)) \in Nat /\ Cardinality(StaffOf(Q)') \in Nat
          /\ Cardinality(LooseOf(Q)) \in Nat /\ Cardinality(LooseOf(Q)') \in Nat
          /\ Cardinality(ServedOf(Q)) \in Nat /\ Cardinality(ServedOf(Q)') \in Nat
          /\ log.taken \in Nat /\ log'.taken \in Nat
      BY Sizes, NextSizes
    <3>7. Cardinality(JobsOf(Q)) + Cardinality(StaffOf(Q)) + Cardinality(LooseOf(Q))
              <= Cardinality(ServedOf(Q)) + log.taken
      BY DEF JobBudget
    <3> QED
      BY <3>2, <3>4, <3>5, <3>6, <3>7 DEF JobTotal
  <2>6. CASE ~ \E q \in Q : h = Submit(q) /\ Attended(q) /\ heads[h] = "running"
    <3>1. ASSUME NEW p \in Q, Attended(p), Unserved(p), heads'[Submit(p)] # "running"
          PROVE  heads[Submit(p)] # "running"
      <4>1. Submit(p) \in Heads
        BY HeadFacts
      <4> QED
        BY <1>2, <2>6, <3>1, <4>1
    <3>2. LooseOf(Q)' \subseteq LooseOf(Q)
      BY <2>1, <3>1 DEF LooseOf
    <3> QED
      BY <2>2, <2>3, <2>4, <3>2, TotalKeeps
  <2> QED
    BY <2>5, <2>6
<1>8. GroupBudget'
  <2>1. \A v \in Threads, q \in Requests :
            OnSubmit(v, q) /\ thread[v].at = "record" => OnSubmit(v, q)' /\ thread'[v].at = "record"
    BY DEF OnSubmit
  <2>2. log'.doubt >= log.doubt
    BY Types
  <2> QED
    BY <1>1, <2>1, <2>2, GroupBudgetKeeps
<1>9. log'.taken \in Nat /\ (log'.taken = 0 => log.taken = 0)
  BY Types, NextTypes
<1>10. NamesKept'
  BY <1>1, <1>9, NamesKeeps
<1>11. Settling'
  <2>1. \A q \in Requests : heads'[Submit(q)] \in Ended => heads[Submit(q)] \in Ended
    BY <1>2, HeadFacts DEF Ended
  <2>2. ASSUME NEW j \in DOMAIN irpJobs' PROVE Handled(j) => Handled(j)'
    <3>1. heads[Finalize(j)] \in {"pending", "running", "raised"} =>
              heads'[Finalize(j)] \in {"pending", "running", "raised"}
      BY <1>2, JobLimit
    <3>2. Marking(irpJobs[j].of)' <=> Marking(irpJobs[j].of)
      BY DEF Marking, OnSubmit
    <3> QED
      BY <3>1, <3>2, Zenon DEF Handled
  <2> QED
    BY <1>1, <1>9, <2>1, <2>2, SettlingKeeps
<1>12. SeenKept'
  BY <1>1, SeenKeeps, Types
<1> QED
  BY <1>3, <1>4, <1>5, <1>6, <1>7, <1>8, <1>10, <1>11, <1>12

LEMMA ReclaimKeeps ==
    ASSUME Inductive, NEW h \in Heads, Reclaim(h)
    PROVE  Inductive'
<1>. USE DEF Inductive
<1>1. /\ heads[h] = "running" /\ heads' = [heads EXCEPT ![h] = "pending"]
      /\ UNCHANGED <<world, rm, row, irpJobs, request, thread>>
  BY DEF Reclaim, QueueKeeps, SetHead
<1>2. heads' \in [Heads -> {"absent", "pending", "running"} \cup Outcome]
  BY <1>1 DEF Typed
<1>3. log \in Log /\ log.doubt \in Nat /\ log.taken \in Nat
  BY DEF Typed, Log
<1>4. CASE \E w \in Threads : thread[w].head = h
  <2>1. /\ spent.faults < MaxFaults /\ spent' = [spent EXCEPT !.faults = @ + 1]
        /\ log' = [log EXCEPT !.taken = @ + 1]
    BY <1>4 DEF Reclaim, Spend
  <2>2. /\ log' \in Log /\ log'.taken = log.taken + 1 /\ log'.doubt = log.doubt
        /\ log'.unmarked = log.unmarked
    BY <1>3, <2>1 DEF Log
  <2>3. spent' \in Budget /\ spent'.faults = spent.faults + 1
    BY <2>1 DEF Typed, Budget
  <2>4. log'.taken <= spent'.faults /\ spent'.faults <= MaxFaults
    BY SMTT(60), <1>3, <2>1, <2>2, <2>3, ConstantFacts DEF Typed, Budget
  <2>5. Typed'
    BY <1>1, <1>2, <2>2, <2>3, <2>4 DEF Typed
  <2>6. log'.taken >= log.taken
    BY <1>3, <2>2
  <2> QED
    BY <1>1, <2>2, <2>5, <2>6, Requeued
<1>5. CASE ~ \E w \in Threads : thread[w].head = h
  <2>1. UNCHANGED <<log, spent>>
    BY <1>5 DEF Reclaim
  <2>2. Typed'
    BY <1>1, <1>2, <2>1 DEF Typed
  <2>3. log'.taken >= log.taken
    BY <1>3, <2>1
  <2> QED
    BY <1>1, <1>5, <2>1, <2>2, <2>3, Requeued
<1> QED
  BY <1>4, <1>5

LEMMA ResubmitKeeps ==
    ASSUME Inductive, NEW h \in Heads, Resubmit(h)
    PROVE  Inductive'
<1>. USE DEF Inductive
<1>1. /\ heads[h] \in {"failed", "raised"} /\ heads' = [heads EXCEPT ![h] = "pending"]
      /\ UNCHANGED <<world, rm, row, irpJobs, request, thread, log>>
      /\ spent' = [spent EXCEPT !.resubmits = @ + 1]
  BY DEF Resubmit, RequestKeeps, SetHead, Spend
<1>2. heads' \in [Heads -> {"absent", "pending", "running"} \cup Outcome]
  BY <1>1 DEF Typed
<1>3. spent' \in Budget /\ spent'.faults = spent.faults
  <2>1. spent \in Budget
    BY DEF Typed
  <2> QED
    BY <1>1, <2>1 DEF Budget
<1>4. Typed'
  BY <1>1, <1>2, <1>3 DEF Typed
<1>5. log'.taken >= log.taken
  BY <1>1, Types
<1> QED
  BY <1>1, <1>4, <1>5, Requeued

-----------------------------------------------------------------------------
(* The poller *)

LEMMA PollKeeps ==
    ASSUME Inductive, NEW j \in DOMAIN irpJobs, Poll(j)
    PROVE  Inductive'
<1>. USE DEF Inductive
<1>1. /\ irpJobs[j].status = "QUEUED" /\ rm[irpJobs[j].group].state # "running"
      /\ UNCHANGED <<world, rm, request, thread, log, spent>>
  BY DEF Poll
<1>2. PICK q \in Requests : q = irpJobs[j].of
  BY Types
<1>. DEFINE finished == rm[irpJobs[j].group].state = "finished"
<1>3. \E st \in {"FINISHED", "FAILED"} : /\ irpJobs' = [irpJobs EXCEPT ![j].status = st]
                                         /\ st = "FINISHED" <=> finished
  BY DEF Poll
<1>4. finished => heads' = [heads EXCEPT ![Finalize(j)] = "pending"] /\ row' = row
  BY DEF Poll, SetHead
<1>5. ~ finished => row' = [row EXCEPT ![q].status = "error"] /\ heads' = heads
  BY <1>2 DEF Poll
<1>6. PICK st \in {"FINISHED", "FAILED"} : /\ irpJobs' = [irpJobs EXCEPT ![j].status = st]
                                           /\ st = "FINISHED" <=> finished
  BY <1>3
<1>. HIDE DEF finished
<1>. DEFINE e == [irpJobs[j] EXCEPT !.status = st]
<1>7. e \in Job /\ e.of = q /\ e.group = irpJobs[j].group /\ e.status = st
  <2>1. irpJobs[j] \in Job /\ st \in JobStatus
    BY Types DEF JobStatus
  <2> QED
    BY <1>2, <2>1 DEF Job
<1>8. irpJobs' = [irpJobs EXCEPT ![j] = e]
  BY <1>6
<1>. HIDE DEF e
<1>9. /\ irpJobs' \in Seq(Job) /\ DOMAIN irpJobs' = DOMAIN irpJobs /\ irpJobs'[j] = e
      /\ \A i \in DOMAIN irpJobs : i # j => irpJobs'[i] = irpJobs[i]
  BY <1>7, <1>8, Types
<1>10. Finalize(j) \in Heads /\ j \in Nat /\ j \in 1..MaxJobs
  BY JobLimit, Types
<1>11. /\ heads' \in [Heads -> {"absent", "pending", "running"} \cup Outcome]
       /\ \A h \in Heads : h # Finalize(j) => heads'[h] = heads[h]
       /\ finished => heads'[Finalize(j)] = "pending"
       /\ ~ finished => heads' = heads
  BY <1>4, <1>5, <1>10 DEF Typed
<1>12. /\ row' \in [Requests -> GroupRow] /\ \A p \in Requests \ {q} : row'[p] = row[p]
       /\ row'[q].pointer = row[q].pointer /\ row'[q].name = row[q].name
       /\ row'[q].status \in {row[q].status, "error"}
       /\ finished => row' = row
       /\ ~ finished => row'[q].status = "error"
  <2>1. CASE finished
    BY <1>4, <2>1 DEF Typed
  <2>2. CASE ~ finished
    <3>. DEFINE r == [row[q] EXCEPT !.status = "error"]
    <3>1. row[q] \in GroupRow
      BY DEF Typed
    <3>2. r \in GroupRow /\ r.status = "error" /\ r.pointer = row[q].pointer /\ r.name = row[q].name
      BY <3>1 DEF GroupRow
    <3>3. row' = [row EXCEPT ![q] = r]
      BY <1>5, <2>2
    <3>. HIDE DEF r
    <3>4. row' \in [Requests -> GroupRow] /\ row'[q] = r /\ \A p \in Requests \ {q} : row'[p] = row[p]
      BY <3>2, <3>3, RowSet
    <3> QED
      BY <2>2, <3>2, <3>4
  <2> QED
    BY <2>1, <2>2
<1>13. Typed'
  BY <1>1, <1>9, <1>11, <1>12 DEF Typed
<1>14. row[q].status # "none" /\ row'[q].status # "none" /\ ~ Unserved(q)
  BY <1>2, <1>12 DEF Keyed, Unserved
<1>15. GroupsGrow /\ JobsGrow /\ RowsStay
  <2>1. JobsGrow
    BY <1>2, <1>7, <1>9 DEF JobsGrow
  <2>2. RowsStay
    BY <1>12, <1>14 DEF RowsStay
  <2> QED
    BY <1>1, <2>1, <2>2, Unchanging
<1>16. \A p \in Requests : Submit(p) \in Heads /\ heads'[Submit(p)] = heads[Submit(p)]
  BY <1>10, <1>11, HeadFacts
<1>17. \A i \in DOMAIN irpJobs : i # j => Finalize(i) \in Heads /\ heads'[Finalize(i)] = heads[Finalize(i)]
  <2>1. ASSUME NEW i \in DOMAIN irpJobs, i # j PROVE Finalize(i) # Finalize(j) /\ Finalize(i) \in Heads
    BY <1>10, <2>1, JobLimit, Types, HeadFacts
  <2> QED
    BY <1>11, <2>1
<1>18. \A p \in Requests : Unserved(p)' <=> Unserved(p)
  BY <1>2, <1>7, <1>9 DEF Unserved
<1>19. Placed'
  BY <1>1, <1>15, PlacedKeeps
<1>20. ASSUME NEW p \in Requests
       PROVE  /\ row'[p].pointer \in 0..Len(rm')
              /\ ~ Unserved(p)' => row'[p].status # "none"
              /\ row'[p].status # "none" => heads'[Submit(p)] # "absent"
  <2>1. /\ row[p].pointer \in 0..Len(rm)
        /\ ~ Unserved(p) => row[p].status # "none"
        /\ row[p].status # "none" => heads[Submit(p)] # "absent"
    BY DEF Keyed
  <2>2. row'[p].pointer = row[p].pointer /\ (row'[p].status = "none" <=> row[p].status = "none")
    BY <1>12, <1>14
  <2> QED
    BY <1>1, <1>16, <1>18, <2>1, <2>2
<1>21. Keyed'
  <2>1. \A p \in Requests : heads'[Submit(p)] # "absent" => request'[p].at = "posted"
    BY <1>1, <1>16 DEF Keyed
  <2>2. ASSUME NEW i \in 1..MaxJobs, heads'[Finalize(i)] # "absent"
        PROVE  i \in DOMAIN irpJobs' /\ irpJobs'[i].status = "FINISHED"
    <3>1. i \in Nat /\ Finalize(i) \in Heads /\ (Finalize(i) = Finalize(j) => i = j)
      <4>1. i \in Nat
        BY ConstantFacts
      <4> QED
        BY <1>10, <4>1, HeadFacts
    <3>2. CASE i = j /\ finished
      BY <1>6, <1>7, <1>9, <3>2
    <3>3. CASE i = j /\ ~ finished
      <4>1. heads[Finalize(i)] # "absent"
        BY <1>11, <2>2, <3>3
      <4>2. irpJobs[j].status = "FINISHED"
        BY <3>3, <4>1 DEF Keyed
      <4> QED
        BY <1>1, <4>2
    <3>4. CASE i # j
      <4>1. heads[Finalize(i)] # "absent"
        BY <1>11, <2>2, <3>1, <3>4
      <4>2. i \in DOMAIN irpJobs /\ irpJobs[i].status = "FINISHED"
        BY <4>1 DEF Keyed
      <4> QED
        BY <1>9, <3>4, <4>2
    <3> QED
      BY <3>2, <3>3, <3>4
  <2>3. \A w \in Threads : thread'[w].head # None => heads'[thread'[w].head] # "absent"
    <3>1. \A w \in Threads : thread[w].head # None => thread[w].head \in Heads
      BY DEF Typed, Thread
    <3>2. \A h \in Heads : heads[h] # "absent" => heads'[h] # "absent"
      BY <1>11
    <3> QED
      BY <1>1, <3>1, <3>2 DEF Keyed
  <2> QED
    BY <1>20, <2>1, <2>2, <2>3 DEF Keyed
<1>22. JobsKept'
  <2>1. JobKept(j)
    BY DEF JobsKept
  <2>2. /\ irpJobs[j].group \in 0..Len(rm) /\ irpJobs[j].group # 0
        /\ rm[irpJobs[j].group].of = irpJobs[j].of
    BY <1>1, <2>1 DEF JobKept
  <2>3. JobKept(j)'
    BY <1>1, <1>2, <1>6, <1>7, <1>9, <2>2 DEF JobKept, finished
  <2> QED
    BY <1>9, <1>13, <1>15, <2>3, JobsKeptKeeps
<1>23. AllSubmitting'
  BY <1>1, <1>15, SubmittingKeeps
<1>24. JobBudget'
  <2>1. \A v \in Threads, p \in Requests :
            /\ OnSubmit(v, p)' <=> OnSubmit(v, p)
            /\ OnSubmit(v, p) /\ thread'[v].at \in WriterAt => thread[v].at \in WriterAt \/ Unserved(p)
    BY <1>1 DEF OnSubmit
  <2>2. log'.taken >= log.taken
    BY <1>1, Types
  <2>3. \A i \in DOMAIN irpJobs : irpJobs'[i].of = irpJobs[i].of
    BY <1>15 DEF JobsGrow
  <2> QED
    BY <1>9, <1>13, <1>16, <2>1, <2>2, <2>3, JobBudgetKeeps
<1>25. GroupBudget'
  <2>1. \A v \in Threads, p \in Requests :
            OnSubmit(v, p) /\ thread[v].at = "record" => OnSubmit(v, p)' /\ thread'[v].at = "record"
    BY <1>1 DEF OnSubmit
  <2>2. log'.doubt >= log.doubt
    BY <1>1, Types
  <2> QED
    BY <1>1, <1>13, <1>15, <2>1, <2>2, GroupBudgetKeeps
<1>26. NamesKept'
  <2>1. log.taken = 0 => Pointed(q)'
    BY <1>1, <1>12 DEF NamesKept, Pointed
  <2>2. \A p \in Requests : \/ row'[p].status = row[p].status /\ row'[p].pointer = row[p].pointer
                            \/ log'.taken = 0 => Pointed(p)'
    BY <1>1, <1>12, <2>1
  <2>3. \A p \in Requests : row'[p].name = row[p].name /\ row'[p].pointer = row[p].pointer
    BY <1>12
  <2> QED
    BY <1>1, <1>9, <1>13, <1>15, <2>2, <2>3, NamesKeeps
<1>27. Settling'
  <2>1. \A p \in Requests :
            /\ row'[p].status = "pending" => row[p].status = "pending"
            /\ row[p].status = "none" => row'[p].status = "none"
            /\ heads'[Submit(p)] \in Ended => heads[Submit(p)] \in Ended
    BY <1>12, <1>14, <1>16
  <2>2. ASSUME NEW i \in DOMAIN irpJobs, i # j PROVE Handled(i) => Handled(i)'
    <3>1. irpJobs'[i] = irpJobs[i] /\ heads'[Finalize(i)] = heads[Finalize(i)]
      BY <1>9, <1>17, <2>2
    <3>2. Marking(irpJobs[i].of) => Marking(irpJobs[i].of)'
      BY <1>1, <3>1 DEF Marking, OnSubmit
    <3> QED
      BY <3>1, <3>2, Zenon DEF Handled
  <2>3. CASE finished
    <3>1. Handled(j)'
      BY <1>6, <1>7, <1>9, <1>11, <2>3, Zenon DEF Handled
    <3>2. JobSettles(j)'
      BY <3>1 DEF JobSettles
    <3> QED
      BY <1>1, <1>9, <1>15, <2>1, <2>2, <3>2, SettlingKeeps, Types
  <2>4. CASE ~ finished
    <3>1. JobSettles(j)'
      BY <1>7, <1>9, <1>12, <2>4 DEF JobSettles
    <3> QED
      BY <1>1, <1>9, <1>15, <2>1, <2>2, <3>1, SettlingKeeps, Types
  <2> QED
    BY <2>3, <2>4
<1>28. SeenKept'
  BY <1>1, <1>15, SeenKeeps, Types
<1> QED
  BY <1>13, <1>19, <1>21, <1>22, <1>23, <1>24, <1>25, <1>26, <1>27, <1>28

-----------------------------------------------------------------------------
(* Requests of analysts *)

\* A request that is not posted yet has no job, no row and no thread.
LEMMA Unasked ==
    ASSUME Typed, Keyed, NEW q \in Requests, request[q].at # "posted"
    PROVE  /\ heads[Submit(q)] = "absent" /\ row[q].status = "none" /\ Unserved(q)
           /\ \A w \in Threads : ~ OnSubmit(w, q)
<1>1. heads[Submit(q)] = "absent"
  BY DEF Keyed
<1>2. row[q].status = "none" /\ Unserved(q)
  BY <1>1 DEF Keyed
<1>3. \A w \in Threads : ~ OnSubmit(w, q)
  <2>1. Submit(q) # None
    BY HeadFacts
  <2> QED
    BY <1>1, <2>1 DEF Keyed, OnSubmit
<1> QED
  BY <1>1, <1>2, <1>3

\* A dialog that is opened or posted.
LEMMA Asked ==
    ASSUME Inductive, Typed', NEW q \in Requests, request[q].at # "posted",
           UNCHANGED <<rm, row, irpJobs, thread, log>>,
           \A p \in Requests : p # q => request'[p] = request[p],
           \/ heads' = heads
           \/ heads' = [heads EXCEPT ![Submit(q)] = "pending"] /\ request'[q].at = "posted"
    PROVE  Inductive'
<1>. USE DEF Inductive
<1>1. GroupsGrow /\ JobsGrow /\ RowsStay
  BY Unchanging
<1>2. heads[Submit(q)] = "absent" /\ Submit(q) \in Heads
  BY Unasked, HeadFacts
<1>3. /\ \A h \in Heads : h # Submit(q) => heads'[h] = heads[h]
      /\ heads'[Submit(q)] \in {"absent", "pending"}
      /\ heads'[Submit(q)] = "pending" => request'[q].at = "posted"
  BY <1>2 DEF Typed
<1>4. \A p \in Requests : p # q => heads'[Submit(p)] = heads[Submit(p)]
  BY <1>3, HeadFacts
<1>5. \A j \in DOMAIN irpJobs : heads'[Finalize(j)] = heads[Finalize(j)]
  BY <1>3, JobLimit, Types, HeadFacts
<1>6. Placed'
  BY <1>1, PlacedKeeps
<1>7. Keyed'
  <2>1. \A p \in Requests : heads'[Submit(p)] # "absent" => request'[p].at = "posted"
    BY <1>3, <1>4 DEF Keyed
  <2>2. ASSUME NEW j \in 1..MaxJobs, heads'[Finalize(j)] # "absent"
        PROVE  j \in DOMAIN irpJobs' /\ irpJobs'[j].status = "FINISHED"
    <3>1. j \in Nat
      BY ConstantFacts
    <3>2. Finalize(j) \in Heads /\ Finalize(j) # Submit(q)
      BY <3>1, HeadFacts
    <3>3. heads[Finalize(j)] # "absent"
      BY <1>3, <2>2, <3>2
    <3> QED
      BY <3>3 DEF Keyed
  <2>3. \A w \in Threads : thread'[w].head # None => heads'[thread'[w].head] # "absent"
    <3>1. \A w \in Threads : thread[w].head # None => thread[w].head \in Heads
      BY DEF Typed, Thread
    <3>2. \A h \in Heads : heads[h] # "absent" => heads'[h] # "absent"
      BY <1>2, <1>3
    <3> QED
      BY <3>1, <3>2 DEF Keyed
  <2>4. \A p \in Requests : /\ row'[p].pointer \in 0..Len(rm')
                            /\ ~ Unserved(p)' => row'[p].status # "none"
                            /\ row'[p].status # "none" => heads'[Submit(p)] # "absent"
    BY <1>2, <1>4 DEF Keyed, Unserved
  <2> QED
    BY <2>1, <2>2, <2>3, <2>4 DEF Keyed
<1>8. JobsKept'
  BY <1>1, JobsKeptKeeps
<1>9. AllSubmitting'
  BY <1>1, SubmittingKeeps
<1>10. JobBudget'
  <2>1. \A v \in Threads, p \in Requests :
            /\ OnSubmit(v, p)' <=> OnSubmit(v, p)
            /\ OnSubmit(v, p) /\ thread'[v].at \in WriterAt => thread[v].at \in WriterAt \/ Unserved(p)
    BY DEF OnSubmit
  <2>2. \A p \in Requests : heads[Submit(p)] = "running" => heads'[Submit(p)] = "running"
    BY <1>2, <1>4
  <2>3. log'.taken >= log.taken
    BY Types
  <2> QED
    BY <2>1, <2>2, <2>3, JobBudgetKeeps
<1>11. GroupBudget'
  <2>1. \A v \in Threads, p \in Requests :
            OnSubmit(v, p) /\ thread[v].at = "record" => OnSubmit(v, p)' /\ thread'[v].at = "record"
    BY DEF OnSubmit
  <2>2. log'.doubt >= log.doubt
    BY Types
  <2> QED
    BY <1>1, <2>1, <2>2, GroupBudgetKeeps
<1>12. NamesKept'
  BY <1>1, NamesKeeps
<1>13. Settling'
  <2>1. \A p \in Requests : heads'[Submit(p)] \in Ended => heads[Submit(p)] \in Ended
    BY <1>3, <1>4 DEF Ended
  <2>2. ASSUME NEW j \in DOMAIN irpJobs' PROVE Handled(j) => Handled(j)'
    <3>1. heads'[Finalize(j)] = heads[Finalize(j)] /\ irpJobs' = irpJobs
      BY <1>5
    <3>2. Marking(irpJobs[j].of)' <=> Marking(irpJobs[j].of)
      BY DEF Marking, OnSubmit
    <3> QED
      BY <3>1, <3>2, Zenon DEF Handled
  <2>3. log'.taken \in Nat /\ log'.taken >= log.taken
    BY Types
  <2> QED
    BY <1>1, <2>1, <2>2, <2>3, SettlingKeeps
<1>14. SeenKept'
  <2>1. \A p \in Requests : request[p].at = "posted" => request'[p] = request[p]
    OBVIOUS
  <2> QED
    BY <1>1, <2>1, SeenKeeps, Types
<1> QED
  BY <1>6, <1>7, <1>8, <1>9, <1>10, <1>11, <1>12, <1>13, <1>14

LEMMA OpenDialogKeeps ==
    ASSUME Inductive, NEW q \in Requests, OpenDialog(q)
    PROVE  Inductive'
<1>. USE DEF Inductive
<1>1. /\ request[q].at = "idle" /\ request' = [request EXCEPT ![q].at = "open", ![q].seen = world]
      /\ UNCHANGED <<world, rm, row, irpJobs, thread, log, heads, spent>>
  BY DEF OpenDialog, RequestKeeps
<1>. DEFINE d == [request[q] EXCEPT !.at = "open", !.seen = world]
<1>2. d \in Dialog
  <2>1. request[q] \in Dialog /\ world \in Worlds
    BY DEF Typed
  <2> QED
    BY <2>1 DEF Dialog
<1>3. request' = [request EXCEPT ![q] = d]
  BY <1>1 DEF Typed
<1>. HIDE DEF d
<1>4. request' \in [Requests -> Dialog] /\ \A p \in Requests : p # q => request'[p] = request[p]
  BY <1>2, <1>3 DEF Typed
<1>5. Typed'
  BY <1>1, <1>4 DEF Typed
<1> QED
  BY <1>1, <1>4, <1>5, Asked

LEMMA EnqueueKeeps ==
    ASSUME Inductive, NEW q \in Requests, NEW seen \in Worlds, NEW choice \in Postable,
           request[q].at # "posted", Enqueue(q, seen, choice), RequestKeeps, UNCHANGED spent
    PROVE  Inductive'
<1>. USE DEF Inductive
<1>. DEFINE d == [at |-> "posted", seen |-> seen, choice |-> choice, base |-> BaseName(q)]
<1>1. /\ FreeAttempts(q, << >>, 0) # {} /\ heads' = [heads EXCEPT ![Submit(q)] = "pending"]
      /\ request' = [request EXCEPT ![q] = d]
      /\ UNCHANGED <<world, rm, row, irpJobs, thread, log, spent>>
  BY DEF Enqueue, SetHead, RequestKeeps
<1>2. d \in Dialog /\ d.at = "posted"
  <2>1. << >> \in Seq(Nat) /\ 0 \in Nat
    OBVIOUS
  <2>2. BaseName(q) \in Seq(Nat)
    <3>1. Min(FreeAttempts(q, << >>, 0)) \in Nat
      BY <1>1, <2>1, FreeName
    <3> QED
      BY <2>1, <3>1, AttemptType DEF BaseName
  <2> QED
    BY <2>2 DEF Dialog
<1>. HIDE DEF d
<1>3. /\ request' \in [Requests -> Dialog] /\ request'[q].at = "posted"
      /\ \A p \in Requests : p # q => request'[p] = request[p]
  BY <1>1, <1>2 DEF Typed
<1>4. heads' \in [Heads -> {"absent", "pending", "running"} \cup Outcome]
  BY <1>1 DEF Typed
<1>5. Typed'
  BY <1>1, <1>3, <1>4 DEF Typed
<1> QED
  BY <1>1, <1>3, <1>5, Asked

LEMMA PostFormKeeps ==
    ASSUME Inductive, NEW q \in Requests, PostForm(q)
    PROVE  Inductive'
<1>1. PICK c \in FormChoices(Inspect(request[q].seen, Analyses)) : Enqueue(q, request[q].seen, c)
  BY DEF PostForm
<1>2. request[q].seen \in Worlds
  BY DEF Inductive, Typed, Dialog
<1>3. c \in Postable
  BY <1>2 DEF Postable
<1>4. request[q].at # "posted" /\ RequestKeeps /\ UNCHANGED spent
  BY DEF PostForm
<1> QED
  BY <1>1, <1>2, <1>3, <1>4, EnqueueKeeps

LEMMA PressFinishKeeps ==
    ASSUME Inductive, NEW q \in Requests, PressFinish(q)
    PROVE  Inductive'
<1>1. /\ request[q].at # "posted" /\ Enqueue(q, world, NoChoice)
      /\ RequestKeeps /\ UNCHANGED spent
  BY DEF PressFinish
<1>2. world \in Worlds /\ NoChoice \in Postable
  BY DEF Inductive, Typed, Postable
<1> QED
  BY <1>1, <1>2, EnqueueKeeps

-----------------------------------------------------------------------------
(* Risk Modeler *)

\* A step that moves nothing but Risk Modeler.
LEMMA Still ==
    ASSUME Inductive, Typed', GroupsGrow, DOMAIN rm' = DOMAIN rm,
           UNCHANGED <<row, irpJobs, heads, request, thread, log>>
    PROVE  Inductive'
<1>. USE DEF Inductive
<1>1. JobsGrow /\ RowsStay
  BY Unchanging
<1>2. Placed'
  BY <1>1, PlacedKeeps
<1>3. Keyed'
  <2>1. Len(rm) \in Nat /\ Len(rm') \in Nat /\ Len(rm) <= Len(rm')
    BY Types, NextTypes DEF GroupsGrow
  <2>2. \A q \in Requests : row'[q].pointer \in 0..Len(rm')
    BY <2>1 DEF Keyed
  <2>3. \A q \in Requests : /\ ~ Unserved(q)' => row'[q].status # "none"
                            /\ row'[q].status # "none" => heads[Submit(q)] # "absent"
    BY DEF Keyed, Unserved
  <2> QED
    BY <1>1, <2>2, <2>3, BodyKeyed
<1>4. JobsKept'
  BY <1>1, JobsKeptKeeps
<1>5. AllSubmitting'
  BY <1>1, SubmittingKeeps
<1>6. JobBudget'
  <2>1. \A v \in Threads, p \in Requests :
            /\ OnSubmit(v, p)' <=> OnSubmit(v, p)
            /\ OnSubmit(v, p) /\ thread'[v].at \in WriterAt => thread[v].at \in WriterAt \/ Unserved(p)
    BY DEF OnSubmit
  <2>2. log'.taken >= log.taken
    BY Types
  <2> QED
    BY <2>1, <2>2, JobBudgetKeeps
<1>7. GroupBudget'
  <2>1. \A v \in Threads, p \in Requests :
            OnSubmit(v, p) /\ thread[v].at = "record" => OnSubmit(v, p)' /\ thread'[v].at = "record"
    BY DEF OnSubmit
  <2>2. log'.doubt >= log.doubt
    BY Types
  <2>3. \A g \in DOMAIN rm : rm'[g].of = rm[g].of
    BY Types DEF GroupsGrow
  <2> QED
    BY <1>1, <2>1, <2>2, <2>3, GroupBudgetKeeps
<1>8. NamesKept'
  BY <1>1, NamesKeeps
<1>9. Settling'
  <2>1. ASSUME NEW j \in DOMAIN irpJobs' PROVE Handled(j) => Handled(j)'
    BY DEF Handled, Marking, OnSubmit
  <2>2. log'.taken \in Nat /\ log'.taken >= log.taken
    BY Types
  <2> QED
    BY <1>1, <2>1, <2>2, SettlingKeeps
<1>10. SeenKept'
  BY SeenKeeps, Types
<1> QED
  BY <1>2, <1>3, <1>4, <1>5, <1>6, <1>7, <1>8, <1>9, <1>10

LEMMA GroupEndsKeeps ==
    ASSUME Inductive, NEW g \in DOMAIN rm, GroupEnds(g)
    PROVE  Inductive'
<1>. USE DEF Inductive
<1>1. PICK st \in {"finished", "failed"} : rm' = [rm EXCEPT ![g].state = st]
  BY DEF GroupEnds
<1>2. rm[g].state = "running" /\ UNCHANGED <<world, row, irpJobs, heads, request, thread, log, spent>>
  BY DEF GroupEnds
<1>. DEFINE e == [rm[g] EXCEPT !.state = st]
<1>3. rm \in Seq(Group) /\ Len(rm) \in Nat /\ DOMAIN rm = 1..Len(rm) /\ rm[g] \in Group
  BY Types
<1>4. e \in Group /\ e.of = rm[g].of /\ e.name = rm[g].name /\ e.body = rm[g].body
  BY <1>3 DEF Group
<1>5. rm' = [rm EXCEPT ![g] = e]
  BY <1>1
<1>. HIDE DEF e
<1>6. /\ rm' \in Seq(Group) /\ DOMAIN rm' = DOMAIN rm /\ Len(rm') = Len(rm) /\ rm'[g] = e
      /\ \A i \in DOMAIN rm : i # g => rm'[i] = rm[i]
  BY <1>3, <1>4, <1>5
<1>7. GroupsGrow
  <2>1. Len(rm) <= Len(rm')
    BY <1>3, <1>6
  <2> QED
    BY <1>2, <1>3, <1>4, <1>6, <2>1 DEF GroupsGrow
<1>8. Typed'
  BY <1>2, <1>6 DEF Typed
<1> QED
  BY <1>2, <1>6, <1>7, <1>8, Still

LEMMA WorldChangesKeeps ==
    ASSUME Inductive, WorldChanges
    PROVE  Inductive'
<1>. USE DEF Inductive
<1>1. /\ world' \in Worlds /\ spent' = [spent EXCEPT !.changes = @ + 1]
      /\ UNCHANGED <<rm, row, irpJobs, heads, request, thread, log>>
  BY DEF WorldChanges, Spend
<1>2. spent' \in Budget /\ spent'.faults = spent.faults
  <2>1. spent \in Budget
    BY DEF Typed
  <2> QED
    BY <1>1, <2>1 DEF Budget
<1>3. Typed'
  BY <1>1, <1>2 DEF Typed
<1> QED
  BY <1>1, <1>3, Still, Unchanging

LEMMA StutterKeeps ==
    ASSUME Inductive, UNCHANGED vars
    PROVE  Inductive'
<1>. USE DEF Inductive
<1>1. UNCHANGED <<world, rm, row, irpJobs, heads, request, thread, log, spent>>
  BY DEF vars
<1>2. Typed'
  BY <1>1 DEF Typed
<1> QED
  BY <1>1, <1>2, Still, Unchanging

-----------------------------------------------------------------------------
(* The inductive invariant *)

LEMMA InitInductive == Init => Inductive
<1> SUFFICES ASSUME Init PROVE Inductive
  OBVIOUS
<1>1. /\ rm = << >> /\ irpJobs = << >> /\ heads = [h \in Heads |-> "absent"]
      /\ row = [q \in Requests |-> NoRow] /\ thread = [w \in Threads |-> Idle]
      /\ request = [q \in Requests |-> [at |-> "idle", seen |-> world, choice |-> NoChoice, base |-> << >>]]
      /\ log = [taken |-> 0, doubt |-> 0, unmarked |-> {}]
      /\ spent = [faults |-> 0, resubmits |-> 0, changes |-> 0] /\ world \in Worlds
  BY DEF Init
<1>2. /\ rm \in Seq(Group) /\ irpJobs \in Seq(Job) /\ DOMAIN rm = {} /\ DOMAIN irpJobs = {}
      /\ Len(rm) = 0
  BY <1>1
<1>3. \A q \in Requests : row[q].status = "none" /\ row[q].pointer = 0 /\ row[q] \in GroupRow
  <2>1. NoRow \in GroupRow /\ NoRow.status = "none" /\ NoRow.pointer = 0
    BY DEF NoRow, GroupRow
  <2> QED
    BY <1>1, <2>1
<1>4. \A w \in Threads : thread[w] = Idle
  BY <1>1
<1>5. \A h \in Heads : heads[h] = "absent"
  BY <1>1
<1>6. \A w \in Threads, q \in Requests : ~ OnSubmit(w, q)
  BY <1>4, IdleFacts, HeadFacts DEF OnSubmit
<1>7. Typed
  <2>1. row \in [Requests -> GroupRow] /\ thread \in [Threads -> Thread]
    BY <1>1, <1>3, IdleFacts DEF NoRow, GroupRow
  <2>2. request \in [Requests -> Dialog]
    BY <1>1 DEF Dialog, Postable
  <2>3. log \in Log /\ spent \in Budget /\ log.taken <= spent.faults /\ spent.faults <= MaxFaults
    BY <1>1, ConstantFacts DEF Log, Budget
  <2>4. heads \in [Heads -> {"absent", "pending", "running"} \cup Outcome]
    BY <1>1
  <2> QED
    BY <1>1, <1>2, <2>1, <2>2, <2>3, <2>4 DEF Typed
<1>8. Placed
  BY <1>4, IdleFacts DEF Placed, InBody, SubmitAt, FinalizeAt, WriterAt, NamedAt
<1>9. Keyed
  <2>1. \A q \in Requests : Unserved(q) /\ heads[Submit(q)] = "absent"
    BY <1>2, <1>5, HeadFacts DEF Unserved
  <2>2. \A j \in 1..MaxJobs : heads[Finalize(j)] = "absent"
    BY <1>5, HeadFacts
  <2>3. \A w \in Threads : thread[w].head = None
    BY <1>4, IdleFacts
  <2> QED
    BY <1>2, <1>3, <2>1, <2>2, <2>3 DEF Keyed
<1>10. JobsKept /\ AllSubmitting
  BY <1>2, <1>6 DEF JobsKept, AllSubmitting
<1>11. JobBudget
  <2> SUFFICES ASSUME NEW Q \in SUBSET Requests PROVE JobTotal(Q)
    BY DEF JobBudget, JobTotal
  <2>1. JobsOf(Q) = {} /\ StaffOf(Q) = {} /\ LooseOf(Q) = {}
    BY <1>2, <1>6 DEF JobsOf, StaffOf, LooseOf, Attended
  <2>2. Cardinality(JobsOf(Q)) = 0 /\ Cardinality(StaffOf(Q)) = 0 /\ Cardinality(LooseOf(Q)) = 0
    BY <2>1, FS_EmptySet
  <2> QED
    BY <1>7, <2>2, Sizes DEF JobTotal
<1>12. GroupBudget
  <2> SUFFICES ASSUME NEW q \in Requests
               PROVE  Cardinality(GroupsOf(q)) <= Cardinality(RecordedOf(q)) + Cardinality(RecordingOf(q))
                                                      + log.doubt
    BY DEF GroupBudget
  <2>1. GroupsOf(q) = {}
    BY <1>2 DEF GroupsOf
  <2>2. Cardinality(GroupsOf(q)) = 0
    BY <2>1, FS_EmptySet
  <2> QED
    BY <1>7, <2>2, GroupSizes
<1>13. NamesKept
  BY <1>2, <1>3, <1>6 DEF NamesKept, Pointed
<1>14. Settling
  <2>1. \A q \in Requests : HeadEnds(q)
    BY <1>5, HeadFacts DEF HeadEnds, Ended
  <2> QED
    BY <1>2, <1>6, <2>1 DEF Settling, RunEnds
<1>15. SeenKept
  BY <1>2, <1>6 DEF SeenKept, ViewFair
<1> QED
  BY <1>7, <1>8, <1>9, <1>10, <1>11, <1>12, <1>13, <1>14, <1>15 DEF Inductive

\* Every step keeps the invariant, by the lemma of its action.
LEMMA NextInductive == Inductive /\ [Next]_vars => Inductive'
<1> SUFFICES ASSUME Inductive, [Next]_vars PROVE Inductive'
  OBVIOUS
<1>1. ASSUME NEW w \in Threads, ThreadStep(w) PROVE Inductive'
  <2>1. ASSUME NEW h \in Heads, Claim(w, h) PROVE Inductive'
    BY <2>1, ClaimKeeps
  <2>2. CASE SubmitStep(w)
    BY <2>2, LookKeeps, ClaimGroupKeeps, CountNamedKeeps, RenameKeeps, ReinspectKeeps, PostKeeps,
       RecordKeeps, MarkKeeps DEF SubmitStep
  <2>3. CASE ReadRow(w)
    BY <2>3, ReadRowKeeps
  <2>4. CASE Resolve(w)
    BY <2>4, ResolveKeeps
  <2>5. CASE Finish(w)
    BY <2>5, FinishKeeps
  <2>6. CASE Complete(w)
    BY <2>6, CompleteKeeps
  <2> QED
    BY <1>1, <2>1, <2>2, <2>3, <2>4, <2>5, <2>6 DEF ThreadStep
<1>2. ASSUME NEW w \in Threads, Crash(w) \/ Raises(w) PROVE Inductive'
  BY <1>2, CrashKeeps, RaisesKeeps
<1>3. ASSUME NEW h \in Heads, Reclaim(h) \/ Resubmit(h) PROVE Inductive'
  BY <1>3, ReclaimKeeps, ResubmitKeeps
<1>4. ASSUME NEW j \in DOMAIN irpJobs, Poll(j) PROVE Inductive'
  BY <1>4, PollKeeps
<1>5. ASSUME NEW q \in Requests, OpenDialog(q) \/ PostForm(q) \/ PressFinish(q) PROVE Inductive'
  BY <1>5, OpenDialogKeeps, PostFormKeeps, PressFinishKeeps
<1>6. ASSUME NEW g \in DOMAIN rm, GroupEnds(g) PROVE Inductive'
  BY <1>6, GroupEndsKeeps
<1>7. CASE WorldChanges
  BY <1>7, WorldChangesKeeps
<1>8. CASE UNCHANGED vars
  BY <1>8, StutterKeeps
<1> QED
  BY <1>1, <1>2, <1>3, <1>4, <1>5, <1>6, <1>7, <1>8 DEF Next

LEMMA AlwaysInductive == Spec => []Inductive
BY InitInductive, NextInductive, PTL DEF Spec

-----------------------------------------------------------------------------
(* What it gives *)

\* The invariant is stronger than each of the properties.
LEMMA InductiveTypes == Inductive => TypeOK
<1> SUFFICES ASSUME Inductive PROVE TypeOK
  OBVIOUS
<1>. USE DEF Inductive
<1>1. row \in [Requests -> [status : {"none", "pending", "ready", "error"}, name : Seq(Nat),
                            pointer : 0..Len(rm)]]
  <2>1. row \in [Requests -> GroupRow] /\ \A q \in Requests : row[q].pointer \in 0..Len(rm)
    BY DEF Typed, Keyed
  <2> QED
    BY <2>1 DEF GroupRow
<1>2. irpJobs \in Seq([of : Requests, group : 0..Len(rm),
                       status : {"QUEUED", "FINISHED", "FAILED", "SUBMISSION FAILED"}])
  <2>. DEFINE S == [of : Requests, group : 0..Len(rm),
                    status : {"QUEUED", "FINISHED", "FAILED", "SUBMISSION FAILED"}]
  <2>1. ASSUME NEW j \in DOMAIN irpJobs PROVE irpJobs[j] \in S
    <3>1. irpJobs[j] \in Job /\ irpJobs[j].group \in 0..Len(rm)
      BY Types DEF JobsKept, JobKept
    <3> QED
      BY <3>1 DEF Job, JobStatus
  <2>2. irpJobs \in Seq(Job) /\ Len(irpJobs) \in Nat /\ DOMAIN irpJobs = 1..Len(irpJobs)
    BY Types
  <2>. HIDE DEF S
  <2>3. irpJobs \in [1..Len(irpJobs) -> S]
    BY <2>1, <2>2
  <2>4. irpJobs \in Seq(S)
    BY <2>2, <2>3
  <2> QED
    BY <2>4 DEF S
<1>3. Len(irpJobs) <= MaxJobs
  BY JobLimit
<1>4. \A q \in Requests : request[q].at \in {"idle", "open", "posted"} /\ request[q].seen \in Worlds
  BY DEF Typed, Dialog
<1>5. \A w \in Threads : /\ thread[w].at = "idle" <=> thread[w].head = None
                         /\ thread[w].head \in Heads \cup {None}
  BY DEF Typed, Placed, InBody, Thread
<1>6. /\ world \in Worlds /\ log \in Log
      /\ heads \in [Heads -> {"absent", "pending", "running"} \cup Outcome]
  BY DEF Typed
<1> QED
  BY <1>1, <1>2, <1>3, <1>4, <1>5, <1>6 DEF TypeOK

LEMMA InductiveOwn == Inductive => ReadyGroupIsItsOwn
BY DEF Inductive, NamesKept, Pointed, ReadyGroupIsItsOwn

LEMMA InductiveAccounts == Inductive => GroupsAccounted
<1> SUFFICES ASSUME Inductive, NEW q \in Requests
             PROVE  Cardinality(GroupsOf(q)) <= 1 + log.doubt + log.taken
  BY DEF GroupsAccounted, GroupsOf
<1>. USE DEF Inductive
<1>. DEFINE Q == {q}
<1>1. Q \in SUBSET Requests
  OBVIOUS
<1>2. Cardinality(GroupsOf(q)) <= Cardinality(RecordedOf(q)) + Cardinality(RecordingOf(q)) + log.doubt
  BY DEF GroupBudget
<1>3. RecordedOf(q) \subseteq JobsOf(Q) /\ RecordingOf(q) \subseteq StaffOf(Q)
  BY DEF RecordedOf, RecordingOf, JobsOf, StaffOf, WriterAt, NamedAt
<1>4. ServedOf(Q) \subseteq {q} /\ Cardinality({q}) = 1 /\ IsFiniteSet({q})
  BY FS_Singleton DEF ServedOf
<1>5. Cardinality(ServedOf(Q)) <= 1
  BY <1>4, NoMore
<1>6. Cardinality(JobsOf(Q)) + Cardinality(StaffOf(Q)) + Cardinality(LooseOf(Q))
          <= Cardinality(ServedOf(Q)) + log.taken
  BY <1>1 DEF JobBudget
<1>. HIDE DEF Q
<1>7. /\ Cardinality(RecordedOf(q)) <= Cardinality(JobsOf(Q))
      /\ Cardinality(RecordingOf(q)) <= Cardinality(StaffOf(Q))
  BY <1>1, <1>3, Sizes, NoMore
<1> QED
  BY <1>1, <1>2, <1>5, <1>6, <1>7, Sizes, GroupSizes

LEMMA InductiveSettles == Inductive => GroupSettles
<1> SUFFICES ASSUME Inductive, Quiet, NEW q \in Requests, row[q].status = "pending",
                    q \notin log.unmarked
             PROVE  JobRaised(q)
  BY DEF GroupSettles
<1>. USE DEF Inductive
<1>1. CASE Unserved(q)
  <2>1. Submit(q) \in Heads /\ heads[Submit(q)] # "absent"
    BY HeadFacts DEF Keyed
  <2>2. heads[Submit(q)] \notin Ended
    BY <1>1 DEF Settling, HeadEnds
  <2>3. heads[Submit(q)] = "raised"
    BY <2>1, <2>2 DEF Quiet, Typed, Outcome, Ended
  <2> QED
    BY <1>1, <2>3 DEF JobRaised, Unserved
<1>2. CASE ~ Unserved(q)
  <2>1. PICK j \in DOMAIN irpJobs : irpJobs[j].of = q
    BY <1>2 DEF Unserved
  <2>2. heads[Finalize(j)] \notin {"pending", "running"}
    BY JobLimit DEF Quiet
  <2>3. ~ Marking(q)
    BY IdleFacts DEF Quiet, Marking
  <2>4. Handled(j)
    BY <2>1 DEF Settling, JobSettles
  <2>5. heads[Finalize(j)] = "raised"
    BY <2>1, <2>2, <2>3, <2>4, Zenon DEF Handled, Quiet
  <2> QED
    BY <2>1, <2>5 DEF JobRaised
<1> QED
  BY <1>1, <1>2

LEMMA InductiveSeen == Inductive => GroupedAsSeen
BY DEF Inductive, SeenKept, GroupFair, Fair, AsSeen, GroupedAsSeen, Seen

(* Every variable keeps its type, for any number of requests, submissions,   *)
(* threads, names, faults and changes in Risk Modeler; and no request gets   *)
(* more jobs than it has finalize heads for.                                 *)
THEOREM TypeCorrect == Spec => []TypeOK
BY AlwaysInductive, InductiveTypes, PTL

(* A ready group points at the group that Risk Modeler built for its own     *)
(* request, though it was found by its name: unless a job was taken from a   *)
(* live thread.                                                              *)
THEOREM ReadyIsItsOwn == Spec => []ReadyGroupIsItsOwn
BY AlwaysInductive, InductiveOwn, PTL

(* Risk Modeler gets one group for a request, and one more at most for every *)
(* worker lost before its record, answer lost and job taken.                 *)
THEOREM GroupsAreAccounted == Spec => []GroupsAccounted
BY AlwaysInductive, InductiveAccounts, PTL

(* When nothing is under way a requested group is ready or in error, but for *)
(* a job that raised, or met its time limit, before it settled the row, and  *)
(* a lost error mark.                                                        *)
THEOREM GroupsSettle == Spec => []GroupSettles
BY AlwaysInductive, InductiveSettles, PTL

(* The group that runs is the one the analyst saw inspected, and covers      *)
(* every region its members reported, whatever changes in Risk Modeler       *)
(* between the dialog and the worker.                                        *)
THEOREM BuiltAsSeen == Spec => []GroupedAsSeen
BY AlwaysInductive, InductiveSeen, PTL

=============================================================================
