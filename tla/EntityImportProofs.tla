------------------------ MODULE EntityImportProofs -------------------------
(***************************************************************************)
(* What EntityImport keeps for every number of threads, requests, analyses *)
(* and faults: its types, the account of the imports Risk Modeler accepted *)
(* and that an entity is stranded only by a race.  None of the three is    *)
(* inductive: Inductive adds who holds which job, how many imports and     *)
(* import irp_jobs may still be written, and who will still serve the row. *)
(***************************************************************************)
EXTENDS EntityImport, FiniteSetTheorems, SequenceTheorems, TLAPS

\* An import reached Risk Modeler; the poller still tracks one.
Reached == \E j \in DOMAIN irpJobs : irpJobs[j].status # "SUBMISSION FAILED"
Queued  == \E j \in DOMAIN irpJobs : irpJobs[j].status = "QUEUED"

\* The steps of upload_edm and upload_rdm, of backfill_rdm_analyses, of
\* backfill_edm_detail.
UploadAt == {"read", "look", "submit", "record", "record failure", "mark", "mark error"}
RdmAt == {"enumerate", "store", "chain"}
EdmAt == {"exposure", "resolve", "store exposure", "list"}

Hand  == [at : ThreadAt, head : Heads \cup {NoHead}, got : Nat, seen : SUBSET Analyses]
Poll  == [at : {"idle", "resolve", "persist"}, job : Nat, ok : BOOLEAN, exposure : Nat]
Spent == [crashes : Nat, lost : Nat, changes : Nat]
Row   == [row : {"none", "live", "deleted"}, retrieval : BOOLEAN]
Import == [file : Nat, state : {"running", "finished", "failed"}]
RequestAt == {"idle", "form", "reset", "arm", "arm sync", "done"}

\* TypeOK without its claim on the number of irp_jobs, with the bound on faults.
Typed ==
    /\ kind \in Kinds /\ entity \in Entity /\ fresh \subseteq Requests
    /\ adopted \subseteq DOMAIN imports
    /\ irpJobs \in Seq(IrpJob)
    /\ heads \in [Heads -> HeadStatus] /\ newest \in Heads \cup {NoHead}
    /\ captured \in [Analyses -> Row] /\ thread \in [Threads -> Hand] /\ poller \in Poll
    /\ request \in [Requests -> RequestAt] /\ imports \in Seq(Import)
    /\ rmAnalyses \subseteq Analyses /\ log \in Log
    /\ spent \in Spent
    /\ spent.crashes + spent.lost <= MaxFaults

Works(w, h) == thread[w].at # "idle" /\ thread[w].head = h

\* Who runs which body, whose job is running, and that nobody else runs it.
InBody  == \A w \in Threads : /\ thread[w].at \in UploadAt => thread[w].head = Upload
                              /\ thread[w].at \in RdmAt \cup EdmAt => thread[w].head # Upload
Running == \A w \in Threads : thread[w].at # "idle" =>
               thread[w].head \in Heads /\ heads[thread[w].head] = "running"
Alone   == \A v, w \in Threads :
               thread[v].at # "idle" /\ Works(w, thread[v].head) => v = w
Held == InBody /\ Running /\ Alone

\* The bodies of RDMs and EDMs; an RDM at the POST had no import that reached
\* Risk Modeler, which is what _rdm_import_exists gives.
Bodies ==
    /\ \A w \in Threads : thread[w].at \in RdmAt \cup {"look"} => kind = "rdm"
    /\ \A w \in Threads : thread[w].at \in EdmAt => kind # "rdm"
    /\ kind # "rdm" => \A a \in Analyses : captured[a].row = "none"
    /\ \A w \in Threads : kind = "rdm" /\ thread[w].at \in {"submit", "record"} => ~ Reached

\* What rows and threads remember exists, and a job the poller has not ended
\* has no backfill yet.
Refs ==
    /\ \A j \in DOMAIN irpJobs : irpJobs[j].status # "SUBMISSION FAILED" => irpJobs[j].import \in DOMAIN imports
    /\ \A w \in Threads : thread[w].at = "record" => thread[w].got \in DOMAIN imports
    /\ poller.at # "idle" => poller.job \in DOMAIN irpJobs /\ irpJobs[poller.job].status = "QUEUED"
    /\ poller.at = "idle" => poller = NoPoll
    /\ \A j \in 1..Cardinality(Requests) + MaxFaults :
          (j \in DOMAIN irpJobs => irpJobs[j].status = "QUEUED") => heads[Backfill(j)] = "absent"

\* A form that is still current shows an entity in error: ReplaceFile asks anew.
FormsShowErrors == fresh # {} => entity.status = "error"

\* One more import may still be accepted without a new request or fault; then
\* the account has room for it.
MayImport ==
    /\ ~ (kind = "rdm" /\ Reached)
    /\ \A w \in Threads : ~ InDoubt(w)
    /\ \/ entity.status = "pending_import"
       \/ \E w \in Threads : thread[w].at \in {"look", "submit"}
ImportBudget ==
    /\ Len(imports) <= log.asked + log.doubt + spent.lost
    /\ MayImport => Len(imports) + 1 <= log.asked + log.doubt + spent.lost

\* The same for the import irp_jobs.
MayRecord ==
    /\ \A w \in Threads : thread[w].at \notin {"mark", "mark error"}
    /\ \/ entity.status = "pending_import"
       \/ \E w \in Threads : thread[w].at \in {"look", "submit", "record", "record failure"}
JobBudget ==
    /\ Len(irpJobs) <= log.asked + spent.crashes
    /\ MayRecord => Len(irpJobs) + 1 <= log.asked + spent.crashes

\* A request asks once at most.
Answered == {q \in Requests : request[q] \in {"arm", "arm sync", "done"}}
AskBudget == log.asked <= Cardinality(Answered)

\* Job h still runs, will run, or failed; whoever runs it is not past those steps.
Unfinished(h, past) ==
    /\ heads[h] \in {"pending", "running", "failed", "raised"}
    /\ \A w \in Threads : Works(w, h) => thread[w].at \notin past
Chained == Unretrieved # {} => \E h \in Heads \ {Upload} : Unfinished(h, {"succeeded"})

\* Who will still move a pending_import row on, the job that raised included;
\* who an importing one.
UploadToCome == heads[Upload] \in {"pending", "running", "raised"}
                /\ \A w \in Threads : Works(w, Upload) => thread[w].at \in UploadAt \cup {"raised"}
PendingIsServed ==
    entity.status = "pending_import" =>
        \/ log.missed \/ (kind = "rdm" /\ Reached) \/ UploadToCome
        \/ ~ Active(Upload) /\ \E q \in Requests : request[q] = "arm"
RollupToCome == kind = "rdm" /\ \E h \in Heads \ {Upload} : Unfinished(h, {"chain", "succeeded"})
Importing == \/ entity.status = "importing"
             \/ entity.status = "pending_import" /\ \E w \in Threads : thread[w].at = "mark"
ImportingIsServed == Importing => log.missed \/ Queued \/ RollupToCome

Inductive ==
    /\ Typed /\ Held /\ Bodies /\ Refs /\ FormsShowErrors
    /\ ImportBudget /\ JobBudget /\ AskBudget
    /\ Chained /\ PendingIsServed /\ ImportingIsServed

-----------------------------------------------------------------------------
(* What a step of each kind does, field by field *)

Apart(w)       == \A v \in Threads \ {w} : thread'[v] = thread[v]
Moved(w, at)   == Apart(w) /\ thread'[w].head = thread[w].head /\ thread'[w].at = at
HeadSet(h, st) == heads'[h] = st /\ \A g \in Heads \ {h} : heads'[g] = heads[g]

\* The three kinds of rwb_job heads are distinct.
LEMMA HeadFacts ==
    /\ Upload \in Heads /\ Sync \in Heads /\ Sync # Upload
    /\ \A j \in 1..Cardinality(Requests) + MaxFaults : Backfill(j) \in Heads
    /\ \A j : Backfill(j) # Upload /\ Backfill(j) # Sync
    /\ \A i, j : Backfill(i) = Backfill(j) => i = j
BY DEF Heads, Upload, Sync, Backfill

\* The numbers and records the arithmetic below is about.
Numbers ==
    /\ log.asked \in Nat /\ log.doubt \in Nat /\ log.missed \in BOOLEAN
    /\ spent.crashes \in Nat /\ spent.lost \in Nat
    /\ Len(imports) \in Nat /\ DOMAIN imports = 1..Len(imports)
    /\ Len(irpJobs) \in Nat /\ DOMAIN irpJobs = 1..Len(irpJobs)
    /\ \A w \in Threads : thread[w] \in Hand
    /\ entity \in Entity /\ poller \in Poll

\* They follow from Typed, now and after a step.
LEMMA NumbersHold == Typed => Numbers
BY DEF Typed, Log, Spent, Numbers

\* The same, one state later.
LEMMA NextNumbers == Typed' => Numbers'
BY NumbersHold, PTL

\* Go moves one thread.
LEMMA GoMoves ==
    ASSUME Typed, NEW w \in Threads, NEW at \in ThreadAt, Go(w, at)
    PROVE  /\ thread' \in [Threads -> Hand]
           /\ Moved(w, at) /\ thread'[w].got = thread[w].got
<1>1. thread[w] \in Hand
    BY DEF Typed
<1>2. [thread[w] EXCEPT !.at = at] \in Hand
    BY <1>1 DEF Hand
<1>3. thread' = [thread EXCEPT ![w] = [thread[w] EXCEPT !.at = at]]
    BY DEF Go, Typed
<1>4. thread' \in [Threads -> Hand]
    BY <1>2, <1>3 DEF Typed
<1> QED
    BY <1>1, <1>3, <1>4 DEF Moved, Apart, Hand, Typed

\* GoWith moves one thread, with what it read.
LEMMA GoWithMoves ==
    ASSUME Typed, NEW w \in Threads, NEW at \in ThreadAt, NEW got \in Nat, GoWith(w, at, got)
    PROVE  /\ thread' \in [Threads -> Hand]
           /\ Moved(w, at) /\ thread'[w].got = got
<1>1. thread[w] \in Hand
    BY DEF Typed
<1>2. [[thread[w] EXCEPT !.at = at] EXCEPT !.got = got] \in Hand
    BY <1>1 DEF Hand
<1>3. thread' = [thread EXCEPT ![w] = [[thread[w] EXCEPT !.at = at] EXCEPT !.got = got]]
    BY DEF GoWith, Typed
<1>4. thread' \in [Threads -> Hand]
    BY <1>2, <1>3 DEF Typed
<1> QED
    BY <1>1, <1>3, <1>4 DEF Moved, Apart, Hand, Typed

\* SetHead writes one job.
LEMMA SetHeadSets ==
    ASSUME Typed, NEW h \in Heads, NEW st \in HeadStatus, SetHead(h, st)
    PROVE  /\ heads' \in [Heads -> HeadStatus] /\ newest' \in Heads \cup {NoHead}
           /\ HeadSet(h, st)
BY DEF Typed, SetHead, HeadSet

\* Asked counts one more request, and a miss when the upload job is running.
LEMMA AskedCounts ==
    ASSUME Typed, Asked
    PROVE  /\ log' \in Log /\ log'.asked = log.asked + 1 /\ log'.doubt = log.doubt
           /\ log'.missed <=> log.missed \/ heads[Upload] = "running"
<1>1. log \in Log
    BY DEF Typed
<1>2. log' = [asked |-> log.asked + 1, doubt |-> log.doubt,
              missed |-> log.missed \/ heads[Upload] = "running"]
    BY DEF Asked
<1>3. log'.asked = log.asked + 1 /\ log'.doubt = log.doubt
    BY <1>2
<1>4. log'.missed <=> log.missed \/ heads[Upload] = "running"
    BY <1>2, Zenon
<1>5. log' \in Log
    BY <1>1, <1>2, SMT DEF Log
<1> QED
    BY <1>3, <1>4, <1>5

\* Fault counts within the bound.
LEMMA FaultCounts ==
    ASSUME Typed, NEW what \in {"crashes", "lost"}, Fault(what)
    PROVE  /\ spent' \in Spent /\ spent'.crashes + spent'.lost <= MaxFaults
           /\ spent'.crashes = IF what = "crashes" THEN spent.crashes + 1 ELSE spent.crashes
           /\ spent'.lost = IF what = "lost" THEN spent.lost + 1 ELSE spent.lost
<1>1. spent \in Spent
    BY DEF Typed
<1>2. CASE what = "crashes"
    BY <1>1, <1>2, EntityImportAssumption DEF Fault, Spend, Spent
<1>3. CASE what = "lost"
    BY <1>1, <1>3, EntityImportAssumption DEF Fault, Spend, Spent
<1> QED
    BY <1>2, <1>3

\* Writing the status of the row makes every open form stale.
LEMMA StatusPut ==
    ASSUME Typed, NEW s \in Status, Put([entity EXCEPT !.status = s])
    PROVE  /\ entity' \in Entity /\ fresh' = {}
           /\ entity'.status = s /\ entity'.exposure = entity.exposure
<1>1. entity \in Entity
    BY DEF Typed
<1> QED
    BY <1>1 DEF Put, Entity

\* Append, pointwise.
LEMMA AppendAdds ==
    ASSUME NEW S, NEW s \in Seq(S), NEW e \in S, NEW t, t = Append(s, e)
    PROVE  /\ t \in Seq(S) /\ Len(t) = Len(s) + 1 /\ DOMAIN t = 1..Len(s) + 1
           /\ \A j \in 1..Len(s) : t[j] = s[j]
           /\ t[Len(s) + 1] = e
<1>1. t \in Seq(S) /\ Len(t) = Len(s) + 1 /\ t[Len(s) + 1] = e
    BY AppendProperties
<1>2. \A j \in 1..Len(s) : t[j] = s[j]
    BY AppendProperties
<1>3. DOMAIN t = 1..Len(t)
    BY <1>1, LenProperties
<1> QED
    BY <1>1, <1>2, <1>3

\* The same for the irp_jobs.
LEMMA JobsAppended ==
    ASSUME irpJobs \in Seq(IrpJob), NEW new \in IrpJob, irpJobs' = Append(irpJobs, new)
    PROVE  /\ irpJobs' \in Seq(IrpJob) /\ Len(irpJobs') = Len(irpJobs) + 1
           /\ DOMAIN irpJobs' = 1..Len(irpJobs) + 1
           /\ \A j \in 1..Len(irpJobs) : irpJobs'[j] = irpJobs[j]
           /\ irpJobs'[Len(irpJobs) + 1] = new
<1>1. irpJobs' \in Seq(IrpJob) /\ Len(irpJobs') = Len(irpJobs) + 1
    BY AppendAdds
<1>2. DOMAIN irpJobs' = 1..Len(irpJobs) + 1
    BY AppendAdds
<1>3. \A j \in 1..Len(irpJobs) : irpJobs'[j] = irpJobs[j]
    BY AppendAdds
<1>4. irpJobs'[Len(irpJobs) + 1] = new
    BY AppendAdds
<1> QED
    BY <1>1, <1>2, <1>3, <1>4

\* record_submitted_irp_job and its failure twin add one irp_job at the end.
LEMMA JobAdded ==
    ASSUME Typed, NEW i \in Nat, NEW st \in {"QUEUED", "SUBMISSION FAILED"}, AddJob(i, st)
    PROVE  /\ irpJobs' \in Seq(IrpJob) /\ Len(irpJobs') = Len(irpJobs) + 1
           /\ DOMAIN irpJobs' = 1..Len(irpJobs) + 1
           /\ \A j \in DOMAIN irpJobs : irpJobs'[j] = irpJobs[j]
           /\ irpJobs'[Len(irpJobs) + 1].import = i /\ irpJobs'[Len(irpJobs) + 1].status = st
<1>1. PICK new \in IrpJob : new.import = i /\ new.status = st /\ irpJobs' = Append(irpJobs, new)
    BY DEF AddJob, IrpJob
<1>2. irpJobs \in Seq(IrpJob) /\ DOMAIN irpJobs = 1..Len(irpJobs)
    BY NumbersHold DEF Numbers, Typed
<1> QED
    BY <1>1, <1>2, JobsAppended

\* The POST adds as many imports as Risk Modeler accepted.
LEMMA ImportsAdded ==
    ASSUME Typed, NEW file \in Nat, NEW n \in 0..2, Imports(file, n)
    PROVE  /\ imports' \in Seq(Import) /\ Len(imports') = Len(imports) + n
           /\ DOMAIN imports' = 1..Len(imports) + n
<1> DEFINE new == [k \in 1..n |-> [file |-> file, state |-> "running"]]
<1>1. new \in Seq(Import) /\ Len(new) = n
    BY DEF Import
<1>2. imports \in Seq(Import)
    BY DEF Typed
<1>3. imports' = imports \o new
    BY DEF Imports
<1> HIDE DEF new
<1> QED
    BY <1>1, <1>2, <1>3

\* A thread and a poller that do nothing.
LEMMA IdleFacts ==
    /\ Idle \in Hand /\ Idle.at = "idle" /\ Idle.head = NoHead
    /\ NoPoll \in Poll /\ NoPoll.at = "idle"
BY DEF Idle, NoPoll, Hand, Poll, ThreadAt

\* What the backfills still have to do stays to be done.
Rollups == {"chain", "succeeded"}
RestKept(past) == \A g \in Heads \ {Upload} : Unfinished(g, past) => Unfinished(g, past)'

\* Chained holds on when the captured analyses and the rest of the work do.
LEMMA ChainedKept ==
    ASSUME Chained, captured' = captured, RestKept({"succeeded"})
    PROVE  Chained'
BY DEF Chained, Unretrieved, RestKept

\* So does ImportingIsServed when no row becomes importing.
LEMMA ImportingKept ==
    ASSUME ImportingIsServed, Importing' => Importing, log.missed => log'.missed, Queued => Queued',
           kind' = kind, RestKept(Rollups)
    PROVE  ImportingIsServed'
BY DEF ImportingIsServed, RollupToCome, Rollups, RestKept

\* A thread that moves on inside its body keeps the rest of the work.
LEMMA MoveKeepsRest ==
    ASSUME NEW w \in Threads, NEW at, NEW past, thread[w].at # "idle", Moved(w, at), heads' = heads,
           at \in past => thread[w].head = Upload \/ thread[w].at \in past
    PROVE  RestKept(past)
BY DEF RestKept, Unfinished, Works, Moved, Apart

\* No thread moves, no job changes.
LEMMA StillKeepsRest ==
    ASSUME NEW past, thread' = thread, heads' = heads
    PROVE  RestKept(past)
BY DEF RestKept, Unfinished, Works

\* PendingIsServed holds on when no row becomes pending_import.
LEMMA PendingKept ==
    ASSUME PendingIsServed, entity'.status = "pending_import" => entity.status = "pending_import",
           log' = log, kind' = kind, Reached => Reached', UploadToCome => UploadToCome',
           heads' = heads, request' = request
    PROVE  PendingIsServed'
BY DEF PendingIsServed, Active

\* An upload still comes when its thread stays in the body.
LEMMA MoveKeepsUpload ==
    ASSUME NEW w \in Threads, NEW at, Moved(w, at), heads' = heads,
           at \in UploadAt \/ thread[w].head # Upload
    PROVE  UploadToCome => UploadToCome'
BY DEF UploadToCome, Works, Moved, Apart

\* A thread that stays in its body leaves the claims as they are.
LEMMA MoveKeepsHeld ==
    ASSUME Held, NEW w \in Threads, NEW at, thread[w].at # "idle", Moved(w, at), heads' = heads,
           at \in UploadAt => thread[w].at \in UploadAt,
           at \in RdmAt \cup EdmAt => thread[w].at \in RdmAt \cup EdmAt
    PROVE  Held'
<1>1. InBody'
    BY DEF Held, InBody, Moved, Apart
<1>2. Running'
    BY DEF Held, Running, Moved, Apart
<1>3. Alone'
    BY DEF Held, Alone, Works, Moved, Apart
<1> QED
    BY <1>1, <1>2, <1>3 DEF Held

\* A job that nobody runs is made pending, or left alone.
Armed(h) == heads' = heads \/ (heads[h] # "running" /\ HeadSet(h, "pending"))

\* Arming a job that nobody runs leaves the claims as they are,
LEMMA ArmedKeepsHeld ==
    ASSUME Held, NEW h \in Heads, Armed(h), thread' = thread
    PROVE  Held'
BY DEF Held, InBody, Running, Alone, Works, Armed, HeadSet

\* and the rest of the work.
LEMMA ArmedKeepsRest ==
    ASSUME Held, NEW h \in Heads, NEW past, Armed(h), thread' = thread
    PROVE  RestKept(past)
BY DEF RestKept, Unfinished, Held, Running, Works, Armed, HeadSet

\* Request q goes on to at; the others stay.
Told(q, at) == /\ request' \in [Requests -> RequestAt] /\ request'[q] = at
               /\ \A p \in Requests \ {q} : request'[p] = request[p]

\* RequestTo moves one request.
LEMMA RequestTold ==
    ASSUME Typed, NEW q \in Requests, NEW at \in RequestAt, RequestTo(q, at)
    PROVE  Told(q, at)
BY DEF Typed, RequestTo, Told

\* The requests are finitely many.
LEMMA AnsweredFinite ==
    /\ IsFiniteSet(Requests) /\ IsFiniteSet(Answered) /\ Cardinality(Answered) \in Nat
    /\ Cardinality(Requests) \in Nat /\ Cardinality(Answered) <= Cardinality(Requests)
<1>1. Answered \subseteq Requests
    BY DEF Answered
<1> QED
    BY <1>1, EntityImportAssumption, FS_Subset, FS_CardinalityType

\* A request that asks or ends is answered, once.
LEMMA Answers ==
    ASSUME NEW q \in Requests, NEW at \in {"arm", "arm sync", "done"}, Told(q, at)
    PROVE  Cardinality(Answered') = IF q \in Answered THEN Cardinality(Answered)
                                                      ELSE Cardinality(Answered) + 1
<1>1. Answered' = Answered \cup {q}
    BY DEF Answered, Told
<1> QED
    BY <1>1, AnsweredFinite, FS_AddElement

\* Arithmetic.
LEMMA OneMore ==
    ASSUME NEW a \in Nat, NEW b \in Nat, a <= b
    PROVE  a <= b + 1
OBVIOUS

\* A request that asks for no import keeps the account of those that do.
LEMMA AnswersKeepBudget ==
    ASSUME Typed, AskBudget, NEW q \in Requests, NEW at \in {"arm", "arm sync", "done"}, Told(q, at),
           log'.asked = log.asked
    PROVE  AskBudget'
<1>1. Cardinality(Answered') = IF q \in Answered THEN Cardinality(Answered) ELSE Cardinality(Answered) + 1
    BY Answers
<1>2. log.asked \in Nat /\ log.asked <= Cardinality(Answered) /\ Cardinality(Answered) \in Nat
    BY NumbersHold, AnsweredFinite DEF Numbers, AskBudget
<1>3. Cardinality(Answered') = Cardinality(Answered) \/ Cardinality(Answered') = Cardinality(Answered) + 1
    BY <1>1, Zenon
<1>4. log.asked <= Cardinality(Answered')
  <2>1. CASE Cardinality(Answered') = Cardinality(Answered)
      BY <1>2, <2>1
  <2>2. CASE Cardinality(Answered') = Cardinality(Answered) + 1
      BY <1>2, <2>2, OneMore
  <2> QED
      BY <1>3, <2>1, <2>2
<1> QED
    BY <1>4 DEF AskBudget

\* There is a backfill job for every irp_job: no path writes more of them than
\* there are requests and faults.
LEMMA JobsFit ==
    ASSUME Typed, JobBudget, AskBudget
    PROVE  \A j \in DOMAIN irpJobs : j \in 1..Cardinality(Requests) + MaxFaults
<1>1. /\ Len(irpJobs) \in Nat /\ log.asked \in Nat /\ spent.crashes \in Nat /\ spent.lost \in Nat
      /\ DOMAIN irpJobs = 1..Len(irpJobs)
    BY NumbersHold DEF Numbers
<1>2. Len(irpJobs) <= log.asked + spent.crashes /\ log.asked <= Cardinality(Answered)
    BY DEF JobBudget, AskBudget
<1>3. spent.crashes + spent.lost <= MaxFaults /\ MaxFaults \in Nat
    BY EntityImportAssumption DEF Typed
<1> QED
    BY <1>1, <1>2, <1>3, AnsweredFinite

-----------------------------------------------------------------------------
(* Every action keeps Inductive *)

\* The claim starts a body: no other thread runs the job, which was pending.
LEMMA ClaimKeeps ==
    ASSUME Inductive, NEW w \in Threads, NEW h \in Heads, Claim(w, h)
    PROVE  Inductive'
<1> USE DEF Inductive
<1>a. [Idle EXCEPT !.at = FirstStep(h), !.head = h] \in Hand
    BY IdleFacts DEF Hand, ThreadAt, FirstStep
<1>b. HeadSet(h, "running") /\ heads' \in [Heads -> HeadStatus] /\ newest' \in Heads \cup {NoHead}
    BY SetHeadSets DEF Claim, HeadStatus
<1>c. thread \in [Threads -> Hand] /\ thread[w].at = "idle"
    BY IdleFacts DEF Claim, Typed
<1>1. /\ thread' \in [Threads -> Hand] /\ heads' \in [Heads -> HeadStatus] /\ newest' \in Heads \cup {NoHead}
      /\ kind \in {"edm", "rdm"}
      /\ thread[w].at = "idle" /\ heads[h] = "pending" /\ HeadSet(h, "running")
      /\ Apart(w) /\ thread'[w].head = h
      /\ thread'[w].at = IF h = Upload THEN "read" ELSE IF kind = "edm" THEN "exposure" ELSE "enumerate"
      /\ UNCHANGED <<kind, entity, fresh, adopted, irpJobs, captured, poller, request, imports,
                     rmAnalyses, log, spent>>
    BY <1>a, <1>b, <1>c, IdleFacts, EntityImportAssumption DEF Claim, Keep, Apart, FirstStep, Hand, outside, Typed
<1>2. Typed'
    BY <1>1 DEF Typed
<1>3. Held'
  <2>1. InBody'
      BY <1>1 DEF Held, InBody, UploadAt, RdmAt, EdmAt, Apart, Moved, HeadSet
  <2>2. Running'
      BY <1>1 DEF Held, Running, Alone, Works, Apart, Moved, HeadSet
  <2>3. Alone'
      BY <1>1 DEF Held, Alone, Running, Works, Apart, Moved, HeadSet
  <2> QED
      BY <2>1, <2>2, <2>3 DEF Held
<1>4. Bodies'
    BY <1>1, <1>2 DEF Bodies, Held, InBody, UploadAt, RdmAt, EdmAt, Reached, Apart, Moved
<1>5. Refs'
    BY <1>1, <1>2, NumbersHold, NextNumbers, HeadFacts DEF Refs, Numbers, Hand, Poll, Apart, Moved, HeadSet
<1>6. FormsShowErrors'
    BY <1>1, <1>2 DEF FormsShowErrors
<1>7. ImportBudget'
  <2>1. MayImport' => MayImport
      BY <1>1 DEF MayImport, InDoubt, Reached, Held, InBody, UploadAt, Apart, Moved
  <2> QED
      BY <1>1, <1>2, <2>1, NumbersHold DEF ImportBudget, Numbers
<1>8. JobBudget'
  <2>1. MayRecord' => MayRecord
      BY <1>1 DEF MayRecord, Held, InBody, UploadAt, Apart, Moved
  <2> QED
      BY <1>1, <1>2, <2>1, NumbersHold DEF JobBudget, Numbers
<1>9. AskBudget'
    BY <1>1 DEF AskBudget, Answered
<1>R. RestKept({"succeeded"}) /\ RestKept(Rollups)
  <2> SUFFICES ASSUME NEW past \in {{"succeeded"}, Rollups} PROVE RestKept(past)
      OBVIOUS
  <2> QED
      BY <1>1 DEF Held, Running, Alone, RestKept, Unfinished, Works, Rollups, Apart, Moved, HeadSet
<1>10. Chained'
    BY <1>1, <1>R, ChainedKept
<1>11. PendingIsServed'
  <2>1. CASE h = Upload
      BY <1>1, <2>1 DEF PendingIsServed, UploadToCome, Works, UploadAt, Held, Running, Apart, HeadSet
  <2>2. CASE h # Upload
    <3>1. heads'[Upload] = heads[Upload]
        BY <1>1, <2>2, HeadFacts DEF HeadSet
    <3>2. \A v \in Threads : Works(v, Upload)' => Works(v, Upload) /\ thread'[v].at = thread[v].at
        BY <1>1, <2>2 DEF Works, Apart
    <3> QED
        BY <1>1, <3>1, <3>2 DEF PendingIsServed, Reached, UploadToCome, Active
  <2> QED
      BY <2>1, <2>2
<1>12. ImportingIsServed'
  <2>1. Importing' => Importing
      BY <1>1 DEF Importing, Apart, Moved
  <2>2. Queued => Queued'
      BY <1>1 DEF Queued
  <2> QED
      BY <1>1, <1>R, <2>1, <2>2, ImportingKept
<1> QED
    BY <1>2, <1>3, <1>4, <1>5, <1>6, <1>7, <1>8, <1>9, <1>10, <1>11, <1>12

\* The job ends as its body did.
LEMMA CompleteKeeps ==
    ASSUME Inductive, NEW w \in Threads, Complete(w)
    PROVE  Inductive'
<1> USE DEF Inductive
<1>a. thread \in [Threads -> Hand] /\ thread[w].head \in Heads /\ heads[thread[w].head] = "running"
    BY DEF Typed, Held, Running, Complete
<1>b. SetHead(thread[w].head, thread[w].at)
    BY <1>a DEF Complete
<1>1. /\ thread' \in [Threads -> Hand] /\ heads' \in [Heads -> HeadStatus] /\ newest' \in Heads \cup {NoHead}
      /\ thread[w].at \in {"succeeded", "failed", "raised"} /\ HeadSet(thread[w].head, thread[w].at)
      /\ thread[w].head \in Heads /\ heads[thread[w].head] = "running"
      /\ Apart(w) /\ thread'[w].at = "idle"
      /\ UNCHANGED <<kind, entity, fresh, adopted, irpJobs, captured, poller, request, imports,
                     rmAnalyses, log, spent>>
    BY <1>a, <1>b, SetHeadSets, IdleFacts DEF Complete, Keep, Apart, HeadStatus, outside
<1>2. Typed'
    BY <1>1 DEF Typed
<1>3. Held'
  <2>1. InBody'
      BY <1>1 DEF Held, InBody, UploadAt, RdmAt, EdmAt, Apart, Moved, HeadSet
  <2>2. Running'
      BY <1>1 DEF Held, Running, Alone, Works, Apart, Moved, HeadSet
  <2>3. Alone'
      BY <1>1 DEF Held, Alone, Running, Works, Apart, Moved, HeadSet
  <2> QED
      BY <2>1, <2>2, <2>3 DEF Held
<1>4. Bodies'
    BY <1>1, <1>2 DEF Bodies, Held, InBody, UploadAt, RdmAt, EdmAt, Reached, Apart, Moved
<1>5. Refs'
    BY <1>1, <1>2, NumbersHold, NextNumbers, HeadFacts DEF Refs, Numbers, Hand, Poll, Apart, Moved, HeadSet
<1>6. FormsShowErrors'
    BY <1>1, <1>2 DEF FormsShowErrors
<1>7. ImportBudget'
  <2>1. MayImport' => MayImport
      BY <1>1 DEF MayImport, InDoubt, Reached, Held, InBody, UploadAt, Apart, Moved
  <2> QED
      BY <1>1, <1>2, <2>1, NumbersHold DEF ImportBudget, Numbers
<1>8. JobBudget'
  <2>1. MayRecord' => MayRecord
      BY <1>1 DEF MayRecord, Held, InBody, UploadAt, Apart, Moved
  <2> QED
      BY <1>1, <1>2, <2>1, NumbersHold DEF JobBudget, Numbers
<1>9. AskBudget'
    BY <1>1 DEF AskBudget, Answered
<1>R. RestKept({"succeeded"}) /\ RestKept(Rollups)
  <2> SUFFICES ASSUME NEW past \in {{"succeeded"}, Rollups} PROVE RestKept(past)
      OBVIOUS
  <2> QED
      BY <1>1 DEF Held, Running, Alone, RestKept, Unfinished, Works, Rollups, Apart, Moved, HeadSet
<1>10. Chained'
    BY <1>1, <1>R, ChainedKept
<1>11. PendingIsServed'
  <2>1. Active(Upload)' => Active(Upload)
      BY <1>1, HeadFacts DEF Active, HeadSet
  <2>2. UploadToCome => UploadToCome'
    <3>1. CASE thread[w].head = Upload
      <4>1. UploadToCome => thread[w].at = "raised"
          BY <1>1, <3>1, IdleFacts DEF UploadToCome, Works, UploadAt
      <4>2. \A v \in Threads : ~ Works(v, Upload)'
          BY <1>1, <3>1 DEF Held, Alone, Works, Apart
      <4> QED
          BY <1>1, <3>1, <4>1, <4>2 DEF UploadToCome, HeadSet
    <3>2. CASE thread[w].head # Upload
        BY <1>1, <3>2, HeadFacts DEF UploadToCome, Works, Apart, HeadSet
    <3> QED
        BY <3>1, <3>2
  <2> QED
      BY <1>1, <2>1, <2>2 DEF PendingIsServed, Reached
<1>12. ImportingIsServed'
  <2>1. Importing' => Importing
      BY <1>1 DEF Importing, Apart, Moved
  <2>2. Queued => Queued'
      BY <1>1 DEF Queued
  <2> QED
      BY <1>1, <1>R, <2>1, <2>2, ImportingKept
<1> QED
    BY <1>2, <1>3, <1>4, <1>5, <1>6, <1>7, <1>8, <1>9, <1>10, <1>11, <1>12

\* The job of a lost thread is pending again.
LEMMA ReclaimKeeps ==
    ASSUME Inductive, NEW h \in Heads, Reclaim(h)
    PROVE  Inductive'
<1> USE DEF Inductive
<1>1. /\ heads' \in [Heads -> HeadStatus] /\ newest' \in Heads \cup {NoHead}
      /\ heads[h] = "running" /\ (\A w \in Threads : thread[w].head # h) /\ HeadSet(h, "pending")
      /\ UNCHANGED <<kind, entity, fresh, adopted, irpJobs, captured, thread, poller, request,
                     imports, rmAnalyses, log, spent>>
    BY SetHeadSets DEF Reclaim, Keep, HeadStatus, outside
<1>2. Typed'
    BY <1>1 DEF Typed
<1>3. Held'
  <2>1. InBody'
      BY <1>1 DEF Held, InBody, UploadAt, RdmAt, EdmAt, Apart, Moved, HeadSet
  <2>2. Running'
      BY <1>1 DEF Held, Running, Alone, Works, Apart, Moved, HeadSet
  <2>3. Alone'
      BY <1>1 DEF Held, Alone, Running, Works, Apart, Moved, HeadSet
  <2> QED
      BY <2>1, <2>2, <2>3 DEF Held
<1>4. Bodies'
    BY <1>1, <1>2 DEF Bodies, Held, InBody, UploadAt, RdmAt, EdmAt, Reached, Apart, Moved
<1>5. Refs'
    BY <1>1, <1>2, NumbersHold, NextNumbers, HeadFacts DEF Refs, Numbers, Hand, Poll, Apart, Moved, HeadSet
<1>6. FormsShowErrors'
    BY <1>1, <1>2 DEF FormsShowErrors
<1>7. ImportBudget'
  <2>1. MayImport' => MayImport
      BY <1>1 DEF MayImport, InDoubt, Reached, Held, InBody, UploadAt, Apart, Moved
  <2> QED
      BY <1>1, <1>2, <2>1, NumbersHold DEF ImportBudget, Numbers
<1>8. JobBudget'
  <2>1. MayRecord' => MayRecord
      BY <1>1 DEF MayRecord, Held, InBody, UploadAt, Apart, Moved
  <2> QED
      BY <1>1, <1>2, <2>1, NumbersHold DEF JobBudget, Numbers
<1>9. AskBudget'
    BY <1>1 DEF AskBudget, Answered
<1>R. RestKept({"succeeded"}) /\ RestKept(Rollups)
    BY <1>1 DEF RestKept, Unfinished, Works, HeadSet
<1>10. Chained'
    BY <1>1, <1>R, ChainedKept
<1>11. PendingIsServed'
    BY <1>1, <1>2, HeadFacts DEF PendingIsServed, Reached, UploadToCome, Works, Active, HeadSet
<1>12. ImportingIsServed'
  <2>1. Importing' => Importing
      BY <1>1 DEF Importing, Apart, Moved
  <2>2. Queued => Queued'
      BY <1>1 DEF Queued
  <2> QED
      BY <1>1, <1>R, <2>1, <2>2, ImportingKept
<1> QED
    BY <1>2, <1>3, <1>4, <1>5, <1>6, <1>7, <1>8, <1>9, <1>10, <1>11, <1>12

\* A body that ends in the window of an import is the doubt that the account
\* grants one import, and one irp_job; a raised one keeps its job.
Interrupted(w) ==
    /\ thread' \in [Threads -> Hand] /\ log' \in Log /\ spent' \in Spent
    /\ Apart(w) /\ thread'[w].at \in {"idle", "raised"}
    /\ thread'[w].at = "raised" => thread[w].at # "idle" /\ thread'[w].head = thread[w].head
    /\ log'.asked = log.asked /\ log'.missed = log.missed
    /\ log'.doubt = IF InDoubt(w) THEN log.doubt + 1 ELSE log.doubt
    /\ spent'.crashes = spent.crashes + 1 /\ spent'.lost = spent.lost
    /\ spent'.crashes + spent'.lost <= MaxFaults
    /\ UNCHANGED <<kind, entity, fresh, adopted, irpJobs, heads, newest, captured, poller, request,
                   imports, rmAnalyses>>

\* What a lost thread and a raised body have in common.
LEMMA InterruptedKeeps ==
    ASSUME Inductive, NEW w \in Threads, Interrupted(w)
    PROVE  Inductive'
<1> USE DEF Inductive
<1>1. Interrupted(w)
    OBVIOUS
<1> USE DEF Interrupted
<1>2. Typed'
    BY <1>1 DEF Typed
<1>3. Held'
  <2>1. InBody'
      BY <1>1 DEF Held, InBody, UploadAt, RdmAt, EdmAt, Apart, Moved, HeadSet
  <2>2. Running'
      BY <1>1 DEF Held, Running, Alone, Works, Apart, Moved, HeadSet
  <2>3. Alone'
      BY <1>1 DEF Held, Alone, Running, Works, Apart, Moved, HeadSet
  <2> QED
      BY <2>1, <2>2, <2>3 DEF Held
<1>4. Bodies'
    BY <1>1, <1>2 DEF Bodies, Held, InBody, UploadAt, RdmAt, EdmAt, Reached, Apart, Moved
<1>5. Refs'
    BY <1>1, <1>2, NumbersHold, NextNumbers, HeadFacts DEF Refs, Numbers, Hand, Poll, Apart, Moved, HeadSet
<1>6. FormsShowErrors'
    BY <1>1, <1>2 DEF FormsShowErrors
<1>7. ImportBudget'
  <2>1. CASE InDoubt(w)
      BY SMTT(60), <1>1, <1>2, <2>1, NumbersHold DEF ImportBudget, Numbers
  <2>2. CASE ~ InDoubt(w)
    <3>1. MayImport' => MayImport
        BY <1>1, <2>2 DEF MayImport, InDoubt, Reached, Apart
    <3> QED
        BY <1>1, <1>2, <2>2, <3>1, NumbersHold DEF ImportBudget, Numbers
  <2> QED
      BY <2>1, <2>2
<1>8. JobBudget'
    BY <1>1, <1>2, NumbersHold DEF JobBudget, Numbers
<1>9. AskBudget'
    BY <1>1 DEF AskBudget, Answered
<1>R. RestKept({"succeeded"}) /\ RestKept(Rollups)
  <2> SUFFICES ASSUME NEW past \in {{"succeeded"}, Rollups} PROVE RestKept(past)
      OBVIOUS
  <2> QED
      BY <1>1 DEF Held, Running, Alone, RestKept, Unfinished, Works, Rollups, Apart, Moved, HeadSet
<1>10. Chained'
    BY <1>1, <1>R, ChainedKept
<1>11. PendingIsServed'
    BY ZenonT(60), <1>1, <1>2, HeadFacts DEF PendingIsServed, Reached, UploadToCome, Works, Active, UploadAt, Held, InBody, Running, Alone, Apart, Moved, HeadSet
<1>12. ImportingIsServed'
  <2>1. Importing' => Importing
      BY <1>1 DEF Importing, Apart, Moved
  <2>2. Queued => Queued'
      BY <1>1 DEF Queued
  <2> QED
      BY <1>1, <1>R, <2>1, <2>2, ImportingKept
<1> QED
    BY <1>2, <1>3, <1>4, <1>5, <1>6, <1>7, <1>8, <1>9, <1>10, <1>11, <1>12

\* The thread is gone, its job still running.
LEMMA CrashKeeps ==
    ASSUME Inductive, NEW w \in Threads, Crash(w)
    PROVE  Inductive'
<1>a. log \in Log /\ thread \in [Threads -> Hand] /\ Typed
    BY DEF Inductive, Typed
<1>b. /\ log' \in Log /\ log'.asked = log.asked /\ log'.missed = log.missed
      /\ log'.doubt = IF InDoubt(w) THEN log.doubt + 1 ELSE log.doubt
    BY <1>a DEF Crash, Log
<1>c. Interrupted(w)
    BY <1>a, <1>b, FaultCounts, IdleFacts DEF Crash, Keep, Apart, tables, outside, Interrupted
<1> QED
    BY <1>c, InterruptedKeeps

\* The thread will complete its job as raised.
LEMMA RaisesKeeps ==
    ASSUME Inductive, NEW w \in Threads, Raises(w)
    PROVE  Inductive'
<1>a. log \in Log /\ Typed /\ "raised" \in ThreadAt /\ thread[w].at # "idle"
    BY DEF Inductive, Typed, ThreadAt, Raises
<1>b. /\ log' \in Log /\ log'.asked = log.asked /\ log'.missed = log.missed
      /\ log'.doubt = IF InDoubt(w) THEN log.doubt + 1 ELSE log.doubt
    BY <1>a DEF Raises, Log
<1>c. thread' \in [Threads -> Hand] /\ Moved(w, "raised")
    BY <1>a, GoMoves DEF Raises, Go
<1>d. Interrupted(w)
    BY <1>a, <1>b, <1>c, FaultCounts DEF Raises, Keep, Moved, tables, outside, Interrupted
<1> QED
    BY <1>d, InterruptedKeeps

\* Only a pending_import entity is submitted.
LEMMA ReadEntityKeeps ==
    ASSUME Inductive, NEW w \in Threads, ReadEntity(w)
    PROVE  Inductive'
<1> USE DEF Inductive
<1>a. entity.file \in Nat
    BY DEF Typed, Entity
<1>1. /\ thread' \in [Threads -> Hand]
      /\ thread[w].at = "read"
      /\ Moved(w, IF entity.status # "pending_import" THEN "succeeded"
                  ELSE IF kind = "rdm" THEN "look" ELSE "submit")
      /\ UNCHANGED <<kind, entity, fresh, adopted, irpJobs, heads, newest, captured, poller, request,
                     imports, rmAnalyses, log, spent>>
    BY <1>a, GoMoves, GoWithMoves DEF ReadEntity, BodyKeeps, Keep, ThreadAt
<1>2. Typed'
    BY <1>1 DEF Typed
<1>3. Held'
    BY <1>1, MoveKeepsHeld DEF UploadAt, RdmAt, EdmAt
<1>4. Bodies'
    BY <1>1, <1>2 DEF Bodies, Held, InBody, UploadAt, RdmAt, EdmAt, Reached, Apart, Moved
<1>5. Refs'
    BY <1>1, <1>2, NumbersHold, NextNumbers, HeadFacts DEF Refs, Numbers, Hand, Poll, Apart, Moved, HeadSet
<1>6. FormsShowErrors'
    BY <1>1, <1>2 DEF FormsShowErrors
<1>7. ImportBudget'
  <2>1. MayImport' => MayImport
      BY <1>1 DEF MayImport, InDoubt, Reached, Held, InBody, UploadAt, Apart, Moved
  <2> QED
      BY <1>1, <1>2, <2>1, NumbersHold DEF ImportBudget, Numbers
<1>8. JobBudget'
  <2>1. MayRecord' => MayRecord
      BY <1>1 DEF MayRecord, Held, InBody, UploadAt, Apart, Moved
  <2> QED
      BY <1>1, <1>2, <2>1, NumbersHold DEF JobBudget, Numbers
<1>9. AskBudget'
    BY <1>1 DEF AskBudget, Answered
<1>R. RestKept({"succeeded"}) /\ RestKept(Rollups)
    BY <1>1, MoveKeepsRest DEF Held, InBody, UploadAt, RdmAt, EdmAt, Rollups
<1>10. Chained'
    BY <1>1, <1>R, ChainedKept
<1>11. PendingIsServed'
  <2>1. CASE entity.status = "pending_import"
      BY <1>1, <2>1 DEF PendingIsServed, Reached, UploadToCome, Works, Active, UploadAt, Apart, Moved
  <2>2. CASE entity.status # "pending_import"
      BY <1>1, <2>2 DEF PendingIsServed
  <2> QED
      BY <2>1, <2>2
<1>12. ImportingIsServed'
  <2>1. Importing' => Importing
      BY <1>1 DEF Importing, Apart, Moved
  <2>2. Queued => Queued'
      BY <1>1 DEF Queued
  <2> QED
      BY <1>1, <1>R, <2>1, <2>2, ImportingKept
<1> QED
    BY <1>2, <1>3, <1>4, <1>5, <1>6, <1>7, <1>8, <1>9, <1>10, <1>11, <1>12

\* _rdm_import_exists: an RDM goes on only when none of its imports reached
\* Risk Modeler.
LEMMA LookForImportKeeps ==
    ASSUME Inductive, NEW w \in Threads, LookForImport(w)
    PROVE  Inductive'
<1> USE DEF Inductive
<1>1. /\ thread' \in [Threads -> Hand]
      /\ thread[w].at = "look" /\ Moved(w, IF Reached THEN "succeeded" ELSE "submit")
      /\ UNCHANGED <<kind, entity, fresh, adopted, irpJobs, heads, newest, captured, poller, request,
                     imports, rmAnalyses, log, spent>>
    BY GoMoves DEF LookForImport, Reached, BodyKeeps, Keep, ThreadAt
<1>2. Typed'
    BY <1>1 DEF Typed
<1>3. Held'
    BY <1>1, MoveKeepsHeld DEF UploadAt, RdmAt, EdmAt
<1>4. Bodies'
    BY <1>1, <1>2 DEF Bodies, Held, InBody, UploadAt, RdmAt, EdmAt, Reached, Apart, Moved
<1>5. Refs'
    BY <1>1, <1>2, NumbersHold, NextNumbers, HeadFacts DEF Refs, Numbers, Hand, Poll, Apart, Moved, HeadSet
<1>6. FormsShowErrors'
    BY <1>1, <1>2 DEF FormsShowErrors
<1>7. ImportBudget'
  <2>1. MayImport' => MayImport
      BY <1>1 DEF MayImport, InDoubt, Reached, Held, InBody, UploadAt, Apart, Moved
  <2> QED
      BY <1>1, <1>2, <2>1, NumbersHold DEF ImportBudget, Numbers
<1>8. JobBudget'
  <2>1. MayRecord' => MayRecord
      BY <1>1 DEF MayRecord, Held, InBody, UploadAt, Apart, Moved
  <2> QED
      BY <1>1, <1>2, <2>1, NumbersHold DEF JobBudget, Numbers
<1>9. AskBudget'
    BY <1>1 DEF AskBudget, Answered
<1>R. RestKept({"succeeded"}) /\ RestKept(Rollups)
    BY <1>1, MoveKeepsRest DEF Held, InBody, UploadAt, RdmAt, EdmAt, Rollups
<1>10. Chained'
    BY <1>1, <1>R, ChainedKept
<1>11. PendingIsServed'
    BY ZenonT(60), <1>1, <1>2 DEF PendingIsServed, Bodies, Reached, UploadToCome, Works, Active, UploadAt, Held, InBody, Alone, Apart, Moved
<1>12. ImportingIsServed'
  <2>1. Importing' => Importing
      BY <1>1 DEF Importing, Apart, Moved
  <2>2. Queued => Queued'
      BY <1>1 DEF Queued
  <2> QED
      BY <1>1, <1>R, <2>1, <2>2, ImportingKept
<1> QED
    BY <1>2, <1>3, <1>4, <1>5, <1>6, <1>7, <1>8, <1>9, <1>10, <1>11, <1>12

\* The POST spends what MayImport kept, and one more for each lost answer.
LEMMA SubmitImportKeeps ==
    ASSUME Inductive, NEW w \in Threads, SubmitImport(w)
    PROVE  Inductive'
<1> USE DEF Inductive
<1>a. thread[w].got \in Nat /\ Len(imports) \in Nat
    BY NumbersHold DEF Numbers, Hand
<1>n. PICK n \in 0..2 :
        /\ Imports(thread[w].got, n)
        /\ \/ /\ n > 0 /\ GoWith(w, "record", Len(imports) + n)
              /\ (n = 1 => UNCHANGED spent) /\ (n # 1 => Fault("lost"))
           \/ /\ n < 2 /\ Go(w, "record failure")
              /\ (n = 0 => UNCHANGED spent) /\ (n # 0 => Fault("lost"))
    BY Zenon DEF SubmitImport
<1>s. /\ spent \in Spent /\ spent.crashes + spent.lost <= MaxFaults /\ spent.lost \in Nat
      /\ spent.crashes \in Nat /\ n \in 0..2
    BY <1>n DEF Typed, Spent
<1>f. Fault("lost") => /\ spent' \in Spent /\ spent'.crashes + spent'.lost <= MaxFaults
                       /\ spent'.crashes = spent.crashes /\ spent'.lost = spent.lost + 1
    BY FaultCounts
<1>c. /\ thread' \in [Threads -> Hand] /\ spent' \in Spent
      /\ spent'.crashes + spent'.lost <= MaxFaults /\ spent'.crashes = spent.crashes
      /\ Moved(w, thread'[w].at)
      /\ \/ /\ thread'[w].at = "record" /\ n > 0 /\ thread'[w].got = Len(imports) + n
            /\ spent'.lost = spent.lost + n - 1
         \/ thread'[w].at = "record failure" /\ spent'.lost = spent.lost + n
  <2>1. CASE n > 0 /\ GoWith(w, "record", Len(imports) + n) /\ (n = 1 => UNCHANGED spent) /\ (n # 1 => Fault("lost"))
    <3>1. Len(imports) + n \in Nat /\ "record" \in ThreadAt
        BY <1>a DEF ThreadAt
    <3>2. /\ thread' \in [Threads -> Hand] /\ Moved(w, thread'[w].at)
          /\ thread'[w].at = "record" /\ thread'[w].got = Len(imports) + n
        BY <2>1, <3>1, GoWithMoves DEF Moved
    <3>n. n > 0 /\ (n = 1 => spent' = spent) /\ (n # 1 => Fault("lost"))
        BY <2>1, Zenon
    <3>3. n = 1 \/ (n = 2 /\ Fault("lost"))
        BY <1>s, <3>n
    <3>4. /\ spent' \in Spent /\ spent'.crashes + spent'.lost <= MaxFaults
          /\ spent'.crashes = spent.crashes /\ spent'.lost = spent.lost + n - 1
        BY <1>s, <1>f, <3>n, <3>3
    <3> QED
        BY <3>n, <3>2, <3>4, Zenon
  <2>2. CASE n < 2 /\ Go(w, "record failure") /\ (n = 0 => UNCHANGED spent) /\ (n # 0 => Fault("lost"))
    <3>1. "record failure" \in ThreadAt
        BY DEF ThreadAt
    <3>2. /\ thread' \in [Threads -> Hand] /\ Moved(w, thread'[w].at)
          /\ thread'[w].at = "record failure"
        BY <2>2, <3>1, GoMoves DEF Moved
    <3>n. n < 2 /\ (n = 0 => spent' = spent) /\ (n # 0 => Fault("lost"))
        BY <2>2, Zenon
    <3>3. n = 0 \/ (n = 1 /\ Fault("lost"))
        BY <1>s, <3>n
    <3>4. /\ spent' \in Spent /\ spent'.crashes + spent'.lost <= MaxFaults
          /\ spent'.crashes = spent.crashes /\ spent'.lost = spent.lost + n
        BY <1>s, <1>f, <3>n, <3>3
    <3> QED
        BY <3>2, <3>4, Zenon
  <2> QED
      BY <1>n, <2>1, <2>2
<1>d. /\ imports' \in Seq(Import) /\ Len(imports') = Len(imports) + n
      /\ DOMAIN imports' = 1..Len(imports) + n
    BY <1>a, <1>n, ImportsAdded
<1>1. /\ thread' \in [Threads -> Hand] /\ spent' \in Spent /\ imports' \in Seq(Import)
      /\ spent'.crashes + spent'.lost <= MaxFaults /\ spent'.crashes = spent.crashes
      /\ thread[w].at = "submit"
      /\ Len(imports') = Len(imports) + n /\ DOMAIN imports' = 1..Len(imports) + n
      /\ Moved(w, thread'[w].at)
      /\ \/ /\ thread'[w].at = "record" /\ n > 0 /\ thread'[w].got = Len(imports) + n
            /\ spent'.lost = spent.lost + n - 1
         \/ thread'[w].at = "record failure" /\ spent'.lost = spent.lost + n
      /\ UNCHANGED <<kind, entity, fresh, adopted, irpJobs, heads, newest, captured, poller, request,
                     rmAnalyses, log>>
    BY <1>c, <1>d DEF SubmitImport, BodyKeeps, Keep
<1>b. /\ DOMAIN imports = 1..Len(imports) /\ DOMAIN imports \subseteq DOMAIN imports'
      /\ n > 0 => Len(imports) + n \in DOMAIN imports'
  <2>1. DOMAIN imports = 1..Len(imports)
      BY NumbersHold DEF Numbers
  <2>2. DOMAIN imports' = 1..Len(imports) + n
      BY <1>1
  <2> QED
      BY <1>a, <2>1, <2>2
<1>2. Typed'
  <2>1. adopted' \subseteq DOMAIN imports'
      BY <1>1, <1>b DEF Typed
  <2> QED
      BY <1>1, <2>1 DEF Typed
<1>3. Held'
    BY <1>1, MoveKeepsHeld DEF UploadAt, RdmAt, EdmAt
<1>4. Bodies'
    BY <1>1, <1>2 DEF Bodies, Held, InBody, UploadAt, RdmAt, EdmAt, Reached, Apart, Moved
<1>5. Refs'
    BY <1>1, <1>b DEF Refs, Apart, Moved
<1>6. FormsShowErrors'
    BY <1>1, <1>2 DEF FormsShowErrors
<1>7. ImportBudget'
  <2>1. \A v \in Threads : ~ InDoubt(v)
      BY <1>1 DEF InDoubt, Held, InBody, Alone, Works, UploadAt
  <2>2. MayImport
      BY <1>1, <2>1 DEF MayImport, Bodies
  <2>3. Len(imports') = Len(imports) + n /\ log' = log
      BY <1>1
  <2>4. CASE thread'[w].at = "record" /\ n > 0 /\ spent'.lost = spent.lost + n - 1
    <3>1. ~ MayImport'
        BY <2>4 DEF MayImport, InDoubt, Moved
    <3> QED
        BY SMTT(60), <1>2, <2>2, <2>3, <2>4, <3>1, NumbersHold, NextNumbers DEF ImportBudget, Numbers
  <2>5. CASE thread'[w].at = "record failure" /\ spent'.lost = spent.lost + n
    <3>1. Len(imports) + 1 <= log.asked + log.doubt + spent.lost
        BY <2>2 DEF ImportBudget
    <3>a. Len(imports) \in Nat /\ log.asked \in Nat /\ log.doubt \in Nat
        BY NumbersHold DEF Numbers
    <3>b. n \in Nat /\ spent.lost \in Nat
        BY <1>s
    <3>c. spent'.lost = spent.lost + n
        BY <2>5
    <3>2. Len(imports') + 1 <= log.asked + log.doubt + spent'.lost
        BY <2>3, <3>1, <3>a, <3>b, <3>c
    <3> QED
        BY <1>2, <2>3, <3>2, NextNumbers DEF ImportBudget, Numbers
  <2> QED
      BY <1>1, <2>4, <2>5
<1>8. JobBudget'
  <2>1. MayRecord' => MayRecord
      BY <1>1 DEF MayRecord, Held, InBody, UploadAt, Apart, Moved
  <2> QED
      BY <1>1, <1>2, <2>1, NumbersHold DEF JobBudget, Numbers
<1>9. AskBudget'
    BY <1>1 DEF AskBudget, Answered
<1>R. RestKept({"succeeded"}) /\ RestKept(Rollups)
    BY <1>1, MoveKeepsRest DEF Held, InBody, UploadAt, RdmAt, EdmAt, Rollups
<1>10. Chained'
    BY <1>1, <1>R, ChainedKept
<1>11. PendingIsServed'
  <2>1. Reached => Reached'
      BY <1>1 DEF Reached
  <2>2. UploadToCome => UploadToCome'
      BY <1>1, MoveKeepsUpload DEF Held, InBody, UploadAt, RdmAt, EdmAt
  <2> QED
      BY <1>1, <2>1, <2>2, PendingKept
<1>12. ImportingIsServed'
  <2>1. Importing' => Importing
      BY <1>1 DEF Importing, Apart, Moved
  <2>2. Queued => Queued'
      BY <1>1 DEF Queued
  <2> QED
      BY <1>1, <1>R, <2>1, <2>2, ImportingKept
<1> QED
    BY <1>2, <1>3, <1>4, <1>5, <1>6, <1>7, <1>8, <1>9, <1>10, <1>11, <1>12

\* The record closes the window of an RDM and spends what MayRecord kept.
LEMMA RecordImportKeeps ==
    ASSUME Inductive, NEW w \in Threads, RecordImport(w)
    PROVE  Inductive'
<1> USE DEF Inductive
<1>a. thread[w].got \in Nat /\ 0 \in Nat /\ Len(irpJobs) \in Nat /\ DOMAIN irpJobs = 1..Len(irpJobs)
    BY NumbersHold DEF Numbers, Hand
<1>1. /\ thread' \in [Threads -> Hand] /\ irpJobs' \in Seq(IrpJob)
      /\ Len(irpJobs') = Len(irpJobs) + 1 /\ DOMAIN irpJobs' = 1..Len(irpJobs) + 1
      /\ \A j \in DOMAIN irpJobs : irpJobs'[j] = irpJobs[j]
      /\ Moved(w, thread'[w].at)
      /\ \/ /\ thread[w].at = "record" /\ thread'[w].at = "mark"
            /\ irpJobs'[Len(irpJobs) + 1].import = thread[w].got
            /\ irpJobs'[Len(irpJobs) + 1].status = "QUEUED"
         \/ /\ thread[w].at = "record failure" /\ thread'[w].at = "mark error"
            /\ irpJobs'[Len(irpJobs) + 1].status = "SUBMISSION FAILED"
      /\ UNCHANGED <<kind, entity, fresh, adopted, heads, newest, captured, poller, request, imports,
                     rmAnalyses, log, spent>>
  <2>1. UNCHANGED <<kind, entity, fresh, adopted, heads, newest, captured, poller, request, imports,
                    rmAnalyses, log, spent>>
      BY DEF RecordImport, BodyKeeps, Keep
  <2>2. CASE thread[w].at = "record" /\ AddJob(thread[w].got, "QUEUED") /\ Go(w, "mark")
    <3>1. "mark" \in ThreadAt
        BY DEF ThreadAt
    <3>2. thread' \in [Threads -> Hand] /\ Moved(w, thread'[w].at) /\ thread'[w].at = "mark"
        BY <2>2, <3>1, GoMoves DEF Moved
    <3> QED
        BY <1>a, <2>1, <2>2, <3>2, JobAdded
  <2>3. CASE thread[w].at = "record failure" /\ AddJob(0, "SUBMISSION FAILED") /\ Go(w, "mark error")
    <3>1. "mark error" \in ThreadAt
        BY DEF ThreadAt
    <3>2. thread' \in [Threads -> Hand] /\ Moved(w, thread'[w].at) /\ thread'[w].at = "mark error"
        BY <2>3, <3>1, GoMoves DEF Moved
    <3> QED
        BY <1>a, <2>1, <2>3, <3>2, JobAdded
  <2> QED
      BY <2>2, <2>3 DEF RecordImport
<1>b. /\ DOMAIN irpJobs \subseteq DOMAIN irpJobs' /\ Len(irpJobs) + 1 \in DOMAIN irpJobs'
      /\ DOMAIN irpJobs' = DOMAIN irpJobs \cup {Len(irpJobs) + 1}
  <2>1. DOMAIN irpJobs' = 1..Len(irpJobs) + 1
      BY <1>1
  <2> QED
      BY <1>a, <2>1
<1>c. \A v \in Threads \ {w} : thread[v].at \notin UploadAt
    BY <1>1 DEF Held, InBody, Alone, Works, UploadAt
<1>2. Typed'
    BY <1>1 DEF Typed
<1>3. Held'
    BY <1>1, MoveKeepsHeld DEF UploadAt, RdmAt, EdmAt
<1>4. Bodies'
  <2>1. \A v \in Threads : thread'[v].at \notin {"look", "submit", "record"}
      BY <1>1, <1>c DEF Apart, Moved, UploadAt
  <2>2. \A v \in Threads : thread'[v].at \in RdmAt \cup EdmAt => thread'[v] = thread[v]
      BY <1>1 DEF Apart, Moved, RdmAt, EdmAt
  <2> QED
      BY <1>1, <2>1, <2>2 DEF Bodies
<1>5. Refs'
  <2>1. \A j \in DOMAIN irpJobs' : irpJobs'[j].status # "SUBMISSION FAILED" => irpJobs'[j].import \in DOMAIN imports
      BY <1>1, <1>b DEF Refs
  <2>2. \A v \in Threads : thread'[v].at # "record"
      BY <1>1, <1>c DEF Apart, Moved, UploadAt
  <2> QED
      BY <1>1, <1>b, <2>1, <2>2 DEF Refs
<1>6. FormsShowErrors'
    BY <1>1, <1>2 DEF FormsShowErrors
<1>7. ImportBudget'
  <2>1. Reached => Reached'
      BY <1>1, <1>b DEF Reached
  <2>2. MayImport' => MayImport
    <3>1. CASE thread[w].at = "record"
      <4>1. Reached' /\ thread'[w].at = "mark"
          BY <1>1, <1>b, <3>1 DEF Reached
      <4>2. InDoubt(w)' \/ kind' = "rdm"
          BY <1>1, <4>1, EntityImportAssumption DEF InDoubt, Typed
      <4> QED
          BY <4>1, <4>2 DEF MayImport
    <3>2. CASE thread[w].at = "record failure"
      <4>1. \A v \in Threads : ~ InDoubt(v)
          BY <1>c, <3>2 DEF InDoubt, UploadAt
      <4> QED
          BY <1>1, <2>1, <3>2, <4>1 DEF MayImport, Apart, Moved
    <3> QED
        BY <1>1, <3>1, <3>2
  <2> QED
      BY <1>1, <1>2, <2>2, NumbersHold DEF ImportBudget, Numbers
<1>8. JobBudget'
  <2>1. MayRecord /\ ~ MayRecord'
      BY <1>1, <1>c DEF MayRecord, UploadAt
  <2>2. Len(irpJobs') = Len(irpJobs) + 1 /\ log' = log /\ spent' = spent
      BY <1>1
  <2> QED
      BY <1>2, <2>1, <2>2, NumbersHold, NextNumbers DEF JobBudget, Numbers
<1>9. AskBudget'
    BY <1>1 DEF AskBudget, Answered
<1>R. RestKept({"succeeded"}) /\ RestKept(Rollups)
    BY <1>1, MoveKeepsRest DEF Held, InBody, UploadAt, RdmAt, EdmAt, Rollups
<1>10. Chained'
    BY <1>1, <1>R, ChainedKept
<1>11. PendingIsServed'
  <2>1. Reached => Reached'
      BY <1>1, <1>b DEF Reached
  <2>2. UploadToCome => UploadToCome'
      BY <1>1 DEF UploadToCome, Works, UploadAt, Apart, Moved
  <2> QED
      BY <1>1, <2>1, <2>2 DEF PendingIsServed, Active
<1>12. ImportingIsServed'
  <2>1. Queued => Queued'
      BY <1>1, <1>b DEF Queued
  <2>2. CASE thread[w].at = "record"
      BY <1>1, <1>b, <2>2 DEF ImportingIsServed, Queued
  <2>3. CASE thread[w].at = "record failure"
    <3>1. Importing' => Importing
        BY <1>1, <2>3 DEF Importing, Apart, Moved
    <3> QED
        BY <1>1, <1>R, <2>1, <3>1, ImportingKept
  <2> QED
      BY <1>1, <2>2, <2>3
<1> QED
    BY <1>2, <1>3, <1>4, <1>5, <1>6, <1>7, <1>8, <1>9, <1>10, <1>11, <1>12

\* The entity leaves pending_import: nothing more may be imported.
LEMMA MarkKeeps ==
    ASSUME Inductive, NEW w \in Threads, Mark(w)
    PROVE  Inductive'
<1> USE DEF Inductive
<1>a. /\ "importing" \in Status /\ "error" \in Status
      /\ "succeeded" \in ThreadAt /\ "failed" \in ThreadAt /\ entity \in Entity
    BY DEF Status, ThreadAt, Typed
<1>1. /\ thread' \in [Threads -> Hand] /\ entity' \in Entity /\ fresh' \subseteq Requests
      /\ fresh' = {} \/ (fresh' = fresh /\ entity' = entity)
      /\ Moved(w, thread'[w].at)
      /\ \/ /\ thread[w].at = "mark" /\ thread'[w].at = "succeeded"
            /\ entity'.status = IF entity.status = "pending_import" THEN "importing" ELSE entity.status
         \/ /\ thread[w].at = "mark error" /\ thread'[w].at = "failed"
            /\ entity'.status = IF entity.status \in {"pending_import", "importing"} THEN "error"
                                                                                     ELSE entity.status
      /\ UNCHANGED <<kind, adopted, irpJobs, heads, newest, captured, poller, request, imports,
                     rmAnalyses, log, spent>>
  <2>1. UNCHANGED <<kind, adopted, irpJobs, heads, newest, captured, poller, request, imports,
                    rmAnalyses, log, spent>>
      BY DEF Mark, BodyKeeps
  <2>2. fresh \subseteq Requests /\ {} \subseteq Requests
      BY DEF Typed
  <2>3. CASE /\ thread[w].at = "mark" /\ Go(w, "succeeded")
             /\ IF entity.status = "pending_import"
                  THEN Put([entity EXCEPT !.status = "importing"]) ELSE Keep
    <3>1. thread' \in [Threads -> Hand] /\ Moved(w, thread'[w].at) /\ thread'[w].at = "succeeded"
        BY <1>a, <2>3, GoMoves DEF Moved
    <3>2. CASE entity.status = "pending_import"
        BY <1>a, <2>1, <2>2, <2>3, <3>1, <3>2, StatusPut
    <3>3. CASE entity.status # "pending_import"
        BY <1>a, <2>1, <2>2, <2>3, <3>1, <3>3 DEF Keep
    <3> QED
        BY <3>2, <3>3
  <2>4. CASE /\ thread[w].at = "mark error" /\ Go(w, "failed")
             /\ IF entity.status \in {"pending_import", "importing"}
                  THEN Put([entity EXCEPT !.status = "error"]) ELSE Keep
    <3>1. thread' \in [Threads -> Hand] /\ Moved(w, thread'[w].at) /\ thread'[w].at = "failed"
        BY <1>a, <2>4, GoMoves DEF Moved
    <3>2. CASE entity.status \in {"pending_import", "importing"}
        BY <1>a, <2>1, <2>2, <2>4, <3>1, <3>2, StatusPut
    <3>3. CASE entity.status \notin {"pending_import", "importing"}
        BY <1>a, <2>1, <2>2, <2>4, <3>1, <3>3 DEF Keep
    <3> QED
        BY <3>2, <3>3
  <2> QED
      BY <2>3, <2>4 DEF Mark
<1>b. entity'.status # "pending_import" /\ (entity'.status = "importing" => Importing)
    BY <1>1 DEF Importing
<1>c. \A v \in Threads \ {w} : thread[v].at \notin UploadAt
    BY <1>1 DEF Held, InBody, Alone, Works, UploadAt
<1>d. \A v \in Threads : thread'[v].at \notin UploadAt
    BY <1>1, <1>c DEF Apart, Moved, UploadAt
<1>2. Typed'
    BY <1>1 DEF Typed
<1>3. Held'
    BY <1>1, MoveKeepsHeld DEF UploadAt, RdmAt, EdmAt
<1>4. Bodies'
    BY <1>1, <1>2 DEF Bodies, Held, InBody, UploadAt, RdmAt, EdmAt, Reached, Apart, Moved
<1>5. Refs'
    BY <1>1, <1>2, NumbersHold, NextNumbers, HeadFacts DEF Refs, Numbers, Hand, Poll, Apart, Moved, HeadSet
<1>6. FormsShowErrors'
    BY <1>1, <1>2 DEF FormsShowErrors
<1>7. ImportBudget'
  <2>1. ~ MayImport'
      BY <1>b, <1>d DEF MayImport, UploadAt
  <2> QED
      BY <1>1, <1>2, <2>1 DEF ImportBudget
<1>8. JobBudget'
  <2>1. ~ MayRecord'
      BY <1>b, <1>d DEF MayRecord, UploadAt
  <2> QED
      BY <1>1, <1>2, <2>1 DEF JobBudget
<1>9. AskBudget'
    BY <1>1 DEF AskBudget, Answered
<1>R. RestKept({"succeeded"}) /\ RestKept(Rollups)
    BY <1>1, MoveKeepsRest DEF Held, InBody, UploadAt, RdmAt, EdmAt, Rollups
<1>10. Chained'
    BY <1>1, <1>R, ChainedKept
<1>11. PendingIsServed'
    BY <1>b DEF PendingIsServed
<1>12. ImportingIsServed'
  <2>1. Importing' => Importing
      BY <1>b, <1>d DEF Importing, UploadAt
  <2>2. Queued => Queued'
      BY <1>1 DEF Queued
  <2> QED
      BY <1>1, <1>R, <2>1, <2>2, ImportingKept
<1> QED
    BY <1>2, <1>3, <1>4, <1>5, <1>6, <1>7, <1>8, <1>9, <1>10, <1>11, <1>12

\* What the steps of the backfills that store nothing of the status have in
\* common: only the last of an EDM ends its job.
LEMMA BackfillMovesKeeps ==
    ASSUME Inductive, NEW w \in Threads, thread' \in [Threads -> Hand], Moved(w, thread'[w].at),
           entity' \in Entity, entity'.status = entity.status, fresh' \subseteq fresh,
           \/ thread[w].at \in EdmAt /\ thread'[w].at \in {"resolve", "store exposure", "list", "succeeded", "failed", "raised"}
           \/ thread[w].at = "enumerate" /\ thread'[w].at \in {"store", "failed"},
           UNCHANGED <<kind, adopted, irpJobs, heads, newest, captured, poller, request, imports,
                       rmAnalyses, log, spent>>
    PROVE  Inductive'
<1> USE DEF Inductive
<1>1. /\ thread' \in [Threads -> Hand] /\ Moved(w, thread'[w].at)
      /\ entity' \in Entity /\ entity'.status = entity.status /\ fresh' \subseteq fresh
      /\ \/ thread[w].at \in EdmAt /\ thread'[w].at \in {"resolve", "store exposure", "list", "succeeded", "failed", "raised"}
         \/ thread[w].at = "enumerate" /\ thread'[w].at \in {"store", "failed"}
      /\ UNCHANGED <<kind, adopted, irpJobs, heads, newest, captured, poller, request, imports,
                     rmAnalyses, log, spent>>
    OBVIOUS
<1>2. Typed'
    BY <1>1 DEF Typed
<1>3. Held'
    BY <1>1, MoveKeepsHeld DEF UploadAt, RdmAt, EdmAt
<1>4. Bodies'
    BY <1>1, <1>2 DEF Bodies, Held, InBody, UploadAt, RdmAt, EdmAt, Reached, Apart, Moved
<1>5. Refs'
    BY <1>1, <1>2, NumbersHold, NextNumbers, HeadFacts DEF Refs, Numbers, Hand, Poll, Apart, Moved, HeadSet
<1>6. FormsShowErrors'
    BY <1>1, <1>2 DEF FormsShowErrors
<1>7. ImportBudget'
  <2>1. MayImport' => MayImport
      BY <1>1 DEF MayImport, InDoubt, Reached, Held, InBody, UploadAt, Apart, Moved
  <2> QED
      BY <1>1, <1>2, <2>1, NumbersHold DEF ImportBudget, Numbers
<1>8. JobBudget'
  <2>1. MayRecord' => MayRecord
      BY <1>1 DEF MayRecord, Held, InBody, UploadAt, Apart, Moved
  <2> QED
      BY <1>1, <1>2, <2>1, NumbersHold DEF JobBudget, Numbers
<1>9. AskBudget'
    BY <1>1 DEF AskBudget, Answered
<1>R. kind = "rdm" => RestKept({"succeeded"}) /\ RestKept(Rollups)
  <2>1. kind = "rdm" => thread'[w].at \notin {"chain", "succeeded"}
      BY <1>1 DEF Bodies
  <2>2. kind = "rdm" => RestKept({"succeeded"})
      BY <1>1, <2>1, MoveKeepsRest DEF EdmAt
  <2>3. kind = "rdm" => RestKept(Rollups)
      BY <1>1, <2>1, MoveKeepsRest DEF EdmAt, Rollups
  <2> QED
      BY <2>2, <2>3
<1>10. Chained'
  <2>1. CASE kind = "rdm"
      BY <1>1, <1>R, <2>1, ChainedKept
  <2>2. CASE kind # "rdm"
      BY <1>1, <1>4, <2>2 DEF Bodies, Chained, Unretrieved
  <2> QED
      BY <2>1, <2>2
<1>11. PendingIsServed'
  <2>1. Reached => Reached'
      BY <1>1 DEF Reached
  <2>2. UploadToCome => UploadToCome'
      BY <1>1, MoveKeepsUpload DEF Held, InBody, UploadAt, RdmAt, EdmAt
  <2> QED
      BY <1>1, <2>1, <2>2, PendingKept
<1>12. ImportingIsServed'
  <2>1. Importing' => Importing
      BY <1>1 DEF Importing, Apart, Moved, EdmAt
  <2>2. Queued => Queued'
      BY <1>1 DEF Queued
  <2>3. CASE kind = "rdm"
      BY <1>1, <1>R, <2>1, <2>2, <2>3, ImportingKept
  <2>4. CASE kind # "rdm"
      BY <1>1, <2>1, <2>2, <2>4 DEF ImportingIsServed, RollupToCome
  <2> QED
      BY <2>3, <2>4
<1> QED
    BY <1>2, <1>3, <1>4, <1>5, <1>6, <1>7, <1>8, <1>9, <1>10, <1>11, <1>12

\* A step of backfill_edm_detail.
LEMMA ReadExposureKeeps ==
    ASSUME Inductive, NEW w \in Threads, ReadExposure(w)
    PROVE  Inductive'
<1> USE DEF Inductive
<1>1. /\ thread' \in [Threads -> Hand]
      /\ thread[w].at = "exposure" /\ Moved(w, thread'[w].at) /\ thread'[w].at \in {"resolve", "list"}
      /\ UNCHANGED <<kind, entity, fresh, adopted, irpJobs, heads, newest, captured, poller, request,
                     imports, rmAnalyses, log, spent>>
    BY GoMoves DEF ReadExposure, BodyKeeps, Keep, ThreadAt, Moved
<1>q. entity \in Entity /\ fresh \subseteq fresh
    BY DEF Typed
<1> QED
    BY <1>1, <1>q, BackfillMovesKeeps DEF EdmAt

\* A step of backfill_edm_detail.
LEMMA ResolveExposureKeeps ==
    ASSUME Inductive, NEW w \in Threads, ResolveExposure(w)
    PROVE  Inductive'
<1> USE DEF Inductive
<1>a. Exposures \subseteq Nat
    BY NumbersHold DEF Exposures, Numbers
<1>1. /\ thread' \in [Threads -> Hand]
      /\ thread[w].at = "resolve" /\ kind # "rdm"
      /\ Moved(w, thread'[w].at) /\ thread'[w].at \in {"store exposure", "succeeded"}
      /\ UNCHANGED <<kind, entity, fresh, adopted, irpJobs, heads, newest, captured, poller, request,
                     imports, rmAnalyses, log, spent>>
  <2>1. /\ thread[w].at = "resolve" /\ kind # "rdm"
        /\ UNCHANGED <<kind, entity, fresh, adopted, irpJobs, heads, newest, captured, poller, request,
                       imports, rmAnalyses, log, spent>>
      BY DEF ResolveExposure, BodyKeeps, Keep, Bodies, EdmAt
  <2>2. "store exposure" \in ThreadAt /\ "succeeded" \in ThreadAt
      BY DEF ThreadAt
  <2>3. CASE \E i \in Exposures : GoWith(w, "store exposure", i)
      BY <1>a, <2>1, <2>2, <2>3, GoWithMoves DEF Moved
  <2>4. CASE Go(w, "succeeded")
      BY <2>1, <2>2, <2>4, GoMoves DEF Moved
  <2> QED
      BY <2>3, <2>4 DEF ResolveExposure
<1>q. entity \in Entity /\ fresh \subseteq fresh
    BY DEF Typed
<1> QED
    BY <1>1, <1>q, BackfillMovesKeeps DEF EdmAt

\* A step of backfill_edm_detail: the exposure, never the status.
LEMMA StoreExposureKeeps ==
    ASSUME Inductive, NEW w \in Threads, StoreExposure(w)
    PROVE  Inductive'
<1> USE DEF Inductive
<1>a. /\ entity \in Entity /\ fresh \subseteq Requests /\ kind # "rdm" /\ thread[w].got \in Nat
      /\ "list" \in ThreadAt /\ "raised" \in ThreadAt
    BY DEF Typed, Bodies, EdmAt, Hand, ThreadAt, StoreExposure
<1>b. [entity EXCEPT !.exposure = thread[w].got] \in Entity
    BY <1>a DEF Entity
<1>c. [entity EXCEPT !.exposure = thread[w].got].status = entity.status
    BY <1>a DEF Entity
<1>1. /\ thread' \in [Threads -> Hand] /\ entity' \in Entity /\ fresh' \subseteq fresh
      /\ thread[w].at = "store exposure" /\ kind # "rdm"
      /\ Moved(w, thread'[w].at) /\ thread'[w].at \in {"list", "raised"}
      /\ entity'.status = entity.status
      /\ UNCHANGED <<kind, adopted, irpJobs, heads, newest, captured, poller, request,
                     imports, rmAnalyses, log, spent>>
  <2>1. CASE thread[w].got \in adopted
      BY <1>a, <2>1, GoMoves DEF StoreExposure, BodyKeeps, Keep, Moved
  <2>2. CASE thread[w].got \notin adopted
      BY <1>a, <1>b, <1>c, <2>2, GoMoves DEF StoreExposure, BodyKeeps, Put, Moved
  <2> QED
      BY <2>1, <2>2
<1>q. entity \in Entity /\ fresh \subseteq fresh
    BY DEF Typed
<1> QED
    BY <1>1, <1>q, BackfillMovesKeeps DEF EdmAt

\* A step of backfill_edm_detail: as_of, never the status.
LEMMA StoreSnapshotsKeeps ==
    ASSUME Inductive, NEW w \in Threads, StoreSnapshots(w)
    PROVE  Inductive'
<1> USE DEF Inductive
<1>1. /\ thread' \in [Threads -> Hand] /\ entity' = entity /\ fresh' \subseteq fresh
      /\ thread[w].at = "list" /\ kind # "rdm"
      /\ Moved(w, thread'[w].at) /\ thread'[w].at \in {"succeeded", "failed"}
      /\ UNCHANGED <<kind, adopted, irpJobs, heads, newest, captured, poller, request,
                     imports, rmAnalyses, log, spent>>
    BY GoMoves DEF StoreSnapshots, BodyKeeps, Keep, Put, Moved, ThreadAt, Bodies, EdmAt
<1>q. entity \in Entity /\ fresh \subseteq fresh
    BY DEF Typed
<1> QED
    BY <1>1, <1>q, BackfillMovesKeeps DEF EdmAt

\* A step of backfill_rdm_analyses.
LEMMA EnumerateKeeps ==
    ASSUME Inductive, NEW w \in Threads, Enumerate(w)
    PROVE  Inductive'
<1> USE DEF Inductive
<1>a. thread[w] \in Hand /\ rmAnalyses \in SUBSET Analyses
    BY DEF Typed
<1>b. \A seen \in SUBSET Analyses : [[thread[w] EXCEPT !.at = "store"] EXCEPT !.seen = seen] \in Hand
    BY <1>a DEF Hand, ThreadAt
<1>1. /\ thread' \in [Threads -> Hand]
      /\ thread[w].at = "enumerate"
      /\ Moved(w, thread'[w].at) /\ thread'[w].at \in {"store", "failed"}
      /\ UNCHANGED <<kind, entity, fresh, adopted, irpJobs, heads, newest, captured, poller, request,
                     imports, rmAnalyses, log, spent>>
  <2>1. /\ thread[w].at = "enumerate"
        /\ UNCHANGED <<kind, entity, fresh, adopted, irpJobs, heads, newest, captured, poller, request,
                       imports, rmAnalyses, log, spent>>
      BY DEF Enumerate, BodyKeeps, Keep
  <2>2. CASE thread' = [thread EXCEPT ![w].at = "store", ![w].seen = rmAnalyses]
    <3>1. thread' = [thread EXCEPT ![w] = [[thread[w] EXCEPT !.at = "store"] EXCEPT !.seen = rmAnalyses]]
        BY <2>2 DEF Typed
    <3>2. thread' \in [Threads -> Hand]
        BY <1>a, <1>b, <3>1 DEF Typed
    <3> QED
        BY <1>a, <2>1, <3>1, <3>2 DEF Moved, Apart, Hand, Typed
  <2>3. CASE Go(w, "failed")
    <3>1. "failed" \in ThreadAt
        BY DEF ThreadAt
    <3> QED
        BY <2>1, <2>3, <3>1, GoMoves DEF Moved
  <2> QED
      BY <2>2, <2>3 DEF Enumerate
<1>q. entity \in Entity /\ fresh \subseteq fresh
    BY DEF Typed
<1> QED
    BY <1>1, <1>q, BackfillMovesKeeps DEF EdmAt

\* The rollup leaves no RDM importing unless an import is still tracked, and the
\* job that has stored the rows still has their retrievals to enqueue.
LEMMA StoreAnalysesKeeps ==
    ASSUME Inductive, NEW w \in Threads, StoreAnalyses(w)
    PROVE  Inductive'
<1> USE DEF Inductive
<1>a. entity \in Entity /\ kind = "rdm" /\ thread[w].head \in Heads \ {Upload}
      /\ thread[w].at = "store" /\ heads[thread[w].head] = "running"
    BY DEF Typed, Bodies, RdmAt, StoreAnalyses, Held, InBody, Running
<1>b. Rollup \in Status /\ (Queued => Rollup = entity.status) /\ (~ Queued => Rollup \in {"error", "ready"})
  <2>1. Queued => Rollup = entity.status
      BY DEF Queued, Rollup
  <2>2. ~ Queued => Rollup \in {"error", "ready"}
      BY DEF Queued, Rollup
  <2> QED
      BY <1>a, <2>1, <2>2 DEF Status, Entity
<1>c. captured' \in [Analyses -> Row]
  <2>1. \A a \in Analyses : captured[a] \in Row
      BY DEF Typed
  <2>2. \A r \in Row, s \in {"none", "live", "deleted"} : [r EXCEPT !.row = s] \in Row
      BY DEF Row
  <2>3. captured' = [a \in Analyses |-> [captured[a] EXCEPT
                        !.row = IF a \in thread[w].seen THEN "live"
                                ELSE IF captured[a].row = "none" THEN "none" ELSE "deleted"]]
      BY DEF StoreAnalyses
  <2> QED
      BY <2>1, <2>2, <2>3
<1>1. /\ thread' \in [Threads -> Hand] /\ entity' \in Entity /\ fresh' = {}
      /\ thread[w].at = "store" /\ Moved(w, "chain")
      /\ (Queued => entity'.status = entity.status)
      /\ (~ Queued => entity'.status \in {"error", "ready"})
      /\ UNCHANGED <<kind, adopted, irpJobs, heads, newest, poller, request,
                     imports, rmAnalyses, log, spent>>
    BY <1>a, <1>b, GoMoves, StatusPut DEF StoreAnalyses, BodyKeeps, ThreadAt
<1>2. Typed'
    BY <1>1, <1>c DEF Typed
<1>3. Held'
    BY <1>1, MoveKeepsHeld DEF UploadAt, RdmAt, EdmAt
<1>4. Bodies'
  <2>1. kind' = "rdm" /\ kind = "rdm"
      BY <1>1, <1>a
  <2>2. \A v \in Threads : thread'[v].at \in EdmAt \cup {"submit", "record"} => thread'[v] = thread[v]
      BY <1>1 DEF Apart, Moved, EdmAt
  <2>3. Reached' => Reached
      BY <1>1 DEF Reached
  <2> QED
      BY <2>1, <2>2, <2>3 DEF Bodies
<1>5. Refs'
    BY <1>1, <1>2, NumbersHold, NextNumbers, HeadFacts DEF Refs, Numbers, Hand, Poll, Apart, Moved, HeadSet
<1>6. FormsShowErrors'
    BY <1>1 DEF FormsShowErrors
<1>7. ImportBudget'
  <2>1. MayImport' => MayImport
      BY <1>1 DEF MayImport, InDoubt, Reached, Held, InBody, UploadAt, Apart, Moved
  <2> QED
      BY <1>1, <1>2, <2>1, NumbersHold DEF ImportBudget, Numbers
<1>8. JobBudget'
  <2>1. MayRecord' => MayRecord
      BY <1>1 DEF MayRecord, Held, InBody, UploadAt, Apart, Moved
  <2> QED
      BY <1>1, <1>2, <2>1, NumbersHold DEF JobBudget, Numbers
<1>9. AskBudget'
    BY <1>1 DEF AskBudget, Answered
<1>10. Chained'
  <2>1. PICK h \in Heads \ {Upload} : thread[w].head = h
      BY <1>a
  <2>2. Unfinished(h, {"succeeded"})'
      BY <1>1, <1>a, <2>1 DEF Unfinished, Works, Held, Alone, Moved, Apart
  <2> QED
      BY <2>2 DEF Chained
<1>11. PendingIsServed'
  <2>1. Reached => Reached'
      BY <1>1 DEF Reached
  <2>2. UploadToCome => UploadToCome'
      BY <1>1, MoveKeepsUpload DEF Held, InBody, UploadAt, RdmAt, EdmAt
  <2> QED
      BY <1>1, <2>1, <2>2, PendingKept
<1>12. ImportingIsServed'
  <2>1. Importing' => Queued
      BY <1>1 DEF Importing
  <2> QED
      BY <1>1, <2>1 DEF ImportingIsServed, Queued
<1> QED
    BY <1>2, <1>3, <1>4, <1>5, <1>6, <1>7, <1>8, <1>9, <1>10, <1>11, <1>12

\* The job ends when every live row has its retrieval.
LEMMA ChainRetrievalsKeeps ==
    ASSUME Inductive, NEW w \in Threads, ChainRetrievals(w)
    PROVE  Inductive'
<1> USE DEF Inductive
<1>a. thread[w].at = "chain" /\ thread[w] \in Hand /\ "succeeded" \in ThreadAt /\ thread[w].head # Upload
    BY DEF Typed, ThreadAt, ChainRetrievals, Held, InBody, RdmAt
<1>c. /\ captured' \in [Analyses -> Row] /\ \A a \in Analyses : captured'[a].row = captured[a].row
      /\ Unretrieved' \subseteq Unretrieved
  <2>1. CASE captured' = captured
      BY <2>1 DEF Typed, Unretrieved
  <2>2. CASE \E a \in Unretrieved : captured' = [captured EXCEPT ![a].retrieval = TRUE]
    <3>1. PICK a \in Analyses : captured' = [captured EXCEPT ![a].retrieval = TRUE]
        BY <2>2 DEF Unretrieved
    <3>2. captured[a] \in Row
        BY DEF Typed
    <3>3. [captured[a] EXCEPT !.retrieval = TRUE] \in Row
        BY <3>2 DEF Row
    <3>4. captured' = [captured EXCEPT ![a] = [captured[a] EXCEPT !.retrieval = TRUE]]
        BY <3>1 DEF Typed
    <3> QED
        BY <3>2, <3>3, <3>4 DEF Typed, Unretrieved, Row
  <2> QED
      BY <2>1, <2>2 DEF ChainRetrievals
<1>1. /\ thread' \in [Threads -> Hand] /\ captured' \in [Analyses -> Row]
      /\ \A a \in Analyses : captured'[a].row = captured[a].row
      /\ Unretrieved' \subseteq Unretrieved
      /\ thread[w].at = "chain" /\ Moved(w, thread'[w].at) /\ thread'[w].at \in {"chain", "succeeded"}
      /\ thread'[w].at = "succeeded" => Unretrieved' = {}
      /\ UNCHANGED <<kind, entity, fresh, adopted, irpJobs, heads, newest, poller, request,
                     imports, rmAnalyses, log, spent>>
  <2>1. UNCHANGED <<kind, entity, fresh, adopted, irpJobs, heads, newest, poller, request,
                    imports, rmAnalyses, log, spent>>
      BY DEF ChainRetrievals, BodyKeeps, Keep
  <2>2. CASE Unretrieved = {} /\ Go(w, "succeeded")
      BY <1>a, <1>c, <2>1, <2>2, GoMoves DEF Moved
  <2>3. CASE thread' = thread
      BY <1>a, <1>c, <2>1, <2>3 DEF Moved, Apart, Typed
  <2> QED
      BY <2>2, <2>3 DEF ChainRetrievals
<1>2. Typed'
    BY <1>1 DEF Typed
<1>3. Held'
    BY <1>1, MoveKeepsHeld DEF UploadAt, RdmAt, EdmAt
<1>4. Bodies'
    BY <1>1, <1>2 DEF Bodies, Held, InBody, UploadAt, RdmAt, EdmAt, Reached, Apart, Moved
<1>5. Refs'
    BY <1>1, <1>2, NumbersHold, NextNumbers, HeadFacts DEF Refs, Numbers, Hand, Poll, Apart, Moved, HeadSet
<1>6. FormsShowErrors'
    BY <1>1, <1>2 DEF FormsShowErrors
<1>7. ImportBudget'
  <2>1. MayImport' => MayImport
      BY <1>1 DEF MayImport, InDoubt, Reached, Held, InBody, UploadAt, Apart, Moved
  <2> QED
      BY <1>1, <1>2, <2>1, NumbersHold DEF ImportBudget, Numbers
<1>8. JobBudget'
  <2>1. MayRecord' => MayRecord
      BY <1>1 DEF MayRecord, Held, InBody, UploadAt, Apart, Moved
  <2> QED
      BY <1>1, <1>2, <2>1, NumbersHold DEF JobBudget, Numbers
<1>9. AskBudget'
    BY <1>1 DEF AskBudget, Answered
<1>10. Chained'
  <2>1. CASE Unretrieved' = {}
      BY <2>1 DEF Chained
  <2>2. CASE Unretrieved' # {}
    <3>1. RestKept({"succeeded"})
        BY <1>1, <2>2, MoveKeepsRest
    <3> QED
        BY <1>1, <2>2, <3>1 DEF Chained, RestKept
  <2> QED
      BY <2>1, <2>2
<1>11. PendingIsServed'
  <2>1. Reached => Reached'
      BY <1>1 DEF Reached
  <2>2. UploadToCome => UploadToCome'
      BY <1>1, MoveKeepsUpload DEF Held, InBody, UploadAt, RdmAt, EdmAt
  <2> QED
      BY <1>1, <2>1, <2>2, PendingKept
<1>12. ImportingIsServed'
  <2>1. RestKept(Rollups)
      BY <1>1, MoveKeepsRest DEF Rollups
  <2>2. Importing' => Importing
      BY <1>1 DEF Importing, Apart, Moved
  <2>3. Queued => Queued'
      BY <1>1 DEF Queued
  <2> QED
      BY <1>1, <2>1, <2>2, <2>3, ImportingKept
<1> QED
    BY <1>2, <1>3, <1>4, <1>5, <1>6, <1>7, <1>8, <1>9, <1>10, <1>11, <1>12

\* Steps of the poller before its transaction and of Risk Modeler.
LEMMA OutsideMovesKeeps ==
    ASSUME Inductive, poller' \in Poll, poller'.at = "idle" => poller' = NoPoll,
           poller'.at # "idle" => poller'.job \in DOMAIN irpJobs /\ irpJobs[poller'.job].status = "QUEUED",
           imports' \in Seq(Import), Len(imports') = Len(imports), DOMAIN imports' = DOMAIN imports,
           rmAnalyses' \subseteq Analyses,
           spent' \in Spent, spent'.lost = spent.lost, spent'.crashes + spent'.lost <= MaxFaults,
           spent'.crashes = spent.crashes \/ spent'.crashes = spent.crashes + 1,
           UNCHANGED <<kind, entity, fresh, adopted, irpJobs, heads, newest, captured, thread, request, log>>
    PROVE  Inductive'
<1> USE DEF Inductive
<1>1. /\ poller' \in Poll
      /\ poller'.at = "idle" => poller' = NoPoll
      /\ poller'.at # "idle" => poller'.job \in DOMAIN irpJobs /\ irpJobs[poller'.job].status = "QUEUED"
      /\ imports' \in Seq(Import) /\ Len(imports') = Len(imports) /\ DOMAIN imports' = DOMAIN imports
      /\ rmAnalyses' \subseteq Analyses
      /\ spent' \in Spent /\ spent'.lost = spent.lost /\ spent'.crashes + spent'.lost <= MaxFaults
      /\ spent'.crashes = spent.crashes \/ spent'.crashes = spent.crashes + 1
      /\ UNCHANGED <<kind, entity, fresh, adopted, irpJobs, heads, newest, captured, thread, request, log>>
    OBVIOUS
<1>2. Typed'
    BY <1>1 DEF Typed
<1>3. Held'
    BY <1>1 DEF Held, InBody, Running, Alone, Works
<1>4. Bodies'
    BY <1>1, <1>2 DEF Bodies, Held, InBody, UploadAt, RdmAt, EdmAt, Reached, Apart, Moved
<1>5. Refs'
    BY <1>1, <1>2, NumbersHold, NextNumbers, HeadFacts DEF Refs, Numbers, Hand, Poll, Apart, Moved, HeadSet
<1>6. FormsShowErrors'
    BY <1>1, <1>2 DEF FormsShowErrors
<1>7. ImportBudget'
  <2>1. MayImport' => MayImport
      BY <1>1 DEF MayImport, InDoubt, Reached, Held, InBody, UploadAt, Apart, Moved
  <2> QED
      BY <1>1, <1>2, <2>1, NumbersHold DEF ImportBudget, Numbers
<1>8. JobBudget'
  <2>1. MayRecord' => MayRecord
      BY <1>1 DEF MayRecord, Held, InBody, UploadAt, Apart, Moved
  <2> QED
      BY <1>1, <1>2, <2>1, NumbersHold DEF JobBudget, Numbers
<1>9. AskBudget'
    BY <1>1 DEF AskBudget, Answered
<1>R. RestKept({"succeeded"}) /\ RestKept(Rollups)
    BY <1>1, StillKeepsRest
<1>10. Chained'
    BY <1>1, <1>R, ChainedKept
<1>11. PendingIsServed'
    BY <1>1, <1>2 DEF PendingIsServed, Reached, UploadToCome, Works, Active
<1>12. ImportingIsServed'
  <2>1. Importing' => Importing
      BY <1>1 DEF Importing, Apart, Moved
  <2>2. Queued => Queued'
      BY <1>1 DEF Queued
  <2> QED
      BY <1>1, <1>R, <2>1, <2>2, ImportingKept
<1> QED
    BY <1>2, <1>3, <1>4, <1>5, <1>6, <1>7, <1>8, <1>9, <1>10, <1>11, <1>12

\* The poller picks up a tracked job whose import has ended.
LEMMA PollReadKeeps ==
    ASSUME Inductive, NEW j \in DOMAIN irpJobs, PollRead(j)
    PROVE  Inductive'
<1> USE DEF Inductive
<1>1. /\ poller' \in Poll /\ poller'.at # "idle" /\ poller'.job = j /\ irpJobs[j].status = "QUEUED"
      /\ UNCHANGED <<kind, entity, fresh, adopted, irpJobs, heads, newest, captured, thread, request,
                     imports, rmAnalyses, log, spent>>
    BY NumbersHold DEF PollRead, Keep, tables, outside, Poll, Numbers
<1>q. /\ poller \in Poll /\ spent \in Spent /\ spent.crashes + spent.lost <= MaxFaults
      /\ imports \in Seq(Import) /\ rmAnalyses \subseteq Analyses
    BY DEF Typed
<1> QED
    BY <1>1, <1>q, OutsideMovesKeeps DEF Refs

\* The poller resolves the exposure.
LEMMA PollResolveKeeps ==
    ASSUME Inductive, PollResolve
    PROVE  Inductive'
<1> USE DEF Inductive
<1>a. {0} \cup Newest \subseteq Nat /\ poller \in Poll
    BY NumbersHold DEF Newest, Exposures, Numbers
<1>b. \A x \in Nat : /\ [[poller EXCEPT !.at = "persist"] EXCEPT !.exposure = x] \in Poll
                     /\ [[poller EXCEPT !.at = "persist"] EXCEPT !.exposure = x].at = "persist"
                     /\ [[poller EXCEPT !.at = "persist"] EXCEPT !.exposure = x].job = poller.job
    BY <1>a DEF Poll
<1>1. /\ poller' \in Poll /\ poller.at = "resolve" /\ poller'.at = "persist" /\ poller'.job = poller.job
      /\ UNCHANGED <<kind, entity, fresh, adopted, irpJobs, heads, newest, captured, thread, request,
                     imports, rmAnalyses, log, spent>>
    BY <1>a, <1>b DEF PollResolve, Keep, tables, outside
<1>q. /\ poller \in Poll /\ spent \in Spent /\ spent.crashes + spent.lost <= MaxFaults
      /\ imports \in Seq(Import) /\ rmAnalyses \subseteq Analyses
    BY DEF Typed
<1> QED
    BY <1>1, <1>q, OutsideMovesKeeps DEF Refs

\* The poller is lost and starts again.
LEMMA PollLostKeeps ==
    ASSUME Inductive, PollLost
    PROVE  Inductive'
<1> USE DEF Inductive
<1>1. /\ poller' = NoPoll /\ NoPoll \in Poll /\ NoPoll.at = "idle"
      /\ spent' \in Spent /\ spent'.crashes = spent.crashes + 1 /\ spent'.lost = spent.lost
      /\ spent'.crashes + spent'.lost <= MaxFaults
      /\ UNCHANGED <<kind, entity, fresh, adopted, irpJobs, heads, newest, captured, thread, request,
                     imports, rmAnalyses, log>>
    BY FaultCounts, IdleFacts DEF PollLost, Keep, tables, outside
<1>q. /\ poller \in Poll /\ spent \in Spent /\ spent.crashes + spent.lost <= MaxFaults
      /\ imports \in Seq(Import) /\ rmAnalyses \subseteq Analyses
    BY DEF Typed
<1> QED
    BY <1>1, <1>q, OutsideMovesKeeps DEF Refs

\* The terminal handler: the status and, for a finished import, the backfill job in
\* one transaction.
LEMMA PollPersistKeeps ==
    ASSUME Inductive, PollPersist
    PROVE  Inductive'
<1> USE DEF Inductive
<1>a. /\ poller \in Poll /\ poller.job \in DOMAIN irpJobs /\ irpJobs[poller.job].status = "QUEUED"
      /\ poller.at = "persist" /\ irpJobs \in Seq(IrpJob) /\ entity \in Entity
    BY DEF PollPersist, Refs, Typed
<1>b. /\ poller.job \in 1..Cardinality(Requests) + MaxFaults
      /\ Backfill(poller.job) \in Heads /\ Backfill(poller.job) # Upload
      /\ heads[Backfill(poller.job)] = "absent"
  <2>1. poller.job \in 1..Cardinality(Requests) + MaxFaults
      BY <1>a, JobsFit
  <2> QED
      BY <1>a, <2>1, HeadFacts DEF Refs
<1>j. \A st \in {"FINISHED", "FAILED"} : irpJobs' = [irpJobs EXCEPT ![poller.job].status = st] =>
          /\ irpJobs' \in Seq(IrpJob) /\ Len(irpJobs') = Len(irpJobs) /\ DOMAIN irpJobs' = DOMAIN irpJobs
          /\ \A j \in DOMAIN irpJobs \ {poller.job} : irpJobs'[j] = irpJobs[j]
          /\ irpJobs'[poller.job].import = irpJobs[poller.job].import
          /\ irpJobs'[poller.job].status = st
  <2> SUFFICES ASSUME NEW st \in {"FINISHED", "FAILED"}, irpJobs' = [irpJobs EXCEPT ![poller.job].status = st]
               PROVE  /\ irpJobs' \in Seq(IrpJob) /\ Len(irpJobs') = Len(irpJobs)
                      /\ DOMAIN irpJobs' = DOMAIN irpJobs
                      /\ \A j \in DOMAIN irpJobs \ {poller.job} : irpJobs'[j] = irpJobs[j]
                      /\ irpJobs'[poller.job].import = irpJobs[poller.job].import
                      /\ irpJobs'[poller.job].status = st
      OBVIOUS
  <2>1. irpJobs[poller.job] \in IrpJob /\ poller.job \in 1..Len(irpJobs)
      BY <1>a, NumbersHold DEF Numbers
  <2>2. [irpJobs[poller.job] EXCEPT !.status = st] \in IrpJob
      BY <2>1 DEF IrpJob
  <2>3. irpJobs' = [irpJobs EXCEPT ![poller.job] = [irpJobs[poller.job] EXCEPT !.status = st]]
      OBVIOUS
  <2>4. irpJobs' \in Seq(IrpJob) /\ Len(irpJobs') = Len(irpJobs)
      BY <1>a, <2>1, <2>2, <2>3, ExceptSeq
  <2> QED
      BY <1>a, <2>1, <2>3, <2>4 DEF IrpJob
<1>1. /\ poller' = NoPoll /\ NoPoll \in Poll /\ NoPoll.at = "idle" /\ Armed(Backfill(poller.job))
      /\ heads' \in [Heads -> HeadStatus] /\ newest' \in Heads \cup {NoHead}
      /\ irpJobs' \in Seq(IrpJob) /\ Len(irpJobs') = Len(irpJobs) /\ DOMAIN irpJobs' = DOMAIN irpJobs
      /\ \A j \in DOMAIN irpJobs \ {poller.job} : irpJobs'[j] = irpJobs[j]
      /\ irpJobs'[poller.job].import = irpJobs[poller.job].import
      /\ \/ irpJobs' = irpJobs /\ heads' = heads /\ entity' = entity /\ fresh' = fresh
         \/ /\ irpJobs'[poller.job].status = "FINISHED" /\ HeadSet(Backfill(poller.job), "pending")
            /\ IF kind = "rdm" THEN entity' = entity /\ fresh' = fresh
                               ELSE entity'.status = "ready" /\ fresh' = {}
         \/ /\ irpJobs'[poller.job].status = "FAILED" /\ heads' = heads
            /\ entity'.status = "error" /\ fresh' = {}
      /\ entity' \in Entity /\ fresh' \subseteq Requests
      /\ UNCHANGED <<kind, adopted, captured, thread, request, imports, rmAnalyses, log, spent>>
  <2>1. /\ poller' = NoPoll /\ NoPoll \in Poll /\ NoPoll.at = "idle"
        /\ UNCHANGED <<kind, adopted, captured, thread, request, imports, rmAnalyses, log, spent>>
      BY IdleFacts DEF PollPersist, outside
  <2>2. /\ fresh \subseteq Requests /\ heads \in [Heads -> HeadStatus] /\ newest \in Heads \cup {NoHead}
        /\ poller.ok \in BOOLEAN /\ poller.exposure \in Nat
      BY <1>a DEF Typed, Poll
  <2>3. CASE Conflict
      BY <1>a, <2>1, <2>2, <2>3 DEF PollPersist, Keep, Armed
  <2>4. CASE ~ Conflict /\ poller.ok
    <3>1. irpJobs' = [irpJobs EXCEPT ![poller.job].status = "FINISHED"]
        BY <2>4 DEF PollPersist
    <3>2. SetHead(Backfill(poller.job), "pending")
        BY <1>b, <2>4 DEF PollPersist
    <3>3. /\ heads' \in [Heads -> HeadStatus] /\ newest' \in Heads \cup {NoHead}
          /\ HeadSet(Backfill(poller.job), "pending") /\ Armed(Backfill(poller.job))
        BY <1>b, <3>2, SetHeadSets DEF Armed, HeadStatus
    <3>4. CASE kind = "rdm"
        BY <1>a, <1>j, <2>1, <2>2, <2>4, <3>1, <3>3, <3>4 DEF PollPersist, Keep
    <3>5. CASE kind # "rdm"
      <4>1. entity' = [[entity EXCEPT !.status = "ready"] EXCEPT !.exposure = poller.exposure] /\ fresh' = {}
          BY <2>4, <3>5 DEF PollPersist, Put
      <4>2. entity' \in Entity /\ entity'.status = "ready"
          BY <1>a, <2>2, <4>1 DEF Entity, Status
      <4> QED
          BY <1>j, <2>1, <2>2, <3>1, <3>3, <3>5, <4>1, <4>2
    <3> QED
        BY <3>4, <3>5
  <2>5. CASE ~ Conflict /\ ~ poller.ok
    <3>1. irpJobs' = [irpJobs EXCEPT ![poller.job].status = "FAILED"]
        BY <2>5 DEF PollPersist
    <3>2. heads' = heads /\ newest' = newest
        BY <2>5 DEF PollPersist
    <3>3. entity' \in Entity /\ entity'.status = "error" /\ fresh' = {}
      <4>1. CASE kind = "rdm"
          BY <1>a, <2>5, <4>1 DEF PollPersist, Put, Entity, Status
      <4>2. CASE kind # "rdm"
        <5>1. /\ entity' = [[entity EXCEPT !.status = "error"] EXCEPT !.exposure = poller.exposure]
              /\ fresh' = {}
            BY <2>5, <4>2 DEF PollPersist, Put
        <5> QED
            BY <1>a, <2>2, <5>1 DEF Entity, Status
      <4> QED
          BY <4>1, <4>2
    <3> QED
        BY <1>j, <2>1, <2>2, <3>1, <3>2, <3>3 DEF Armed
  <2> QED
      BY <2>3, <2>4, <2>5
<1>r. Reached /\ Reached'
    BY <1>1, <1>a DEF Reached
<1>2. Typed'
    BY <1>1 DEF Typed
<1>3. Held'
    BY <1>1, <1>b, ArmedKeepsHeld
<1>4. Bodies'
    BY <1>1, <1>r DEF Bodies
<1>5. Refs'
  <2>1. \A j \in DOMAIN irpJobs' : irpJobs'[j].status # "SUBMISSION FAILED" => irpJobs'[j].import \in DOMAIN imports
      BY <1>1, <1>a DEF Refs
  <2>2. \A j \in 1..Cardinality(Requests) + MaxFaults :
            (j \in DOMAIN irpJobs' => irpJobs'[j].status = "QUEUED") => heads'[Backfill(j)] = "absent"
    <3> SUFFICES ASSUME NEW j \in 1..Cardinality(Requests) + MaxFaults,
                        j \in DOMAIN irpJobs' => irpJobs'[j].status = "QUEUED"
                 PROVE  heads'[Backfill(j)] = "absent"
        OBVIOUS
    <3>1. CASE irpJobs' = irpJobs /\ heads' = heads
        BY <3>1 DEF Refs
    <3>2. CASE irpJobs'[poller.job].status \in {"FINISHED", "FAILED"}
      <4>1. j # poller.job
          BY <1>1, <1>a, <3>2
      <4>2. heads[Backfill(j)] = "absent"
          BY <1>1, <4>1 DEF Refs
      <4>3. Backfill(j) \in Heads \ {Backfill(poller.job)}
          BY <4>1, HeadFacts
      <4> QED
          BY <1>1, <4>2, <4>3 DEF HeadSet
    <3> QED
        BY <1>1, <3>1, <3>2
  <2> QED
      BY <1>1, <2>1, <2>2 DEF Refs
<1>6. FormsShowErrors'
    BY <1>1, <1>2 DEF FormsShowErrors
<1>7. ImportBudget'
  <2>1. MayImport' => MayImport
      BY <1>1 DEF MayImport, InDoubt, Reached, Held, InBody, UploadAt, Apart, Moved
  <2> QED
      BY <1>1, <1>2, <2>1, NumbersHold DEF ImportBudget, Numbers
<1>8. JobBudget'
  <2>1. MayRecord' => MayRecord
      BY <1>1 DEF MayRecord, Held, InBody, UploadAt, Apart, Moved
  <2> QED
      BY <1>1, <1>2, <2>1, NumbersHold DEF JobBudget, Numbers
<1>9. AskBudget'
    BY <1>1 DEF AskBudget, Answered
<1>R. RestKept({"succeeded"}) /\ RestKept(Rollups)
  <2>1. RestKept({"succeeded"})
      BY <1>1, <1>b, ArmedKeepsRest
  <2>2. RestKept(Rollups)
      BY <1>1, <1>b, ArmedKeepsRest
  <2> QED
      BY <2>1, <2>2
<1>10. Chained'
    BY <1>1, <1>R, ChainedKept
<1>11. PendingIsServed'
  <2>1. CASE kind = "rdm"
      BY <1>1, <1>r, <2>1 DEF PendingIsServed
  <2>2. CASE irpJobs' = irpJobs /\ heads' = heads /\ entity' = entity
      BY <1>1, <1>r, <2>2 DEF PendingIsServed, Active, UploadToCome, Works
  <2>3. CASE entity'.status \in {"ready", "error"}
      BY <2>3 DEF PendingIsServed
  <2> QED
      BY <1>1, <2>1, <2>2, <2>3
<1>12. ImportingIsServed'
  <2>1. CASE irpJobs' = irpJobs /\ heads' = heads /\ entity' = entity
      BY <1>1, <1>R, <2>1, ImportingKept DEF Importing, Queued
  <2>2. CASE kind = "rdm" /\ HeadSet(Backfill(poller.job), "pending")
    <3>1. PICK h \in Heads \ {Upload} : h = Backfill(poller.job)
        BY <1>b
    <3>2. \A w \in Threads : ~ Works(w, h)'
        BY <1>1, <1>b, <3>1 DEF Works, Held, Running
    <3>3. Unfinished(h, Rollups)'
        BY <2>2, <3>1, <3>2 DEF Unfinished, HeadSet
    <3> QED
        BY <1>1, <2>2, <3>3 DEF ImportingIsServed, RollupToCome, Rollups
  <2>3. CASE entity'.status \in {"ready", "error"}
      BY <2>3 DEF ImportingIsServed, Importing
  <2> QED
      BY <1>1, <2>1, <2>2, <2>3
<1> QED
    BY <1>2, <1>3, <1>4, <1>5, <1>6, <1>7, <1>8, <1>9, <1>10, <1>11, <1>12

\* What the requests that ask for an import have in common.
LEMMA AskingKeeps ==
    ASSUME Inductive, NEW q \in Requests, RequestTo(q, "arm"), request[q] \in {"idle", "form", "reset"},
           NEW e \in Entity, entity' = e, e.status = "pending_import", fresh' = {}, Asked,
           UNCHANGED <<kind, adopted, irpJobs, heads, newest, captured, thread, poller, imports,
                       rmAnalyses, spent>>
    PROVE  Inductive'
<1> USE DEF Inductive
<1>1. /\ entity' \in Entity /\ fresh' = {} /\ entity'.status = "pending_import"
      /\ log' \in Log /\ log'.asked = log.asked + 1 /\ log'.doubt = log.doubt
      /\ log'.missed <=> log.missed \/ heads[Upload] = "running"
      /\ Told(q, "arm") /\ q \notin Answered
      /\ UNCHANGED <<kind, adopted, irpJobs, heads, newest, captured, thread, poller, imports,
                     rmAnalyses, spent>>
  <2>1. "pending_import" \in Status /\ "arm" \in RequestAt
      BY DEF Status, RequestAt
  <2>2. Told(q, "arm") /\ q \notin Answered
      BY <2>1, RequestTold DEF Answered
  <2> QED
      BY <2>1, <2>2, StatusPut, AskedCounts
<1>2. Typed'
    BY <1>1 DEF Typed, Told
<1>3. Held'
    BY <1>1 DEF Held, InBody, Running, Alone, Works
<1>4. Bodies'
    BY <1>1, <1>2 DEF Bodies, Held, InBody, UploadAt, RdmAt, EdmAt, Reached, Apart, Moved
<1>5. Refs'
    BY <1>1, <1>2, NumbersHold, NextNumbers, HeadFacts DEF Refs, Numbers, Hand, Poll, Apart, Moved, HeadSet
<1>6. FormsShowErrors'
    BY <1>1 DEF FormsShowErrors
<1>7. ImportBudget'
    BY <1>1, <1>2, NumbersHold, NextNumbers DEF ImportBudget, Numbers
<1>8. JobBudget'
    BY <1>1, <1>2, NumbersHold, NextNumbers DEF JobBudget, Numbers
<1>9. AskBudget'
  <2>1. Cardinality(Answered') = Cardinality(Answered) + 1
      BY <1>1, Answers DEF Answered
  <2>2. log'.asked = log.asked + 1 /\ log.asked \in Nat
      BY <1>1, NumbersHold DEF Numbers
  <2> QED
      BY <2>1, <2>2, AnsweredFinite DEF AskBudget
<1>R. RestKept({"succeeded"}) /\ RestKept(Rollups)
    BY <1>1, StillKeepsRest
<1>10. Chained'
    BY <1>1, <1>R, ChainedKept
<1>11. PendingIsServed'
  <2>1. CASE heads[Upload] = "running"
      BY <1>1, <2>1 DEF PendingIsServed
  <2>2. CASE heads[Upload] = "pending"
    <3>1. UploadToCome'
        BY <1>1, <2>2 DEF UploadToCome, Works, Held, Running
    <3> QED
        BY <3>1 DEF PendingIsServed
  <2>3. CASE ~ Active(Upload)
      BY <1>1, <2>3 DEF PendingIsServed, Active, Told
  <2> QED
      BY <2>1, <2>2, <2>3 DEF Active
<1>12. ImportingIsServed'
  <2>1. Importing' => heads[Upload] = "running"
      BY <1>1 DEF Importing, Held, InBody, Running, UploadAt
  <2> QED
      BY <1>1, <2>1 DEF ImportingIsServed
<1> QED
    BY <1>2, <1>3, <1>4, <1>5, <1>6, <1>7, <1>8, <1>9, <1>10, <1>11, <1>12

\* POST /edms/import.
LEMMA ImportEntityKeeps ==
    ASSUME Inductive, NEW q \in Requests, ImportEntity(q)
    PROVE  Inductive'
<1>1. "pending_import" \in Status
    BY DEF Status
<1>2. entity' \in Entity /\ fresh' = {} /\ entity'.status = "pending_import"
    BY <1>1, StatusPut DEF ImportEntity, Inductive
<1> QED
    BY <1>2, AskingKeeps DEF ImportEntity, CreateImport, RequestKeeps, outside

\* What requests do that change nothing but themselves.
LEMMA ProceedingKeeps ==
    ASSUME Inductive, NEW q \in Requests, NEW at \in {"reset", "arm", "arm sync", "done"}, RequestTo(q, at), request[q] \in {"idle", "form", "reset"},
           UNCHANGED <<kind, entity, fresh, adopted, irpJobs, heads, newest, captured, thread, poller, imports,
                       rmAnalyses, log, spent>>
    PROVE  Inductive'
<1> USE DEF Inductive
<1>1. /\ Told(q, at) /\ request[q] \in {"idle", "form", "reset"}
      /\ UNCHANGED <<kind, entity, fresh, adopted, irpJobs, heads, newest, captured, thread, poller, imports,
                     rmAnalyses, log, spent>>
  <2>1. at \in RequestAt
      BY DEF RequestAt
  <2> QED
      BY <2>1, RequestTold
<1>2. Typed'
    BY <1>1 DEF Typed, Told
<1>3. Held'
    BY <1>1 DEF Held, InBody, Running, Alone, Works
<1>4. Bodies'
    BY <1>1, <1>2 DEF Bodies, Held, InBody, UploadAt, RdmAt, EdmAt, Reached, Apart, Moved
<1>5. Refs'
    BY <1>1, <1>2, NumbersHold, NextNumbers, HeadFacts DEF Refs, Numbers, Hand, Poll, Apart, Moved, HeadSet
<1>6. FormsShowErrors'
    BY <1>1, <1>2 DEF FormsShowErrors
<1>7. ImportBudget'
  <2>1. MayImport' => MayImport
      BY <1>1 DEF MayImport, InDoubt, Reached, Held, InBody, UploadAt, Apart, Moved
  <2> QED
      BY <1>1, <1>2, <2>1, NumbersHold DEF ImportBudget, Numbers
<1>8. JobBudget'
  <2>1. MayRecord' => MayRecord
      BY <1>1 DEF MayRecord, Held, InBody, UploadAt, Apart, Moved
  <2> QED
      BY <1>1, <1>2, <2>1, NumbersHold DEF JobBudget, Numbers
<1>9. AskBudget'
  <2>1. CASE at = "reset"
    <3>1. Answered' = Answered
        BY <1>1, <2>1 DEF Answered, Told
    <3> QED
        BY <1>1, <3>1 DEF AskBudget
  <2>2. CASE at \in {"arm", "arm sync", "done"}
    <3> QED
        BY <1>1, <2>2, AnswersKeepBudget
  <2> QED
      BY <2>1, <2>2
<1>R. RestKept({"succeeded"}) /\ RestKept(Rollups)
    BY <1>1, StillKeepsRest
<1>10. Chained'
    BY <1>1, <1>R, ChainedKept
<1>11. PendingIsServed'
  <2>1. \A p \in Requests : request[p] = "arm" => request'[p] = "arm"
      BY <1>1 DEF Told
  <2> QED
      BY <1>1, <2>1 DEF PendingIsServed, Reached, UploadToCome, Works, Active
<1>12. ImportingIsServed'
  <2>1. Importing' => Importing
      BY <1>1 DEF Importing, Apart, Moved
  <2>2. Queued => Queued'
      BY <1>1 DEF Queued
  <2> QED
      BY <1>1, <1>R, <2>1, <2>2, ImportingKept
<1> QED
    BY <1>2, <1>3, <1>4, <1>5, <1>6, <1>7, <1>8, <1>9, <1>10, <1>11, <1>12

\* The recovery form is rendered.
LEMMA OpenFormKeeps ==
    ASSUME Inductive, NEW q \in Requests, OpenForm(q)
    PROVE  Inductive'
<1> USE DEF Inductive
<1>1. /\ Told(q, "form") /\ request[q] = "idle" /\ entity.status = "error"
      /\ fresh' \subseteq Requests
      /\ UNCHANGED <<kind, entity, adopted, irpJobs, heads, newest, captured, thread, poller, imports,
                     rmAnalyses, log, spent>>
  <2>1. "form" \in RequestAt
      BY DEF RequestAt
  <2> QED
      BY <2>1, RequestTold DEF OpenForm, RequestKeeps, outside, Typed
<1>2. Typed'
    BY <1>1 DEF Typed, Told
<1>3. Held'
    BY <1>1 DEF Held, InBody, Running, Alone, Works
<1>4. Bodies'
    BY <1>1, <1>2 DEF Bodies, Held, InBody, UploadAt, RdmAt, EdmAt, Reached, Apart, Moved
<1>5. Refs'
    BY <1>1, <1>2, NumbersHold, NextNumbers, HeadFacts DEF Refs, Numbers, Hand, Poll, Apart, Moved, HeadSet
<1>6. FormsShowErrors'
    BY <1>1, <1>2 DEF FormsShowErrors
<1>7. ImportBudget'
  <2>1. MayImport' => MayImport
      BY <1>1 DEF MayImport, InDoubt, Reached, Held, InBody, UploadAt, Apart, Moved
  <2> QED
      BY <1>1, <1>2, <2>1, NumbersHold DEF ImportBudget, Numbers
<1>8. JobBudget'
  <2>1. MayRecord' => MayRecord
      BY <1>1 DEF MayRecord, Held, InBody, UploadAt, Apart, Moved
  <2> QED
      BY <1>1, <1>2, <2>1, NumbersHold DEF JobBudget, Numbers
<1>9. AskBudget'
  <2>1. Answered' = Answered
      BY <1>1 DEF Answered, Told
  <2> QED
      BY <1>1, <2>1 DEF AskBudget
<1>R. RestKept({"succeeded"}) /\ RestKept(Rollups)
    BY <1>1, StillKeepsRest
<1>10. Chained'
    BY <1>1, <1>R, ChainedKept
<1>11. PendingIsServed'
    BY <1>1 DEF PendingIsServed
<1>12. ImportingIsServed'
  <2>1. Importing' => Importing
      BY <1>1 DEF Importing, Apart, Moved
  <2>2. Queued => Queued'
      BY <1>1 DEF Queued
  <2> QED
      BY <1>1, <1>R, <2>1, <2>2, ImportingKept
<1> QED
    BY <1>2, <1>3, <1>4, <1>5, <1>6, <1>7, <1>8, <1>9, <1>10, <1>11, <1>12

\* _retry_import, its read.
LEMMA RetryReadKeeps ==
    ASSUME Inductive, NEW q \in Requests, RetryRead(q)
    PROVE  Inductive'
BY ProceedingKeeps DEF RetryRead, RequestKeeps, Keep, outside

\* _retry_import, its guarded reset.
LEMMA RetryResetKeeps ==
    ASSUME Inductive, NEW q \in Requests, RetryReset(q)
    PROVE  Inductive'
<1>1. CASE entity.status = "error"
  <2>1. "pending_import" \in Status
      BY DEF Status
  <2>2. entity' \in Entity /\ fresh' = {} /\ entity'.status = "pending_import"
      BY <1>1, <2>1, StatusPut DEF RetryReset, Inductive
  <2> QED
      BY <1>1, <2>2, AskingKeeps DEF RetryReset, RequestKeeps, outside
<1>2. CASE entity.status # "error"
    BY <1>2, ProceedingKeeps DEF RetryReset, RequestKeeps, Keep, outside
<1> QED
    BY <1>1, <1>2

\* _replace_source_file: only a current form asks.
LEMMA ReplaceFileKeeps ==
    ASSUME Inductive, NEW q \in Requests, ReplaceFile(q)
    PROVE  Inductive'
<1>1. CASE q \in fresh
  <2>1. entity \in Entity
      BY DEF Inductive, Typed
  <2>2. entity' = [[entity EXCEPT !.file = entity.file + 1] EXCEPT !.status = "pending_import"] /\ fresh' = {}
      BY <1>1 DEF ReplaceFile, Put
  <2>3. [entity EXCEPT !.file = entity.file + 1] \in Entity
    <3>1. entity.file + 1 \in Nat
        BY <2>1 DEF Entity
    <3> QED
        BY <2>1, <3>1 DEF Entity
  <2>4. entity' \in Entity /\ entity'.status = "pending_import" /\ fresh' = {}
      BY <2>2, <2>3 DEF Entity, Status
  <2> QED
      BY <1>1, <2>4, AskingKeeps DEF ReplaceFile, RequestKeeps, outside
<1>2. CASE q \notin fresh
    BY <1>2, ProceedingKeeps DEF ReplaceFile, RequestKeeps, Keep, outside
<1> QED
    BY <1>1, <1>2

\* sync_detail, its read.
LEMMA SyncReadKeeps ==
    ASSUME Inductive, NEW q \in Requests, SyncRead(q)
    PROVE  Inductive'
BY ProceedingKeeps DEF SyncRead, RequestKeeps, Keep, outside

\* What the requests that arm a job have in common.
LEMMA ArmingKeeps ==
    ASSUME Inductive, NEW q \in Requests, NEW h \in Heads, RequestTo(q, "done"), request[q] = "arm" => h = Upload,
           heads[h] = "absent" => h \in {Upload, Sync},
           \/ heads[h] \in {"pending", "running"} /\ UNCHANGED <<heads, newest>>
           \/ heads[h] \notin {"pending", "running"} /\ SetHead(h, "pending"),
           UNCHANGED <<kind, entity, fresh, adopted, irpJobs, captured, thread, poller, imports,
                       rmAnalyses, log, spent>>
    PROVE  Inductive'
<1> USE DEF Inductive
<1>a. /\ heads \in [Heads -> HeadStatus] /\ newest \in Heads \cup {NoHead}
      /\ "done" \in RequestAt /\ "pending" \in HeadStatus
    BY DEF Typed, RequestAt, HeadStatus
<1>1. /\ Told(q, "done")
      /\ request[q] = "arm" => h = Upload
      /\ heads' \in [Heads -> HeadStatus] /\ newest' \in Heads \cup {NoHead}
      /\ Armed(h)
      /\ heads[h] = "absent" => h \in {Upload, Sync}
      /\ \/ heads' = heads /\ heads[h] \in {"pending", "running"}
         \/ HeadSet(h, "pending") /\ heads[h] \notin {"pending", "running"}
      /\ UNCHANGED <<kind, entity, fresh, adopted, irpJobs, captured, thread, poller, imports,
                     rmAnalyses, log, spent>>
  <2>1. Told(q, "done")
      BY <1>a, RequestTold
  <2>2. CASE heads[h] \in {"pending", "running"} /\ UNCHANGED <<heads, newest>>
      BY <1>a, <2>1, <2>2 DEF Armed
  <2>3. CASE heads[h] \notin {"pending", "running"} /\ SetHead(h, "pending")
      BY <1>a, <2>1, <2>3, SetHeadSets DEF Armed
  <2> QED
      BY <2>2, <2>3
<1>2. Typed'
    BY <1>1 DEF Typed, Told
<1>3. Held'
    BY <1>1, ArmedKeepsHeld
<1>4. Bodies'
    BY <1>1, <1>2 DEF Bodies, Held, InBody, UploadAt, RdmAt, EdmAt, Reached, Apart, Moved
<1>5. Refs'
  <2>1. \A j \in 1..Cardinality(Requests) + MaxFaults :
            heads[Backfill(j)] = "absent" => heads'[Backfill(j)] = "absent"
      BY <1>1, HeadFacts DEF HeadSet
  <2> QED
      BY <1>1, <2>1 DEF Refs
<1>6. FormsShowErrors'
    BY <1>1, <1>2 DEF FormsShowErrors
<1>7. ImportBudget'
  <2>1. MayImport' => MayImport
      BY <1>1 DEF MayImport, InDoubt, Reached, Held, InBody, UploadAt, Apart, Moved
  <2> QED
      BY <1>1, <1>2, <2>1, NumbersHold DEF ImportBudget, Numbers
<1>8. JobBudget'
  <2>1. MayRecord' => MayRecord
      BY <1>1 DEF MayRecord, Held, InBody, UploadAt, Apart, Moved
  <2> QED
      BY <1>1, <1>2, <2>1, NumbersHold DEF JobBudget, Numbers
<1>9. AskBudget'
    BY <1>1, AnswersKeepBudget
<1>R. RestKept({"succeeded"}) /\ RestKept(Rollups)
  <2>1. RestKept({"succeeded"})
      BY <1>1, ArmedKeepsRest
  <2>2. RestKept(Rollups)
      BY <1>1, ArmedKeepsRest
  <2> QED
      BY <2>1, <2>2
<1>10. Chained'
    BY <1>1, <1>R, ChainedKept
<1>11. PendingIsServed'
  <2>1. CASE h = Upload /\ HeadSet(h, "pending") /\ heads[h] \notin {"pending", "running"}
    <3>1. UploadToCome'
        BY <1>1, <2>1 DEF UploadToCome, Works, Held, Running, HeadSet
    <3> QED
        BY <3>1 DEF PendingIsServed
  <2>2. CASE h = Upload /\ heads' = heads /\ heads[h] \in {"pending", "running"}
      BY <1>1, <2>2 DEF PendingIsServed, Reached, UploadToCome, Works, Active
  <2>3. CASE h # Upload
    <3>1. heads'[Upload] = heads[Upload]
        BY <1>1, <2>3, HeadFacts DEF HeadSet
    <3>2. \A p \in Requests : request[p] = "arm" => request'[p] = "arm"
        BY <1>1, <2>3 DEF Told
    <3> QED
        BY <1>1, <3>1, <3>2 DEF PendingIsServed, Reached, UploadToCome, Works, Active
  <2> QED
      BY <1>1, <2>1, <2>2, <2>3
<1>12. ImportingIsServed'
  <2>1. Importing' => Importing
      BY <1>1 DEF Importing, Apart, Moved
  <2>2. Queued => Queued'
      BY <1>1 DEF Queued
  <2> QED
      BY <1>1, <1>R, <2>1, <2>2, ImportingKept
<1> QED
    BY <1>2, <1>3, <1>4, <1>5, <1>6, <1>7, <1>8, <1>9, <1>10, <1>11, <1>12

\* The upload job of a request.
LEMMA ArmUploadKeeps ==
    ASSUME Inductive, NEW q \in Requests, ArmUpload(q)
    PROVE  Inductive'
BY HeadFacts, ArmingKeeps DEF ArmUpload, RequestKeeps, Keep, outside

\* The backfill job of sync_detail.
LEMMA SyncArmKeeps ==
    ASSUME Inductive, NEW q \in Requests, SyncArm(q)
    PROVE  Inductive'
BY HeadFacts, ArmingKeeps DEF SyncArm, RequestKeeps, Keep, outside

\* resubmit_rwb_job.
LEMMA ResubmitKeeps ==
    ASSUME Inductive, NEW q \in Requests, NEW h \in Heads, Resubmit(q, h)
    PROVE  Inductive'
BY ArmingKeeps DEF Resubmit, RequestKeeps, Keep, outside

\* adopt_edms.
LEMMA AdoptKeeps ==
    ASSUME Inductive, NEW q \in Requests, NEW x \in Exposures, Adopt(q, x)
    PROVE  Inductive'
<1> USE DEF Inductive
<1>1. /\ Told(q, "done") /\ request[q] = "idle" /\ adopted' \subseteq DOMAIN imports
      /\ UNCHANGED <<kind, entity, fresh, irpJobs, heads, newest, captured, thread, poller, imports,
                     rmAnalyses, log, spent>>
  <2>1. "done" \in RequestAt
      BY DEF RequestAt
  <2> QED
      BY <2>1, RequestTold DEF Adopt, RequestKeeps, Keep, outside, Typed, Exposures
<1>2. Typed'
    BY <1>1 DEF Typed, Told
<1>3. Held'
    BY <1>1 DEF Held, InBody, Running, Alone, Works
<1>4. Bodies'
    BY <1>1, <1>2 DEF Bodies, Held, InBody, UploadAt, RdmAt, EdmAt, Reached, Apart, Moved
<1>5. Refs'
    BY <1>1, <1>2, NumbersHold, NextNumbers, HeadFacts DEF Refs, Numbers, Hand, Poll, Apart, Moved, HeadSet
<1>6. FormsShowErrors'
    BY <1>1, <1>2 DEF FormsShowErrors
<1>7. ImportBudget'
  <2>1. MayImport' => MayImport
      BY <1>1 DEF MayImport, InDoubt, Reached, Held, InBody, UploadAt, Apart, Moved
  <2> QED
      BY <1>1, <1>2, <2>1, NumbersHold DEF ImportBudget, Numbers
<1>8. JobBudget'
  <2>1. MayRecord' => MayRecord
      BY <1>1 DEF MayRecord, Held, InBody, UploadAt, Apart, Moved
  <2> QED
      BY <1>1, <1>2, <2>1, NumbersHold DEF JobBudget, Numbers
<1>9. AskBudget'
    BY <1>1, AnswersKeepBudget
<1>R. RestKept({"succeeded"}) /\ RestKept(Rollups)
    BY <1>1, StillKeepsRest
<1>10. Chained'
    BY <1>1, <1>R, ChainedKept
<1>11. PendingIsServed'
  <2>1. \A p \in Requests : request[p] = "arm" => request'[p] = "arm"
      BY <1>1 DEF Told
  <2> QED
      BY <1>1, <2>1 DEF PendingIsServed, Reached, UploadToCome, Works, Active
<1>12. ImportingIsServed'
  <2>1. Importing' => Importing
      BY <1>1 DEF Importing, Apart, Moved
  <2>2. Queued => Queued'
      BY <1>1 DEF Queued
  <2> QED
      BY <1>1, <1>R, <2>1, <2>2, ImportingKept
<1> QED
    BY <1>2, <1>3, <1>4, <1>5, <1>6, <1>7, <1>8, <1>9, <1>10, <1>11, <1>12

\* A web process is lost: its request is missed.
LEMMA RequestLostKeeps ==
    ASSUME Inductive, NEW q \in Requests, RequestLost(q)
    PROVE  Inductive'
<1> USE DEF Inductive
<1>a. log \in Log
    BY DEF Typed
<1>b. [log EXCEPT !.missed = TRUE] \in Log
    BY <1>a DEF Log
<1>1. /\ Told(q, "done") /\ request[q] \in {"reset", "arm", "arm sync"}
      /\ spent' \in Spent /\ spent'.crashes = spent.crashes + 1 /\ spent'.lost = spent.lost
      /\ spent'.crashes + spent'.lost <= MaxFaults
      /\ log' \in Log /\ log'.asked = log.asked /\ log'.doubt = log.doubt
      /\ log.missed \/ request[q] = "arm" => log'.missed
      /\ UNCHANGED <<kind, entity, fresh, adopted, irpJobs, heads, newest, captured, thread, poller, imports,
                     rmAnalyses>>
  <2>1. "done" \in RequestAt
      BY DEF RequestAt
  <2>2. /\ Told(q, "done") /\ request[q] \in {"reset", "arm", "arm sync"}
        /\ UNCHANGED <<kind, entity, fresh, adopted, irpJobs, heads, newest, captured, thread, poller, imports,
                       rmAnalyses>>
      BY <2>1, RequestTold DEF RequestLost, RequestKeeps, Keep, outside
  <2>3. /\ spent' \in Spent /\ spent'.crashes = spent.crashes + 1 /\ spent'.lost = spent.lost
        /\ spent'.crashes + spent'.lost <= MaxFaults
      BY FaultCounts DEF RequestLost
  <2>4. CASE request[q] = "arm sync"
      BY <1>a, <2>2, <2>3, <2>4 DEF RequestLost
  <2>5. CASE request[q] # "arm sync"
    <3>1. log' = [log EXCEPT !.missed = TRUE]
        BY <2>5 DEF RequestLost
    <3>2. log' \in Log /\ log'.asked = log.asked /\ log'.doubt = log.doubt /\ log'.missed
        BY <1>a, <1>b, <3>1 DEF Log
    <3> QED
        BY <2>2, <2>3, <3>2
  <2> QED
      BY <2>4, <2>5
<1>2. Typed'
    BY <1>1 DEF Typed, Told
<1>3. Held'
    BY <1>1 DEF Held, InBody, Running, Alone, Works
<1>4. Bodies'
    BY <1>1, <1>2 DEF Bodies, Held, InBody, UploadAt, RdmAt, EdmAt, Reached, Apart, Moved
<1>5. Refs'
    BY <1>1, <1>2, NumbersHold, NextNumbers, HeadFacts DEF Refs, Numbers, Hand, Poll, Apart, Moved, HeadSet
<1>6. FormsShowErrors'
    BY <1>1, <1>2 DEF FormsShowErrors
<1>7. ImportBudget'
  <2>1. MayImport' => MayImport
      BY <1>1 DEF MayImport, InDoubt, Reached, Held, InBody, UploadAt, Apart, Moved
  <2> QED
      BY <1>1, <1>2, <2>1, NumbersHold DEF ImportBudget, Numbers
<1>8. JobBudget'
  <2>1. MayRecord' => MayRecord
      BY <1>1 DEF MayRecord
  <2>2. Len(irpJobs) \in Nat /\ log.asked \in Nat /\ spent.crashes \in Nat
      BY NumbersHold DEF Numbers
  <2>3. log'.asked = log.asked /\ spent'.crashes = spent.crashes + 1 /\ irpJobs' = irpJobs
      BY <1>1
  <2> QED
      BY <2>1, <2>2, <2>3 DEF JobBudget
<1>9. AskBudget'
    BY <1>1, AnswersKeepBudget
<1>R. RestKept({"succeeded"}) /\ RestKept(Rollups)
    BY <1>1, StillKeepsRest
<1>10. Chained'
    BY <1>1, <1>R, ChainedKept
<1>11. PendingIsServed'
  <2>1. CASE log'.missed
      BY <2>1 DEF PendingIsServed
  <2>2. CASE ~ log'.missed
    <3>1. \A p \in Requests : request[p] = "arm" => request'[p] = "arm"
        BY <1>1, <2>2 DEF Told
    <3> QED
        BY <1>1, <2>2, <3>1 DEF PendingIsServed, Reached, UploadToCome, Works, Active
  <2> QED
      BY <2>1, <2>2
<1>12. ImportingIsServed'
  <2>1. Importing' => Importing
      BY <1>1 DEF Importing, Apart, Moved
  <2>2. Queued => Queued'
      BY <1>1 DEF Queued
  <2> QED
      BY <1>1, <1>R, <2>1, <2>2, ImportingKept
<1> QED
    BY <1>2, <1>3, <1>4, <1>5, <1>6, <1>7, <1>8, <1>9, <1>10, <1>11, <1>12

\* An import ends in Risk Modeler.
LEMMA ImportEndsKeeps ==
    ASSUME Inductive, NEW i \in DOMAIN imports, ImportEnds(i)
    PROVE  Inductive'
<1> USE DEF Inductive
<1>a. PICK st \in {"finished", "failed"} : imports' = [imports EXCEPT ![i].state = st]
    BY DEF ImportEnds
<1>b. imports \in Seq(Import) /\ i \in 1..Len(imports) /\ DOMAIN imports = 1..Len(imports)
    BY NumbersHold DEF Typed, Numbers
<1>c. imports[i] \in Import
    BY <1>b
<1>d. [imports[i] EXCEPT !.state = st] \in Import
    BY <1>c DEF Import
<1>e. imports' = [imports EXCEPT ![i] = [imports[i] EXCEPT !.state = st]]
    BY <1>a
<1>f. imports' \in Seq(Import) /\ Len(imports') = Len(imports)
    BY <1>b, <1>d, <1>e, ExceptSeq
<1>1. /\ imports' \in Seq(Import) /\ Len(imports') = Len(imports) /\ DOMAIN imports' = DOMAIN imports
      /\ UNCHANGED <<kind, entity, fresh, adopted, irpJobs, heads, newest, captured, thread, poller, request,
                     rmAnalyses, log, spent>>
    BY <1>e, <1>f DEF ImportEnds, Keep, tables
<1>q. /\ poller \in Poll /\ spent \in Spent /\ spent.crashes + spent.lost <= MaxFaults
      /\ imports \in Seq(Import) /\ rmAnalyses \subseteq Analyses
    BY DEF Typed
<1> QED
    BY <1>1, <1>q, OutsideMovesKeeps DEF Refs

\* An analysis appears or vanishes in Risk Modeler.
LEMMA AnalysisChangesKeeps ==
    ASSUME Inductive, NEW a \in Analyses, AnalysisChanges(a)
    PROVE  Inductive'
<1> USE DEF Inductive
<1>a. spent \in Spent
    BY DEF Typed
<1>1. /\ rmAnalyses' \subseteq Analyses
      /\ spent' \in Spent /\ spent'.crashes = spent.crashes /\ spent'.lost = spent.lost
      /\ UNCHANGED <<kind, entity, fresh, adopted, irpJobs, heads, newest, captured, thread, poller, request,
                     imports, log>>
  <2>1. spent' \in Spent /\ spent'.crashes = spent.crashes /\ spent'.lost = spent.lost
      BY <1>a DEF AnalysisChanges, Spend, Spent
  <2> QED
      BY <2>1 DEF AnalysisChanges, Keep, tables, Typed
<1>q. /\ poller \in Poll /\ spent \in Spent /\ spent.crashes + spent.lost <= MaxFaults
      /\ imports \in Seq(Import) /\ rmAnalyses \subseteq Analyses
    BY DEF Typed
<1> QED
    BY <1>1, <1>q, OutsideMovesKeeps DEF Refs

\* The first state.
LEMMA InitInductive == Init => Inductive
<1> SUFFICES ASSUME Init PROVE Inductive
    OBVIOUS
<1>1. /\ irpJobs = <<>> /\ imports = <<>> /\ fresh = {} /\ adopted = {} /\ poller = NoPoll
      /\ kind \in Kinds /\ entity.status = "none" /\ entity \in Entity
      /\ \A h \in Heads : heads[h] = "absent"
      /\ \A a \in Analyses : captured[a].row = "none"
      /\ \A w \in Threads : thread[w].at = "idle"
      /\ \A q \in Requests : request[q] = "idle"
      /\ log.asked = 0 /\ log.doubt = 0 /\ spent.crashes = 0 /\ spent.lost = 0
      /\ Len(imports) = 0 /\ Len(irpJobs) = 0 /\ DOMAIN irpJobs = {} /\ DOMAIN imports = {}
    BY IdleFacts DEF Init, Entity, Status
<1>2. Typed
  <2>1. irpJobs \in Seq(IrpJob) /\ imports \in Seq(Import) /\ log \in Log
      BY DEF Init, Log
  <2>2. captured \in [Analyses -> Row] /\ thread \in [Threads -> Hand] /\ poller \in Poll
      BY IdleFacts DEF Init, Row
  <2>3. heads \in [Heads -> HeadStatus] /\ newest \in Heads \cup {NoHead} /\ request \in [Requests -> RequestAt]
      BY DEF Init, HeadStatus, RequestAt
  <2>4. spent \in Spent /\ spent.crashes + spent.lost <= MaxFaults
      BY EntityImportAssumption DEF Init, Spent
  <2> QED
      BY <1>1, <2>1, <2>2, <2>3, <2>4 DEF Typed, Init
<1>3. Held
    BY <1>1 DEF Held, InBody, Running, Alone, Works, UploadAt, RdmAt, EdmAt
<1>4. Bodies
    BY <1>1 DEF Bodies, RdmAt, EdmAt
<1>5. Refs
    BY <1>1, HeadFacts, IdleFacts DEF Refs
<1>6. FormsShowErrors
    BY <1>1 DEF FormsShowErrors
<1>7. ~ MayImport /\ ~ MayRecord
    BY <1>1 DEF MayImport, MayRecord
<1>b. ImportBudget /\ JobBudget
    BY <1>1, <1>7 DEF ImportBudget, JobBudget
<1>8. AskBudget
    BY <1>1, AnsweredFinite DEF AskBudget
<1>9. Chained
    BY <1>1 DEF Chained, Unretrieved
<1>10. PendingIsServed /\ ImportingIsServed
    BY <1>1 DEF PendingIsServed, ImportingIsServed, Importing
<1> QED
    BY <1>2, <1>3, <1>4, <1>5, <1>6, <1>b, <1>8, <1>9, <1>10 DEF Inductive

\* A step that changes nothing.
LEMMA StutterKeeps ==
    ASSUME Inductive, UNCHANGED vars
    PROVE  Inductive'
<1>1. /\ UNCHANGED <<kind, entity, fresh, adopted, irpJobs, heads, newest, captured, thread, poller, request,
                     imports, rmAnalyses, log, spent>>
    BY DEF vars, tables, outside
<1>2. Typed'
    BY <1>1 DEF Inductive, Typed
<1>3. Held'
    BY <1>1 DEF Inductive, Held, InBody, Running, Alone, Works
<1>4. Bodies'
    BY <1>1 DEF Inductive, Bodies, Reached
<1>5. Refs' /\ FormsShowErrors'
    BY <1>1 DEF Inductive, Refs, FormsShowErrors
<1>6. ImportBudget'
    BY <1>1 DEF Inductive, ImportBudget, MayImport, Reached, InDoubt
<1>7. JobBudget' /\ AskBudget'
    BY <1>1 DEF Inductive, JobBudget, MayRecord, AskBudget, Answered
<1>8. Chained'
    BY <1>1 DEF Inductive, Chained, Unretrieved, Unfinished, Works
<1>9. PendingIsServed'
    BY <1>1 DEF Inductive, PendingIsServed, Reached, UploadToCome, Works, Active
<1>10. ImportingIsServed'
    BY <1>1 DEF Inductive, ImportingIsServed, Importing, Queued, RollupToCome, Unfinished, Works
<1> QED
    BY <1>2, <1>3, <1>4, <1>5, <1>6, <1>7, <1>8, <1>9, <1>10 DEF Inductive

\* Every step.
LEMMA NextInductive == Inductive /\ [Next]_vars => Inductive'
<1> SUFFICES ASSUME Inductive, [Next]_vars PROVE Inductive'
    OBVIOUS
<1>1. ASSUME NEW w \in Threads, UploadStep(w) PROVE Inductive'
    BY <1>1, ReadEntityKeeps, LookForImportKeeps, SubmitImportKeeps, RecordImportKeeps, MarkKeeps DEF UploadStep
<1>2. ASSUME NEW w \in Threads, BackfillStep(w) PROVE Inductive'
    BY <1>2, ReadExposureKeeps, ResolveExposureKeeps, StoreExposureKeeps, StoreSnapshotsKeeps,
       EnumerateKeeps, StoreAnalysesKeeps, ChainRetrievalsKeeps DEF BackfillStep
<1>3. ASSUME NEW w \in Threads, ThreadStep(w) \/ Crash(w) \/ Raises(w) PROVE Inductive'
    BY <1>1, <1>2, <1>3, ClaimKeeps, CompleteKeeps, CrashKeeps, RaisesKeeps DEF ThreadStep
<1>4. ASSUME PollStep \/ PollLost PROVE Inductive'
    BY <1>4, PollReadKeeps, PollResolveKeeps, PollPersistKeeps, PollLostKeeps DEF PollStep
<1>5. ASSUME NEW q \in Requests, Ask(q) PROVE Inductive'
    BY <1>5, ImportEntityKeeps, OpenFormKeeps, RetryReadKeeps, ReplaceFileKeeps, SyncReadKeeps,
       ResubmitKeeps, AdoptKeeps DEF Ask
<1>6. ASSUME NEW q \in Requests, Proceed(q) \/ RequestLost(q) PROVE Inductive'
    BY <1>6, RetryResetKeeps, ArmUploadKeeps, SyncArmKeeps, RequestLostKeeps DEF Proceed
<1>7. CASE UNCHANGED vars
    BY <1>7, StutterKeeps
<1> QED
    BY <1>3, <1>4, <1>5, <1>6, <1>7, ReclaimKeeps, ImportEndsKeeps, AnalysisChangesKeeps DEF Next

\* Inductive gives the three properties.
LEMMA InductiveTypes == Inductive => TypeOK
<1> SUFFICES ASSUME Inductive PROVE TypeOK
    OBVIOUS
<1>1. \A j \in DOMAIN irpJobs : Backfill(j) \in Heads
    BY JobsFit, HeadFacts DEF Inductive
<1> QED
    BY <1>1 DEF Inductive, Typed, TypeOK, Row, Hand, Poll, RequestAt, Import

\* The first half of the import budget.
LEMMA InductiveAccounts == Inductive => ImportsAccounted
BY DEF Inductive, ImportBudget, ImportsAccounted

\* When nothing is under way, whoever would still have served the row has not.
LEMMA InductiveServes == Inductive => StrandedOnlyByRace
<1> SUFFICES ASSUME Inductive, Quiet
             PROVE  /\ entity.status \in {"pending_import", "importing"} => Excused
                    /\ Unretrieved = {} \/ BackfillFailed
    BY DEF StrandedOnlyByRace
<1>1. \A h \in Heads : Unfinished(h, {"succeeded"}) \/ Unfinished(h, {"chain", "succeeded"})
                      => heads[h] \in {"failed", "raised"}
    BY DEF Quiet, Active, Unfinished
<1>2. Unretrieved = {} \/ BackfillFailed
    BY <1>1 DEF Inductive, Chained, BackfillFailed
<1>3. ASSUME entity.status = "pending_import" PROVE Excused
  <2>1. (UploadToCome => heads[Upload] = "raised") /\ \A q \in Requests : request[q] # "arm"
      BY HeadFacts DEF Quiet, UploadToCome, Active
  <2> QED
      BY <1>3, <2>1 DEF Inductive, PendingIsServed, Excused, SkippedRdm, Reached, UploadRaised
<1>4. ASSUME entity.status = "importing" PROVE Excused
  <2>1. ~ Queued
      BY DEF Quiet, Queued
  <2>2. RollupToCome => BackfillFailed
      BY <1>1 DEF RollupToCome, BackfillFailed
  <2> QED
      BY <1>4, <2>1, <2>2 DEF Inductive, ImportingIsServed, Importing, Excused
<1> QED
    BY <1>2, <1>3, <1>4

-----------------------------------------------------------------------------
\* The strengthening holds in every reachable state.
LEMMA AlwaysInductive == Spec => []Inductive
BY InitInductive, NextInductive, PTL DEF Spec

(* Every variable keeps its type, and every import irp_job the upload bodies *)
(* write has a backfill job: their number is bounded by the requests that    *)
(* ask and the crashes, whatever the interleaving.                           *)
THEOREM TypeCorrect == Spec => []TypeOK
BY AlwaysInductive, InductiveTypes, PTL

(* Risk Modeler imports no file twice but for a lost answer or a crash       *)
(* between the accepted POST and the writes that remember it, for any number *)
(* of threads, requests and faults.                                          *)
THEOREM ImportsAreAccounted == Spec => []ImportsAccounted
BY AlwaysInductive, InductiveAccounts, PTL

(* An entity at rest is not left pending or importing, and no captured       *)
(* analysis is left without its retrieval job, but for the races, the skip   *)
(* and the failed jobs the property names, for any number of threads,        *)
(* requests and faults, whichever step of a body is lost, raises or meets    *)
(* its time limit.                                                           *)
THEOREM StrandsOnlyByRace == Spec => []StrandedOnlyByRace
BY AlwaysInductive, InductiveServes, PTL

=============================================================================
