------------------------- MODULE SubmissionLifecycle -------------------------
(***************************************************************************)
(* Submissions as analysts edit them (app/services/submission_service.py)  *)
(* and their deletion (submission_delete_service.py) against the work they *)
(* own: one group per submission (grouping_jobs.py, the poller, the group  *)
(* branch of finalize_analysis), one export (export_service.py) and the      *)
(* imports of one Risk Modeler analysis (analysis_import_service.py).      *)
(*                                                                         *)
(* A request reads, decides and writes; every write is one statement or    *)
(* one transaction, under READ COMMITTED.  The reads of a request's gate   *)
(* are one step: a later one could only find more to refuse, and the write *)
(* repeats it (a marker, a foreign key or a unique index).                 *)
(***************************************************************************)
EXTENDS Naturals, FiniteSets

CONSTANTS Deals,       \* submissions
          First,       \* the one that exists at the start
          NoDeal,      \* links_to_submission_id IS NULL
          CrmIds,      \* CRM IDs analysts type
          Requests,    \* requests of analysts; each does one thing
          Nobody,      \* wrote what is there at the start
          MaxCrashes,  \* bound: lost workers
          MaxResubmits \* bound: jobs resubmitted from the queue page

ASSUME SubmissionAssumption ==
    /\ First \in Deals /\ NoDeal \notin Deals /\ Nobody \notin Requests
    /\ MaxCrashes \in Nat /\ MaxResubmits \in Nat

VARIABLES deal,     \* submission
          contract, \* contract: one per request that may add it, and one old one
          edms,     \* submissions with an attached EDM (submission_edm)
          group,    \* a submission's group: its jobs, its row, its irp_job
          export,   \* the rows of its export in the loss repository
          imports,  \* per request: the row it imported and the row's finalize job
          request,
          during,   \* history: work that began while the submission was being deleted
          spent     \* how much of each bound has been used

rows == <<deal, contract, edms>>
vars == <<rows, group, export, imports, request, during, spent>>

Analysts  == Requests \cup {Nobody}
Kinds     == {"create", "edit", "owner", "status", "attach", "detach", "add",
              "change", "mark", "remove", "group", "import", "export", "delete"}
Deal      == [status : {"absent", "ACTIVE", "closed", "deleted"}, version : Nat,
              text : Analysts, owner : Analysts, link : Deals \cup {NoDeal}]
NotShown  == [status |-> "absent", version |-> 0, text |-> Nobody, owner |-> Nobody, link |-> NoDeal]
Contract  == [deal : Deals \cup {NoDeal}, crm : CrmIds, text : Analysts, version : Nat]
JobStatus == {"absent", "pending", "running", "succeeded", "failed", "cancelled"}
Group     == [job : JobStatus, at : {"idle", "look", "members", "submit", "record"},
              row : {"absent", "bare", "full"},
              irp : {"absent", "running", "finished", "failed"}, finalize : JobStatus]
NoGroup   == [job |-> "absent", at |-> "idle", row |-> "absent", irp |-> "absent",
              finalize |-> "absent"]
Import    == [deal : Deals \cup {NoDeal}, row : {"absent", "live", "out"}, job : JobStatus]
NoImport  == [deal |-> NoDeal, row |-> "absent", job |-> "absent"]
Work      == {"requested", "resubmitted", "handed over", "imported", "exported"}

Exists(d) == deal[d].status \in {"ACTIVE", "closed"}
Resolves(l) == l = NoDeal \/ Exists(l)
Holds(k, c) == contract[k].deal # NoDeal /\ contract[k].crm = c

Init ==
    /\ deal = [d \in Deals |-> [NotShown EXCEPT !.status = IF d = First THEN "ACTIVE" ELSE "absent"]]
    /\ \E c \in CrmIds :
           contract = [k \in Analysts |-> [deal |-> IF k = Nobody THEN First ELSE NoDeal,
                                           crm |-> c, text |-> Nobody, version |-> 0]]
    /\ edms \in SUBSET {First}
    /\ group = [d \in Deals |-> NoGroup]
    /\ export = [d \in Deals |-> "absent"]
    /\ imports = [r \in Requests |-> NoImport]
    /\ request = [r \in Requests |-> [at |-> "idle"]]
    /\ during = [d \in Deals |-> {}]
    /\ spent = [crashes |-> 0, resubmits |-> 0]

-----------------------------------------------------------------------------
(* Requests *)

Ended == [at |-> "done"]
End(r) == request' = [request EXCEPT ![r] = Ended]
At(r, step, kinds) == request[r].at = step /\ request[r].kind \in kinds

\* A delete has begun to read and has not ended; what starts meanwhile, or is
\* written by a request whose gate had found the submission.
Deleting(d) == \E r \in Requests : request[r].at \in {"jobs", "irpJobs", "exports", "commit"}
                                   /\ request[r].deal = d
Note(d, work) ==
    during' = IF Deleting(d) /\ Exists(d) THEN [during EXCEPT ![d] = @ \cup {work}] ELSE during
NoteRequest(d, work) ==
    during' = IF Deleting(d) \/ ~ Exists(d) THEN [during EXCEPT ![d] = @ \cup {work}] ELSE during

\* The page or form the analyst posts from: it carries what it showed.
Page(kind, d, k, l, c) ==
    [at |-> "gate", kind |-> kind, deal |-> d, k |-> k, link |-> l, crm |-> c,
     shown |-> IF kind \in {"edit", "owner", "status"} THEN deal[d] ELSE NotShown,
     terms |-> contract[k]]
Ask(r) ==
    /\ request[r].at = "idle"
    /\ \E kind \in Kinds, d \in Deals, k \in Analysts, l \in Deals \cup {NoDeal}, c \in CrmIds :
           /\ IF kind = "create" THEN deal[d].status = "absent" ELSE Exists(d)
           /\ IF kind \in {"change", "mark", "remove"} THEN contract[k].deal = d ELSE k = Nobody
           /\ kind \in {"create", "edit"} \/ l = NoDeal
           /\ kind \in {"create", "add", "change"} \/ c = contract[Nobody].crm
           /\ request' = [request EXCEPT ![r] = Page(kind, d, k, l, c)]
    /\ UNCHANGED <<rows, group, export, imports, during, spent>>

Editable(r) ==
    LET q == request[r] IN
    q.kind \in {"edit", "owner", "attach", "detach", "add", "change", "remove"}
        => deal[q.deal].status = "ACTIVE"
Known(r) ==
    LET q == request[r] IN
    /\ q.kind # "create" => Exists(q.deal)
    /\ q.kind \in {"change", "mark", "remove"} => contract[q.k].deal = q.deal
LinkResolves(r) == LET q == request[r] IN Resolves(q.link) /\ q.link # q.deal
CrmIdFree(r) ==
    LET q == request[r] IN
    q.kind \in {"create", "add", "change"} =>
        ~ \E k \in Analysts : (q.kind = "change" => k # q.k) /\ Holds(k, q.crm)
\* No live row of the analysis in the deal; a row that failed counts.
NotInDeal(r) ==
    request[r].kind = "import" =>
        ~ \E k \in Requests : imports[k].deal = request[r].deal /\ imports[k].row = "live"
Passes(r) == Known(r) /\ Editable(r) /\ LinkResolves(r) /\ CrmIdFree(r) /\ NotInDeal(r)

Gate(r) ==
    /\ request[r].at = "gate"
    /\ request' = IF ~ Passes(r) THEN [request EXCEPT ![r] = Ended]
                  ELSE [request EXCEPT ![r].at = IF request[r].kind = "delete" THEN "ids" ELSE "write"]
    /\ UNCHANGED <<rows, group, export, imports, during, spent>>

\* WHERE id = :id AND updated_at = :expected
Unmoved(r) == Exists(request[r].deal) /\ deal[request[r].deal].version = request[r].shown.version

\* Mutant: the marker of the edit is left out of the WHERE.
Bump(row) == [row EXCEPT !.version = @ + 1]
UpdateLastWins(r) ==
    LET q == request[r] IN
    /\ At(r, "write", {"edit"})
    /\ deal' = IF ~ (Exists(q.deal) /\ Resolves(q.link)) THEN deal
               ELSE [deal EXCEPT ![q.deal] = Bump([@ EXCEPT !.text = r, !.link = q.link])]
    /\ End(r) /\ UNCHANGED <<contract, edms, group, export, imports, during, spent>>
Update(r) ==
    LET q == request[r] IN
    /\ At(r, "write", {"edit"})
    /\ deal' = IF ~ (Unmoved(r) /\ Resolves(q.link)) THEN deal
               ELSE [deal EXCEPT ![q.deal] = Bump([@ EXCEPT !.text = r, !.link = q.link])]
    /\ End(r) /\ UNCHANGED <<contract, edms, group, export, imports, during, spent>>

Reassign(r) ==
    /\ At(r, "write", {"owner"})
    /\ deal' = IF ~ Unmoved(r) THEN deal
               ELSE [deal EXCEPT ![request[r].deal] = Bump([@ EXCEPT !.owner = r])]
    /\ End(r) /\ UNCHANGED <<contract, edms, group, export, imports, during, spent>>

SetStatus(r) ==
    /\ At(r, "write", {"status"})
    /\ \E s \in {"ACTIVE", "closed"} :
           deal' = IF ~ Unmoved(r) THEN deal
                   ELSE [deal EXCEPT ![request[r].deal] = Bump([@ EXCEPT !.status = s])]
    /\ End(r) /\ UNCHANGED <<contract, edms, group, export, imports, during, spent>>

\* The foreign keys and uq_contract_crm_id decide what the gate let pass.
Create(r) ==
    LET q == request[r] IN
    /\ At(r, "write", {"create"})
    /\ IF deal[q.deal].status = "absent" /\ Resolves(q.link) /\ CrmIdFree(r)
       THEN /\ deal' = [deal EXCEPT ![q.deal] =
                           [@ EXCEPT !.status = "ACTIVE", !.text = r, !.owner = r, !.link = q.link]]
            /\ \/ contract' = [contract EXCEPT ![r] = [@ EXCEPT !.deal = q.deal, !.crm = q.crm]]
               \/ UNCHANGED contract
       ELSE UNCHANGED <<deal, contract>>
    /\ End(r) /\ UNCHANGED <<edms, group, export, imports, during, spent>>

Attach(r) ==
    /\ At(r, "write", {"attach"})
    /\ edms' = edms \cup {d \in {request[r].deal} : Exists(d)}
    /\ End(r) /\ UNCHANGED <<deal, contract, group, export, imports, during, spent>>
Detach(r) ==
    /\ At(r, "write", {"detach"})
    /\ edms' = edms \ {request[r].deal}
    /\ End(r) /\ UNCHANGED <<deal, contract, group, export, imports, during, spent>>

AddContract(r) ==
    LET q == request[r] IN
    /\ At(r, "write", {"add"})
    /\ contract' = IF ~ (Exists(q.deal) /\ CrmIdFree(r)) THEN contract
                   ELSE [contract EXCEPT ![r] = [@ EXCEPT !.deal = q.deal, !.crm = q.crm]]
    /\ End(r) /\ UNCHANGED <<deal, edms, group, export, imports, during, spent>>

\* The contract's own marker; the status of the deal is not looked at again.
UnmovedContract(r) ==
    LET q == request[r] IN contract[q.k].deal = q.deal /\ contract[q.k].version = q.terms.version
UpdateContract(r) ==
    LET q == request[r] IN
    /\ At(r, "write", {"change"})
    /\ contract' = IF ~ (UnmovedContract(r) /\ CrmIdFree(r)) THEN contract
                   ELSE [contract EXCEPT ![q.k] = Bump([@ EXCEPT !.crm = q.crm, !.text = r])]
    /\ End(r) /\ UNCHANGED <<deal, edms, group, export, imports, during, spent>>
SetContractStatus(r) ==
    LET q == request[r] IN
    /\ At(r, "write", {"mark"})
    /\ contract' = IF ~ UnmovedContract(r) THEN contract
                   ELSE [contract EXCEPT ![q.k] = Bump([@ EXCEPT !.text = r])]
    /\ End(r) /\ UNCHANGED <<deal, edms, group, export, imports, during, spent>>
RemoveContract(r) ==
    /\ At(r, "write", {"remove"})
    /\ contract' = [contract EXCEPT ![request[r].k].deal = NoDeal]
    /\ End(r) /\ UNCHANGED <<deal, edms, group, export, imports, during, spent>>

\* A submit_grouping job, a manifest row: neither has a foreign key to the deal.
RequestGroup(r) ==
    LET d == request[r].deal IN
    /\ At(r, "write", {"group"})
    /\ IF group[d].job = "absent"
       THEN group' = [group EXCEPT ![d].job = "pending"] /\ NoteRequest(d, "requested")
       ELSE UNCHANGED <<group, during>>
    /\ End(r) /\ UNCHANGED <<rows, export, imports, spent>>
RequestExport(r) ==
    LET d == request[r].deal IN
    /\ At(r, "write", {"export"})
    /\ export' = [export EXCEPT ![d] = "open"] /\ NoteRequest(d, "exported")
    /\ End(r) /\ UNCHANGED <<rows, group, imports, spent>>

\* No unique index on the analysis: two imports that both passed the check both
\* insert.  The submission is a foreign key.
InsertImport(r) ==
    LET d == request[r].deal IN
    /\ At(r, "write", {"import"})
    /\ IF Exists(d)
       THEN /\ imports' = [imports EXCEPT ![r] = [@ EXCEPT !.deal = d, !.row = "live"]]
            /\ request' = [request EXCEPT ![r].at = "enqueue"]
       ELSE UNCHANGED imports /\ End(r)
    /\ UNCHANGED <<rows, group, export, during, spent>>
\* The queue takes the finalize job, or the row is taken back out.
EnqueueImport(r) ==
    /\ At(r, "enqueue", {"import"})
    /\ \/ imports' = [imports EXCEPT ![r].job = "pending"] /\ NoteRequest(request[r].deal, "imported")
       \/ /\ imports' = [imports EXCEPT ![r].row = IF @ = "live" THEN "out" ELSE @]
          /\ UNCHANGED during
    /\ End(r) /\ UNCHANGED <<rows, group, export, spent>>

-----------------------------------------------------------------------------
(* The group's jobs *)

Live == {"pending", "running"}
Move(d, g) == group' = [group EXCEPT ![d] = g]

\* The body raised, or recorded a refusal: the rwb_job fails.
Fails(g) == [g EXCEPT !.job = "failed", !.at = "idle"]

ClaimGroup(d) ==
    /\ group[d].job = "pending"
    /\ Move(d, [group[d] EXCEPT !.job = "running", !.at = "look"])
    /\ UNCHANGED <<rows, export, imports, request, during, spent>>
Look(d) ==
    LET g == group[d] IN
    /\ g.at = "look"
    /\ Move(d, CASE g.irp # "absent" -> [g EXCEPT !.job = "succeeded", !.at = "idle"]
                 [] g.row # "absent" -> [g EXCEPT !.at = "members"]
                 [] OTHER -> IF Exists(d) THEN [g EXCEPT !.at = "members", !.row = "bare"] ELSE Fails(g))
    /\ UNCHANGED <<rows, export, imports, request, during, spent>>
InsertMembers(d) ==
    LET g == group[d] IN
    /\ g.at = "members"
    /\ Move(d, IF g.row = "absent" THEN Fails(g) ELSE [g EXCEPT !.at = "submit", !.row = "full"])
    /\ UNCHANGED <<rows, export, imports, request, during, spent>>
\* Risk Modeler accepts; or refuses, which is recorded on a row that still
\* exists; or the body raises before anything is recorded.
Submit(d) ==
    LET g == group[d] IN
    /\ g.at = "submit"
    /\ \/ Move(d, [g EXCEPT !.at = "record"])
       \/ g.row = "full" /\ Move(d, [Fails(g) EXCEPT !.irp = "failed"])
       \/ Move(d, Fails(g))
    /\ UNCHANGED <<rows, export, imports, request, during, spent>>
Record(d) ==
    LET g == group[d] IN
    /\ g.at = "record"
    /\ Move(d, IF g.row # "full" THEN Fails(g)
               ELSE [g EXCEPT !.job = "succeeded", !.at = "idle", !.irp = "running"])
    /\ UNCHANGED <<rows, export, imports, request, during, spent>>

\* One transaction of the poller: the status and the next job.
Poll(d) ==
    LET g == group[d] IN
    /\ g.irp = "running"
    /\ \/ Move(d, [g EXCEPT !.irp = "finished", !.finalize = "pending"]) /\ Note(d, "handed over")
       \/ Move(d, [g EXCEPT !.irp = "failed"]) /\ UNCHANGED during
    /\ UNCHANGED <<rows, export, imports, request, spent>>
Finalize(d) ==
    LET g == group[d] IN
    /\ \/ g.finalize = "pending" /\ Move(d, [g EXCEPT !.finalize = "running"])
       \/ g.finalize = "running" /\ g.row # "absent" /\ Move(d, [g EXCEPT !.finalize = "succeeded"])
       \/ g.finalize = "running" /\ Move(d, [g EXCEPT !.finalize = "failed"])
    /\ UNCHANGED <<rows, export, imports, request, during, spent>>

Crash(d) ==
    LET g == group[d] IN
    /\ spent.crashes < MaxCrashes
    /\ \/ g.job = "running" /\ Move(d, [g EXCEPT !.job = "pending", !.at = "idle"])
       \/ g.finalize = "running" /\ Move(d, [g EXCEPT !.finalize = "pending"])
    /\ spent' = [spent EXCEPT !.crashes = @ + 1]
    /\ UNCHANGED <<rows, export, imports, request, during>>
Resubmit(d) ==
    LET g == group[d] IN
    /\ spent.resubmits < MaxResubmits
    /\ \/ g.job = "failed" /\ Move(d, [g EXCEPT !.job = "pending"])
       \/ g.finalize = "failed" /\ Move(d, [g EXCEPT !.finalize = "pending"])
    /\ Note(d, "resubmitted")
    /\ spent' = [spent EXCEPT !.resubmits = @ + 1]
    /\ UNCHANGED <<rows, export, imports, request>>
\* The finalize job of an import, which succeeds on a missing row too; its worker
\* may be lost, and a failed job resubmitted.
FinalizeImport(r) ==
    LET i == imports[r] IN
    /\ \E status \in CASE i.job = "pending" -> {"running"}
                       [] i.job = "running" -> {"succeeded", "failed"}
                       [] OTHER -> {} :
           imports' = [imports EXCEPT ![r].job = status]
    /\ UNCHANGED <<rows, group, export, request, during, spent>>
RestartImport(r) ==
    LET i == imports[r] IN
    /\ \/ /\ i.job = "running" /\ spent.crashes < MaxCrashes
          /\ spent' = [spent EXCEPT !.crashes = @ + 1] /\ UNCHANGED during
       \/ /\ i.job = "failed" /\ spent.resubmits < MaxResubmits
          /\ spent' = [spent EXCEPT !.resubmits = @ + 1] /\ Note(i.deal, "resubmitted")
    /\ imports' = [imports EXCEPT ![r].job = "pending"]
    /\ UNCHANGED <<rows, group, export, request>>
\* Loaded, or closed by the analyst.
SettleExport(d) ==
    /\ export[d] = "open" /\ export' = [export EXCEPT ![d] = "settled"]
    /\ UNCHANGED <<rows, group, imports, request, during, spent>>

-----------------------------------------------------------------------------
(* Deletion *)

Cancelled(status) == IF status = "failed" THEN "cancelled" ELSE status

\* The analyses of the submission, whose rows the deletes name by id.
ReadIds(r) ==
    LET d == request[r].deal IN
    /\ At(r, "ids", {"delete"})
    /\ during' = IF Exists(d) /\ ~ Deleting(d) THEN [during EXCEPT ![d] = {}] ELSE during
    /\ request' = [request EXCEPT ![r] = [at |-> "jobs", kind |-> "delete", deal |-> d,
                       ids |-> group[d].row # "absent", blocked |-> FALSE, failed |-> {}, tried |-> {}]]
    /\ UNCHANGED <<rows, group, export, imports, spent>>

\* The jobs of the submission's imports, by their link.
ImportsWith(d, statuses) == {r \in Requests : imports[r].deal = d /\ imports[r].job \in statuses}
\* Mutant: only running jobs block.
ReadJobsRunning(r) ==
    LET g == group[request[r].deal] IN
    /\ At(r, "jobs", {"delete"})
    /\ request' = [request EXCEPT ![r].at = "irpJobs", ![r].blocked = "running" \in {g.job, g.finalize},
                       ![r].failed = {x \in {"job", "finalize"} : g[x] = "failed"},
                       ![r].tried = ImportsWith(request[r].deal, {"failed"})]
    /\ UNCHANGED <<rows, group, export, imports, during, spent>>
ReadJobs(r) ==
    LET g == group[request[r].deal] IN
    /\ At(r, "jobs", {"delete"})
    /\ request' = [request EXCEPT ![r].at = "irpJobs", ![r].failed = {x \in {"job", "finalize"} : g[x] = "failed"},
                       ![r].blocked = \/ {g.job, g.finalize} \cap Live # {}
                                      \/ ImportsWith(request[r].deal, Live) # {},
                       ![r].tried = ImportsWith(request[r].deal, {"failed"})]
    /\ UNCHANGED <<rows, group, export, imports, during, spent>>

ReadIrpJobs(r) ==
    /\ At(r, "irpJobs", {"delete"})
    /\ request' = [request EXCEPT ![r].at = "exports",
                       ![r].blocked = @ \/ group[request[r].deal].irp = "running"]
    /\ UNCHANGED <<rows, group, export, imports, during, spent>>

\* Or the loss repository is unreachable, which refuses too.
ReadExports(r) ==
    /\ At(r, "exports", {"delete"})
    /\ \E unreachable \in BOOLEAN :
           request' = [request EXCEPT ![r].at = "commit",
                           ![r].blocked = @ \/ unreachable \/ export[request[r].deal] = "open"]
    /\ UNCHANGED <<rows, group, export, imports, during, spent>>

\* A member or an irp_job of a group row that the ids do not name still refers
\* to the row when it is deleted.
ForeignKeyFails(r) ==
    LET q == request[r] IN ~ q.ids /\ group[q.deal].row = "full"

Deleted(d) == [deal[d] EXCEPT !.status = "deleted", !.link = NoDeal]
\* Mutant: links to the submission are left as they are.
DealsWithoutOnly(d) == [deal EXCEPT ![d] = Deleted(d)]
DealsWithout(d) ==
    [e \in Deals |-> IF e = d THEN Deleted(d)
                     ELSE [deal[e] EXCEPT !.link = IF @ = d THEN NoDeal ELSE @]]

\* One transaction.  A row written during it that fails a foreign key, and any
\* other error, undo all of it.
DeleteCommit(r) ==
    LET d == request[r].deal
        gone(x) == IF x \in request[r].failed THEN Cancelled(group[d][x]) ELSE group[d][x]
        stops(k) == IF k \in request[r].tried THEN Cancelled(imports[k].job) ELSE imports[k].job
    IN
    /\ At(r, "commit", {"delete"})
    /\ IF request[r].blocked \/ ~ Exists(d) \/ ForeignKeyFails(r) THEN UNCHANGED <<rows, group, imports>>
       ELSE /\ deal' = DealsWithout(d)
            /\ contract' = [k \in Analysts |-> IF contract[k].deal = d
                               THEN [contract[k] EXCEPT !.deal = NoDeal] ELSE contract[k]]
            /\ edms' = edms \ {d}
            /\ Move(d, [group[d] EXCEPT !.row = "absent", !.job = gone("job"), !.finalize = gone("finalize")])
            /\ imports' = [k \in Requests |-> IF imports[k].deal = d
                              THEN [imports[k] EXCEPT !.row = "absent", !.job = stops(k)] ELSE imports[k]]
    /\ End(r) /\ UNCHANGED <<export, during, spent>>

\* The request is lost; a transaction it had open is undone.
RequestLost(r) ==
    /\ request[r].at \notin {"idle", "done"}
    /\ End(r) /\ UNCHANGED <<rows, group, export, imports, during, spent>>

EditStep(r) ==
    \/ Update(r) \/ Reassign(r) \/ SetStatus(r) \/ Create(r) \/ Attach(r) \/ Detach(r)
    \/ AddContract(r) \/ UpdateContract(r) \/ SetContractStatus(r) \/ RemoveContract(r)
ImportStep(r) ==
    \/ InsertImport(r) \/ EnqueueImport(r) \/ FinalizeImport(r) \/ RestartImport(r)
DeleteStep(r) ==
    \/ ReadIds(r) \/ ReadJobs(r) \/ ReadIrpJobs(r) \/ ReadExports(r) \/ DeleteCommit(r)
GroupStep(d) ==
    \/ ClaimGroup(d) \/ Look(d) \/ InsertMembers(d) \/ Submit(d) \/ Record(d) \/ Poll(d)
    \/ Finalize(d) \/ Crash(d) \/ Resubmit(d) \/ SettleExport(d)

Next ==
    \/ \E r \in Requests :
           \/ Ask(r) \/ Gate(r) \/ EditStep(r) \/ RequestGroup(r) \/ RequestExport(r)
           \/ ImportStep(r) \/ DeleteStep(r) \/ RequestLost(r)
    \/ \E d \in Deals : GroupStep(d)

Spec == Init /\ [][Next]_vars

-----------------------------------------------------------------------------
(* Safety *)

\* The tables are well typed and their references resolve: no link, contract,
\* attachment or group row names a submission that is gone.
TypeOK ==
    /\ deal \in [Deals -> Deal] /\ contract \in [Analysts -> Contract]
    /\ group \in [Deals -> Group] /\ export \in [Deals -> {"absent", "open", "settled"}]
    /\ imports \in [Requests -> Import]
    /\ \A r \in Requests : imports[r].row # "absent" => imports[r].deal \in Deals /\ Exists(imports[r].deal)
    /\ during \in [Deals -> SUBSET Work]
    /\ \A d \in Deals : Resolves(deal[d].link) /\ (group[d].row # "absent" => Exists(d))
    /\ \A k \in Analysts : Resolves(contract[k].deal)
    /\ edms \subseteq Deals /\ \A d \in edms : Exists(d)

\* What an edit replaces is what its page showed; a link cleared by a deletion
\* does not move updated_at.
DealWasShown(r) ==
    LET q == request[r] was == deal[q.deal] IN
    /\ <<was.text, was.owner, was.status>> = <<q.shown.text, q.shown.owner, q.shown.status>>
    /\ was.link \in {q.shown.link, NoDeal}
    /\ q.kind # "status" => was.status = "ACTIVE"
WriteReplacesWhatItShowed(r) ==
    LET q == request[r] IN
    q.at = "write" /\ request'[r].at = "done" =>
        /\ q.kind \in {"edit", "owner", "status"} /\ deal'[q.deal] # deal[q.deal] => DealWasShown(r)
        /\ q.kind \in {"change", "mark"} /\ contract'[q.k] # contract[q.k] => contract[q.k] = q.terms

\* Nothing is saved over what its analyst did not see: the fields, the owner
\* and the status an edit replaces are those its page showed, a deal that is
\* not Active is changed by a status alone, and the same goes for a contract's
\* terms.
EditsReplaceWhatTheyShowed == [][\A r \in Requests : WriteReplacesWhatItShowed(r)]_vars

\* Work that outlives its submission began while the deletion was reading: a
\* request, an import's finalize job, a resubmission, or the hand-over of a
\* finished Risk Modeler job from irp_job to rwb_job between the two reads.  A
\* group goes to Risk Modeler for a deleted submission only after such a
\* resubmission: a new request's row makes the deletion fail, or its own insert
\* fail.
WorkOutlivesOnlyByRace ==
    \A d \in Deals : deal[d].status = "deleted" =>
        /\ group[d].job \in Live => during[d] \cap {"requested", "resubmitted"} # {}
        /\ group[d].finalize \in Live => during[d] \cap {"handed over", "resubmitted"} # {}
        /\ ImportsWith(d, Live) # {} => during[d] \cap {"imported", "resubmitted"} # {}
        /\ export[d] = "open" => "exported" \in during[d]
        /\ group[d].irp = "running" \/ group[d].at = "record" => "resubmitted" \in during[d]
=============================================================================
