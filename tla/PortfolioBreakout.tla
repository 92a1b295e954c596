------------------------- MODULE PortfolioBreakout -------------------------
(***************************************************************************)
(* The portfolios of one EDM as Risk Modeler holds them and as the         *)
(* Workbench shows them: the sync that stores the snapshot rows            *)
(* (entity_jobs, portfolio_service, _common), the breakout of one source   *)
(* portfolio into sub-portfolios (breakout_service, portfolio_jobs), and   *)
(* the hazard lookup that moves the source's stampDate (geohaz_service,    *)
(* geohaz_jobs), all three meeting in refresh_portfolios.                  *)
(*                                                                         *)
(* A dimension of the summary is the set of its values.  A key is a value  *)
(* of a dimension or the member set of a custom group; it stands for the   *)
(* accounts the selection read resolves it to.                             *)
(***************************************************************************)
EXTENDS Naturals, Sequences, FiniteSets

CONSTANTS Dims,     \* dimensions with two values or more
          Groups,   \* member sets an analyst may put in a cart
          Names,    \* portfolio names, up to letter case
          Threads, Requests,
          None,     \* no key, no name, no job
          MaxFaults,  \* bound: threads lost, jobs taken from live threads,
                      \* calls that fail, creations that answer nothing
          MaxChanges, \* bound: what analysts change in Risk Modeler
          MaxLookups  \* bound: hazard lookups that Risk Modeler accepts

VARIABLES rm,       \* Risk Modeler's sub-portfolios, oldest first: id i is rm[i]
          version,  \* stampDate of the source portfolio in Risk Modeler
          lookups,  \* hazard lookups Risk Modeler accepted
          rows,     \* irp_portfolio rows of the EDM, the source's apart
          source,   \* stamp_date and summary of the source's row
          groupName,\* name of each breakout_group row
          heads,    \* status of the rwb_jobs, "none" for no job or a succeeded one
          input,    \* input_data of the others: approved names, portfolios to refresh
          thread, request,
          shown,    \* requests whose modal shows the present summary
          log,      \* history: see Log
          spent

outside == <<rm, version, lookups>>
stored == <<rows, source, groupName>>
queue == <<heads, input>>
vars == <<outside, stored, queue, thread, request, shown, log, spent>>

Keys == Groups \cup UNION Dims

\* A lineage row keeps the dimension beside the value, "custom" for a group:
\* no key is of two dimensions, and none is a group.
ASSUME PortfolioBreakoutAssumption ==
    /\ {MaxFaults, MaxChanges, MaxLookups} \subseteq Nat
    /\ \A d \in Dims : d # {} /\ d \cap Groups = {}
    /\ \A d, e \in Dims : d # e => d \cap e = {}
    /\ None \notin Keys \cup Names \cup Threads

\* _compose_number, _compose_group_number: the value's token, or the name.
Number(k, n) == IF k \in Groups THEN n ELSE k

Quick(d)   == <<"quick", d>>   \* run_breakout_<dimension> of the source
Custom(g)  == <<"custom", g>>  \* run_breakout_custom of the group
Import     == <<"sync", 1>>    \* the poller's backfill_edm_detail
Sync       == <<"sync", 2>>    \* the analyst's
Lookup     == <<"lookup", 0>>  \* run_geohaz of the source
Refresh(h) == <<"refresh", h>> \* refresh_portfolios after that breakout
After(j)   == <<"after", j>>   \* refresh_portfolios after that lookup

Breakouts == {Quick(d) : d \in Dims} \cup {Custom(g) : g \in Groups}
Refreshes == {Refresh(h) : h \in Breakouts} \cup
             {After(j) : j \in 1..MaxLookups}
Heads == Breakouts \cup Refreshes \cup {Import, Sync, Lookup}

Live    == {i \in DOMAIN rm : rm[i].live}
\* find_portfolio_by_number: every portfolio that carries it.
Numbered(n) == {i \in Live : rm[i].number = n}
LiveRows  == {r \in rows : r.live}
LiveNames == {r.name : r \in LiveRows}
RowOf(i)  == {r \in rows : r.irp = i}
Named(n)  == {r \in LiveRows : r.name = n}
KeyRow(k) == {r \in LiveRows : r.key = k}
Active(h) == heads[h] \in {"pending", "running"}
NoNames == [k \in {} |-> None]
EmptyHand == [at |-> "idle", head |-> None, plan |-> NoNames, todo |-> {}, key |-> None, hit |-> 0,
              done |-> {}, seen |-> {}, stamp |-> 0, summary |-> 0]
NoRequest == [at |-> "idle", what |-> {}, names |-> NoNames, group |-> None, summary |-> 0, read |-> 0]

\* renamed: a plan was armed that gives another name to a value whose
\* sub-portfolio has no row, or that a thread of an earlier plan may yet post.
\* twice: a name was posted that a portfolio had, by itself or by the client's
\* repeat.  hidden: a sync pruned the row of a portfolio that Risk Modeler
\* holds, or of a value it holds one for.  late: a stamp replaced a newer one.
\* pruner: the thread that pruned last.  current: it has also stored all it
\* enumerated, Risk Modeler holds no other portfolios now, and none was
\* stored from an older enumeration since.
Log == [renamed : BOOLEAN, twice : BOOLEAN, hidden : BOOLEAN, late : BOOLEAN,
        current : BOOLEAN, pruner : Threads \cup {None}]
Fault  == spent.faults < MaxFaults /\ spent' = [spent EXCEPT !.faults = @ + 1]
Change == spent.changes < MaxChanges /\ spent' = [spent EXCEPT !.changes = @ + 1]

\* The EDM has been imported; the poller has armed its first sync.
Init ==
    /\ rm = <<>> /\ version = 1 /\ lookups = <<>>
    /\ rows = {} /\ source = [stamp |-> 0, summary |-> 0]
    /\ groupName = [g \in Groups |-> None]
    /\ heads = [h \in Heads |-> IF h = Import THEN "pending" ELSE "none"]
    /\ input = [h \in Heads |-> NoNames]
    /\ thread = [w \in Threads |-> EmptyHand]
    /\ request = [q \in Requests |-> NoRequest] /\ shown = {}
    /\ log = [renamed |-> FALSE, twice |-> FALSE, hidden |-> FALSE,
              late |-> FALSE, current |-> FALSE, pruner |-> None]
    /\ spent = [faults |-> 0, changes |-> 0]

-----------------------------------------------------------------------------
(* The work queue, as RwbQueue shows it *)

\* ensure_pending_rwb_job: a no-op for a job pending or running.
Arm(h, data) == IF Active(h) THEN UNCHANGED queue
                ELSE /\ heads' = [heads EXCEPT ![h] = "pending"]
                     /\ input' = [input EXCEPT ![h] = data]

FirstStep(h) == CASE h \in Breakouts -> "entry" [] h = Lookup -> "submit" [] OTHER -> "list"

\* load_approved_plan, load_approved_group: what was approved, nothing read anew.
Approved(h) == [EmptyHand EXCEPT !.at = FirstStep(h), !.head = h, !.plan = input[h],
                                 !.todo = IF h \in Breakouts THEN DOMAIN input[h] ELSE {}]

Claim(w, h) ==
    /\ thread[w].at = "idle" /\ heads[h] = "pending"
    /\ heads' = [heads EXCEPT ![h] = "running"]
    /\ thread' = [thread EXCEPT ![w] = Approved(h)]
    /\ UNCHANGED <<outside, stored, input, request, shown, log, spent>>

Complete(w) ==
    LET h == thread[w].head IN
    /\ thread[w].at \in {"succeeded", "failed"}
    /\ IF heads[h] # "running" THEN UNCHANGED queue
       ELSE IF thread[w].at = "failed"
         THEN heads' = [heads EXCEPT ![h] = "failed"] /\ UNCHANGED input
         ELSE heads' = [heads EXCEPT ![h] = "none"] /\ input' = [input EXCEPT ![h] = NoNames]
    /\ thread' = [thread EXCEPT ![w] = EmptyHand]
    /\ UNCHANGED <<outside, stored, request, shown, log, spent>>

Reclaim(h) ==
    /\ heads[h] = "running"
    /\ IF \A w \in Threads : thread[w].head # h THEN UNCHANGED spent
       ELSE Fault
    /\ heads' = [heads EXCEPT ![h] = "pending"]
    /\ UNCHANGED <<outside, stored, input, thread, request, shown, log>>

Crash(w) ==
    /\ thread[w].at # "idle"
    /\ Fault
    /\ thread' = [thread EXCEPT ![w] = EmptyHand]
    /\ UNCHANGED <<outside, stored, queue, request, shown, log>>

Go(w, at) == thread' = [thread EXCEPT ![w].at = at]

-----------------------------------------------------------------------------
(* backfill_edm_detail and refresh_portfolios *)

SyncKeeps == UNCHANGED <<outside, groupName, queue, request>>
Fails(w) == Fault /\ thread' = [thread EXCEPT ![w] = [EmptyHand EXCEPT !.at = "failed", !.head = thread[w].head]]
Ends(w, st) == thread' = [thread EXCEPT ![w] = [EmptyHand EXCEPT !.at = st, !.head = thread[w].head]]

\* The enumeration, stampDate included; a failed one fails the job.
List(w) ==
    /\ thread[w].at = "list"
    /\ \/ thread' = [thread EXCEPT ![w].at = "summarise", ![w].seen = Live, ![w].stamp = version]
          /\ UNCHANGED spent
       \/ Fails(w)
    /\ SyncKeeps /\ UNCHANGED <<rows, source, shown, log>>

\* DataBridge.  A sync stores a null summary when the read fails, a refresh fails.
Covered(t) == IF t.head \in {Import, Sync} THEN t.seen \cup {0} ELSE DOMAIN t.plan \cap (t.seen \cup {0})
Summarise(w) ==
    LET h == thread[w].head
        then(s) == thread' = [thread EXCEPT ![w].summary = s, ![w].todo = Covered(thread[w]),
                       ![w].at = IF h \in {Import, Sync} THEN "prune" ELSE "store"]
    IN
    /\ thread[w].at = "summarise"
    /\ \/ then(version) /\ UNCHANGED spent
       \/ IF h \in Refreshes THEN Fails(w) ELSE Fault /\ then(0)
    /\ SyncKeeps /\ UNCHANGED <<rows, source, shown, log>>

SeenNames(seen) == {rm[i].name : i \in seen}

\* Mutant: a dead row stays dead.
PrunedForGood(seen) ==
    {[r EXCEPT !.live = @ /\ (r.irp \in seen \/ r.name \in SeenNames(seen))] : r \in rows}

\* _snapshot_prune: a dead generated row comes back by its id only.
Pruned(seen) == {[r EXCEPT !.live = \/ r.irp \in seen
                                    \/ r.name \in SeenNames(seen) /\ (@ \/ r.key = None)] : r \in rows}

\* uq_irp_portfolio_breakout, over live rows.
OneRowPerKey(rr) == \A r, s \in rr :
    r # s /\ r.live /\ s.live => r.key = None \/ r.key # s.key

Prune(w) ==
    LET after == Pruned(thread[w].seen)
        hides == \E r \in LiveRows : r \notin after /\ (r.irp \in Live \/ Numbered(r.key) # {})
    IN
    /\ thread[w].at = "prune"
    /\ IF OneRowPerKey(after)
         THEN /\ rows' = after /\ Go(w, "store")
              /\ log' = [log EXCEPT !.hidden = @ \/ hides, !.current = FALSE,
                                  !.pruner = w]
         ELSE Ends(w, "failed") /\ UNCHANGED <<rows, log>>
    /\ SyncKeeps /\ UNCHANGED <<source, shown, spent>>

\* _snapshot_upsert: by id, else by live name, else a new row.
Upserted(i) ==
    LET name == rm[i].name IN
    IF RowOf(i) # {} THEN (rows \ RowOf(i)) \cup {[r EXCEPT !.name = name] : r \in RowOf(i)}
    ELSE IF Named(name) # {} THEN (rows \ Named(name)) \cup {[r EXCEPT !.irp = i] : r \in Named(name)}
    ELSE rows \cup {[name |-> name, irp |-> i, key |-> None, live |-> TRUE]}

\* uq_irp_portfolio_edm_irp, over all rows.
OneRowPerId(rr) == \A r, s \in rr : r.irp = s.irp => r = s

\* One portfolio, one transaction; 0 is the source.  A failed read is skipped.
Store(w) ==
    LET t == thread[w]
        i == CHOOSE x \in t.todo : \A y \in t.todo : x <= y
        stored1 == thread' = [thread EXCEPT ![w].todo = @ \ {i}, ![w].done = @ \cup {i}]
    IN
    /\ t.at = "store" /\ t.todo # {}
    /\ \/ /\ i = 0 /\ source' = [stamp |-> t.stamp, summary |-> t.summary] /\ shown' = {}
          /\ log' = [log EXCEPT !.late = @ \/ t.stamp < source.stamp]
          /\ stored1 /\ UNCHANGED <<rows, spent>>
       \/ /\ i # 0 /\ UNCHANGED <<source, shown, spent>>
          /\ IF OneRowPerId(Upserted(i)) THEN rows' = Upserted(i) /\ stored1
             ELSE Ends(w, "failed") /\ UNCHANGED rows
          /\ log' = [log EXCEPT !.current = @ /\ t.seen = Live,
                              !.pruner = IF t.seen = Live THEN @ ELSE None]
       \/ /\ Fault /\ thread' = [thread EXCEPT ![w].todo = @ \ {i}]
          /\ UNCHANGED <<rows, source, shown, log>>
    /\ SyncKeeps

StoredAll(w) == log.pruner = w /\ thread[w].seen = Live /\ Live \subseteq thread[w].done

\* Treaties and the EDM's as_of, which are not shown, may still fail a sync.
StoreDone(w) ==
    LET t == thread[w] IN
    /\ t.at = "store" /\ t.todo = {}
    /\ \/ Ends(w, IF t.done = {} /\ Covered(t) # {} THEN "failed" ELSE "succeeded")
          /\ UNCHANGED spent
       \/ t.head \in {Import, Sync} /\ Fails(w)
    /\ log' = [log EXCEPT !.current = IF t.head \in Refreshes THEN @ ELSE StoredAll(w),
                          !.pruner = IF @ = w THEN None ELSE @]
    /\ SyncKeeps /\ UNCHANGED <<rows, source, shown>>

-----------------------------------------------------------------------------
(* run_breakout_<dimension> and run_breakout_custom *)

EntryKeeps == UNCHANGED <<version, lookups, source, groupName, queue, request, shown>>
Unmoved == UNCHANGED <<rm, rows, log>>

\* The selection read of all the values comes first; a failed one fails the
\* job, another changes nothing that is modelled.
Select(w) ==
    /\ thread[w].at = "entry" /\ thread[w].todo = DOMAIN thread[w].plan
    /\ Fails(w)
    /\ EntryKeeps /\ Unmoved

\* Mutant: what is recorded is created again.
EntryNoSkip(w) ==
    LET k == CHOOSE x \in thread[w].todo : TRUE IN
    /\ thread[w].at = "entry" /\ thread[w].todo # {}
    /\ thread' = [thread EXCEPT ![w].todo = @ \ {k}, ![w].at = "create", ![w].key = k]
    /\ EntryKeeps /\ Unmoved /\ UNCHANGED spent

\* _execute_entry, in the order of the plan: what is recorded is skipped.
Entry(w) ==
    LET k == CHOOSE x \in thread[w].todo : TRUE
        took == [thread[w] EXCEPT !.todo = @ \ {k}]
    IN
    /\ thread[w].at = "entry" /\ thread[w].todo # {}
    /\ thread' = [thread EXCEPT ![w] =
          IF KeyRow(k) # {} THEN [took EXCEPT !.done = @ \cup {r.irp : r \in KeyRow(k)}]
                            ELSE [took EXCEPT !.at = "create", !.key = k]]
    /\ EntryKeeps /\ Unmoved /\ UNCHANGED spent

NextEntry(w, ids) == thread' = [thread EXCEPT ![w].at = "entry", ![w].key = None,
                                              ![w].hit = 0, ![w].done = @ \cup ids]
EntryFails(w) == NextEntry(w, {})

NameTaken(n) == \E i \in Live : rm[i].name = n

\* create_portfolio looks for the name before it posts; one that is found is a
\* duplicate to adopt, whatever its number.  An empty selection fails the
\* entry with no call, as a failed call does.
LookUpName(w) ==
    /\ thread[w].at = "create"
    /\ \/ /\ IF NameTaken(thread[w].plan[thread[w].key]) THEN Go(w, "adopt") ELSE Go(w, "post")
          /\ UNCHANGED spent
       \/ Fault /\ EntryFails(w)
    /\ EntryKeeps /\ Unmoved

\* Risk Modeler itself takes a second portfolio of that name, and the client
\* posts again when an answer was lost.
Create(w) ==
    LET k == thread[w].key  n == thread[w].plan[k]
        new == [name |-> n, number |-> Number(k, n), has |-> {}, live |-> TRUE]
    IN
    /\ thread[w].at = "post"
    /\ \/ /\ rm' = Append(rm, new) /\ UNCHANGED spent
          /\ thread' = [thread EXCEPT ![w].at = "populate", ![w].hit = Len(rm) + 1]
          /\ log' = [log EXCEPT !.current = FALSE, !.twice = @ \/ NameTaken(n)]
       \/ /\ rm' = rm \o <<new, new>> /\ Fault
          /\ thread' = [thread EXCEPT ![w].at = "populate", ![w].hit = Len(rm) + 2]
          /\ log' = [log EXCEPT !.current = FALSE, !.twice = TRUE]
       \/ /\ rm' = Append(rm, new) /\ Fault /\ EntryFails(w)
          /\ log' = [log EXCEPT !.current = FALSE, !.twice = @ \/ NameTaken(n)]
    /\ EntryKeeps /\ UNCHANGED rows

\* Mutant: the existing portfolio is adopted by its name.
AdoptByName(w) ==
    LET n == thread[w].plan[thread[w].key]
        hits == {i \in Live : rm[i].name = n}
    IN
    /\ thread[w].at = "adopt"
    /\ IF Cardinality(hits) = 1
         THEN \E i \in hits : thread' = [thread EXCEPT ![w].at = "populate", ![w].hit = i]
         ELSE EntryFails(w)
    /\ EntryKeeps /\ Unmoved /\ UNCHANGED spent

\* _adopt_entry: by number, and only when it is not ambiguous.
Adopt(w) ==
    LET k == thread[w].key
        hits == Numbered(Number(k, thread[w].plan[k]))
    IN
    /\ thread[w].at = "adopt"
    /\ IF Cardinality(hits) = 1
         THEN \E i \in hits : thread' = [thread EXCEPT ![w].at = "populate", ![w].hit = i]
         ELSE EntryFails(w)
    /\ EntryKeeps /\ Unmoved /\ UNCHANGED spent

\* manage_portfolio_accounts: accounts that are there already do not matter.
Added(i, k) == [rm EXCEPT ![i].has = @ \cup {k}]

\* populate_sub_portfolio: the accounts are added, then counted; a portfolio
\* that holds others too fails the entry.
Populate(w) ==
    LET i == thread[w].hit  k == thread[w].key IN
    /\ thread[w].at = "populate"
    /\ \/ /\ rm[i].live /\ rm' = Added(i, k) /\ UNCHANGED spent
          /\ IF rm[i].has \subseteq {k}
               THEN Go(w, "save")
               ELSE EntryFails(w)
       \/ /\ IF rm[i].live THEN Fault ELSE UNCHANGED spent
          /\ EntryFails(w) /\ UNCHANGED rm
    /\ EntryKeeps /\ UNCHANGED <<rows, log>>

\* _claim_existing, else the insert: none when a live row owns the key.
Saved(k, n, i) ==
    LET new == [name |-> n, irp |-> i, key |-> k, live |-> TRUE]
        dead == {r \in rows : r.key = k /\ ~ r.live}
        claimed == IF RowOf(i) # {} THEN RowOf(i) ELSE dead
    IN  IF RowOf(i) = {} /\ KeyRow(k) # {} THEN {rows}
        ELSE IF claimed = {} THEN {rows \cup {new}}
        ELSE {(rows \ {r}) \cup {new} : r \in claimed}

\* save_generated_portfolio: a row of another key, or a second live row of
\* this one, fails the entry.
Save(w) ==
    LET t == thread[w]
        other == \E r \in RowOf(t.hit) : r.key \notin {None, t.key}
    IN
    /\ t.at = "save"
    /\ \E after \in Saved(t.key, rm[t.hit].name, t.hit) :
        IF ~ other /\ OneRowPerKey(after)
          THEN rows' = after /\ NextEntry(w, {t.hit})
          ELSE EntryFails(w) /\ UNCHANGED rows
    /\ EntryKeeps /\ UNCHANGED <<rm, log, spent>>

\* _complete_breakout: a refresh of what succeeded, then the job ends.
Finish(w) ==
    LET t == thread[w] IN
    /\ t.at = "entry" /\ t.todo = {}
    /\ IF t.done = {} THEN UNCHANGED queue
       ELSE Arm(Refresh(t.head), [i \in t.done |-> None])
    /\ Ends(w, IF t.done = {} THEN "failed" ELSE "succeeded")
    /\ UNCHANGED <<outside, stored, request, shown, log, spent>>

-----------------------------------------------------------------------------
(* run_geohaz, and the poller's terminal handler *)

LookupResults == {"finished", "failed", "cancelled"}
LookupKeeps == UNCHANGED <<rm, stored, request, shown, log>>

\* submit_geohaz: Risk Modeler runs one more lookup; the Workbench has no row of it.
Accepted == Append(lookups, [state |-> "running", tracked |-> FALSE])

SubmitLookup(w) ==
    /\ thread[w].at = "submit"
    /\ \/ /\ Len(lookups) < MaxLookups /\ lookups' = Accepted
          /\ thread' = [thread EXCEPT ![w].at = "record", ![w].hit = Len(lookups) + 1]
          /\ UNCHANGED spent
       \/ Fails(w) /\ UNCHANGED lookups
    /\ LookupKeeps /\ UNCHANGED <<version, queue>>

RecordLookup(w) ==
    /\ thread[w].at = "record" /\ Ends(w, "succeeded") /\ UNCHANGED spent
    /\ lookups' = [lookups EXCEPT ![thread[w].hit].tracked = TRUE]
    /\ LookupKeeps /\ UNCHANGED <<version, queue>>

\* _handle_geohaz_terminal, in the transaction of the status.
Poll(j) ==
    LET l == lookups[j] IN
    /\ l.tracked /\ l.state \in LookupResults
    /\ lookups' = [lookups EXCEPT ![j].state = "polled"]
    /\ IF l.state = "cancelled" THEN UNCHANGED queue ELSE Arm(After(j), [i \in {0} |-> None])
    /\ LookupKeeps /\ UNCHANGED <<version, thread, spent>>

-----------------------------------------------------------------------------
(* Requests of analysts.  One that takes no further step is one whose form  *)
(* was closed or whose web process was lost.                                *)

RequestKeeps == UNCHANGED <<outside, rows, source, thread, spent>>
To(q, at) == request' = [request EXCEPT ![q].at = at]
Drop(q) == request' = [request EXCEPT ![q] = [NoRequest EXCEPT !.at = "done"]]

\* The modal, for a dimension or for a cart of groups.
OpenModal(q) ==
    /\ request[q].at = "idle"
    /\ \E what \in Dims \cup ((SUBSET Groups) \ {{}}) :
           request' = [request EXCEPT ![q] = [NoRequest EXCEPT !.at = "modal", !.what = what]]
    /\ shown' = shown \cup {q}
    /\ UNCHANGED <<outside, stored, queue, thread, log, spent>>

\* evaluate_gate: no sync, no refresh about the source, a summary, and no
\* breakout of this source, quick or custom.
Gate == /\ \A h \in Refreshes \cup {Import, Sync} : ~ Active(h)
        /\ source.summary # 0
        /\ \A h \in Breakouts : ~ Active(h)

\* _confirm_preconditions up to the freshness read.
Confirm(q) ==
    /\ request[q].at = "modal"
    /\ IF Gate /\ q \in shown
         THEN request' = [request EXCEPT ![q].at = "fresh", ![q].summary = source.summary,
                                         ![q].read = source.stamp]
         ELSE Drop(q)
    /\ shown' = shown \ {q}
    /\ RequestKeeps /\ UNCHANGED <<groupName, queue, log>>

\* Values already created keep a composed name: it avoids the live names and
\* each other, not the names the analyst gave the rest.
QuickNames(d) ==
    {f \in [d -> Names \ LiveNames] :
        LET new == {k \in d : KeyRow(k) = {}} IN
        \A j, k \in d : j # k /\ (j \in new <=> k \in new) => f[j] # f[k]}

\* Mutant: a group without a name is not refused.
CartNamesUnnamed(gs) ==
    {f \in [gs -> Names \cup {None}] : \A n \in Names :
        LET strangers == {g \in gs : f[g] = n /\ groupName[g] # n} IN
        /\ Cardinality(strangers) <= 1
        /\ n \in LiveNames => strangers = {}}

\* compose_group_cart, in some order of the cart: a name no live portfolio and
\* no earlier row has, the group's own stored name excepted.
CartNames(gs) ==
    {f \in [gs -> Names] : \A n \in Names :
        LET strangers == {g \in gs : f[g] = n /\ groupName[g] # n} IN
        /\ Cardinality(strangers) <= 1
        /\ n \in LiveNames => strangers = {}}

\* _verify_freshness: the stored stamp must be Risk Modeler's; then the names.
Compose(q) ==
    LET what == request[q].what IN
    /\ request[q].at = "fresh"
    /\ \/ request[q].read # version /\ Drop(q)
       \/ /\ request[q].read = version /\ what \in Dims
          /\ \E f \in QuickNames(what) : request' = [request EXCEPT ![q].at = "arm", ![q].names = f]
       \/ /\ request[q].read = version /\ what \subseteq Groups
          /\ \E f \in CartNames(what) : request' = [request EXCEPT ![q].at = "stamp", ![q].names = f]
    /\ RequestKeeps /\ UNCHANGED <<shown, groupName, queue, log>>

\* _upsert_group_row, then the group's job; group after group.
StampGroup(q) ==
    LET r == request[q] IN
    /\ r.at = "stamp"
    /\ IF r.what = {} THEN Drop(q) /\ UNCHANGED groupName
       ELSE \E g \in r.what :
              /\ groupName' = [groupName EXCEPT ![g] = r.names[g]]
              /\ request' = [request EXCEPT ![q].at = "arm", ![q].group = g]
    /\ RequestKeeps /\ UNCHANGED <<shown, queue, log>>

Renames(d, names) ==
    \/ \E k \in d : KeyRow(k) = {} /\ \E i \in Numbered(k) : rm[i].name # names[k]
    \/ \E w \in Threads : /\ thread[w].head = Quick(d) /\ thread[w].plan # names
                          /\ thread[w].at \in {"create", "post"} \/ thread[w].todo # {}

ArmBreakout(q) ==
    LET r == request[q] IN
    /\ r.at = "arm"
    /\ IF r.what \in Dims
         THEN /\ Arm(Quick(r.what), r.names) /\ Drop(q)
              /\ log' = [log EXCEPT !.renamed = @ \/ (~ Active(Quick(r.what)) /\ Renames(r.what, r.names))]
         ELSE /\ Arm(Custom(r.group), [k \in {r.group} |-> r.names[k]]) /\ UNCHANGED log
              /\ request' = [request EXCEPT ![q].at = "stamp", ![q].what = @ \ {r.group}]
    /\ RequestKeeps /\ UNCHANGED <<shown, groupName>>

\* sync_detail reads the newest backfill, launch the lookups of the portfolio;
\* resubmit_rwb_job revives a failed job with the input it has.
Ask(q) ==
    /\ request[q].at = "idle"
    /\ \/ ~ Active(Import) /\ ~ Active(Sync) /\ Arm(Sync, NoNames) /\ Drop(q)
       \/ /\ ~ Active(Lookup) /\ \A j \in DOMAIN lookups : lookups[j].tracked => lookups[j].state = "polled"
          /\ To(q, "arm lookup") /\ UNCHANGED queue
       \/ \E h \in Heads : heads[h] = "failed" /\ Arm(h, input[h]) /\ Drop(q)
    /\ RequestKeeps /\ UNCHANGED <<shown, groupName, log>>

ArmLookup(q) ==
    /\ request[q].at = "arm lookup"
    /\ Arm(Lookup, NoNames) /\ Drop(q)
    /\ RequestKeeps /\ UNCHANGED <<shown, groupName, log>>

-----------------------------------------------------------------------------
(* Risk Modeler, and the analysts who use it *)

Elsewhere == UNCHANGED <<stored, queue, thread, request, shown>>

\* An analyst's change of the source moves its stampDate as a lookup does.
LookupEnds(j) ==
    /\ lookups[j].state = "running"
    /\ \/ \E st \in {"finished", "failed"} :
             /\ lookups' = [lookups EXCEPT ![j].state = st]
             /\ version' = version + 1
       \/ lookups' = [lookups EXCEPT ![j].state = "cancelled"] /\ UNCHANGED version
    /\ Elsewhere /\ UNCHANGED <<rm, log, spent>>

DeletePortfolio(i) ==
    /\ i \in Live /\ Change
    /\ rm' = [rm EXCEPT ![i].live = FALSE] /\ log' = [log EXCEPT !.current = FALSE]
    /\ Elsewhere /\ UNCHANGED <<version, lookups>>

-----------------------------------------------------------------------------
SyncStep(w) == List(w) \/ Summarise(w) \/ Prune(w) \/ Store(w) \/ StoreDone(w)
BreakoutStep(w) == Select(w) \/ Entry(w) \/ LookUpName(w) \/ Create(w) \/ Adopt(w) \/ Populate(w) \/ Save(w) \/ Finish(w)
LookupStep(w) == SubmitLookup(w) \/ RecordLookup(w)
RequestStep(q) == \/ OpenModal(q) \/ Confirm(q) \/ Compose(q) \/ StampGroup(q)
                  \/ ArmBreakout(q) \/ Ask(q) \/ ArmLookup(q)

Next ==
    \/ \E w \in Threads : \/ \E h \in Heads : Claim(w, h)
                          \/ SyncStep(w) \/ BreakoutStep(w) \/ LookupStep(w)
                          \/ Complete(w) \/ Crash(w)
    \/ \E h \in Heads : Reclaim(h)
    \/ \E q \in Requests : RequestStep(q)
    \/ \E j \in DOMAIN lookups : Poll(j) \/ LookupEnds(j)
    \/ \E i \in DOMAIN rm : DeletePortfolio(i)

Spec == Init /\ [][Next]_vars

-----------------------------------------------------------------------------
(* Properties *)

ThreadAt == {"idle", "list", "summarise", "prune", "store", "entry", "create", "post",
             "adopt", "populate", "save", "submit", "record", "succeeded", "failed"}
RequestAt == {"idle", "modal", "fresh", "arm", "stamp", "arm lookup", "done"}
Plans == UNION {[ks -> Names] : ks \in Dims \cup SUBSET Groups}

(* Every variable keeps its type, and the two unique indexes of             *)
(* irp_portfolio hold whatever order syncs and breakouts write it in.       *)
TypeOK ==
    /\ rm \in Seq([name : Names, number : Keys \cup Names, has : SUBSET Keys, live : BOOLEAN])
    /\ version \in Nat
    /\ lookups \in Seq([state : {"running", "polled"} \cup LookupResults, tracked : BOOLEAN])
    /\ rows \subseteq [name : Names, irp : DOMAIN rm, key : Keys \cup {None}, live : BOOLEAN]
    /\ OneRowPerId(rows) /\ OneRowPerKey(rows)
    /\ source \in [stamp : Nat, summary : Nat]
    /\ groupName \in [Groups -> Names \cup {None}]
    /\ heads \in [Heads -> {"none", "pending", "running", "failed"}]
    /\ \A h \in Breakouts : input[h] \in Plans
    /\ \A h \in Refreshes : DOMAIN input[h] \subseteq {0} \cup DOMAIN rm
    /\ thread \in [Threads -> [at : ThreadAt, head : Heads \cup {None}, plan : Plans \cup {[i \in is |-> None] : is \in SUBSET (0..Len(rm))}, todo : SUBSET (Keys \cup Nat),
                     key : Keys \cup {None}, hit : Nat, done : SUBSET Nat, seen : SUBSET Nat,
                     stamp : Nat, summary : Nat]]
    /\ \A q \in Requests : request[q].at \in RequestAt /\ request[q].names \in Plans
    /\ shown \subseteq Requests /\ log \in Log

(* The accounts of two breakouts never meet in one sub-portfolio, whatever   *)
(* names were taken when each was created.  Of two groups it need not hold:  *)
(* their names are their numbers too, and the name a group has stored is     *)
(* exempt from the checks of a cart, whoever else carries it.  Nor of a      *)
(* group that an analyst names by the number of a value.                     *)
AccountsKeptApart ==
    \A i \in DOMAIN rm : \A j, k \in rm[i].has :
        j # k => /\ rm[i].number \in Names
                 /\ {j, k} \subseteq Groups \cup {rm[i].number}

(* Risk Modeler holds one sub-portfolio for a value of the source, however  *)
(* often the job was run, failed, was taken over or requested again.  A     *)
(* second one takes an analyst who names the value anew while the first     *)
(* has no row or an overtaken thread may still post, a row that a sync hid, *)
(* two threads of one job both between the look for the name and the post,  *)
(* or an answer lost between the client and Risk Modeler.                   *)
OnePortfolioPerValue ==
    ~ log.renamed /\ ~ log.hidden /\ ~ log.twice =>
        \A k \in (UNION Dims) \ Names : \A i, j \in Numbered(k) : i = j

Quiet == /\ \A h \in Heads : heads[h] \notin {"pending", "running", "failed"}
         /\ \A w \in Threads : thread[w].at = "idle"
         /\ \A j \in DOMAIN lookups : lookups[j].tracked /\ lookups[j].state = "polled"

(* Once the last sync has stored all it saw, every portfolio Risk Modeler   *)
(* holds has a live row again, whatever the syncs and breakouts before it   *)
(* pruned, resurrected, adopted or reclaimed.  Rows are matched by name too: *)
(* of two portfolios of one name only one has a row.  And a hazard lookup,  *)
(* finished or failed, does not leave the source stale, which would refuse  *)
(* every later breakout of it: unless its record was lost or a read failed, *)
(* its refresh stores the new stamp.                                        *)
SyncHeals ==
    /\ log.current /\ ~ log.twice => \A i \in Live : RowOf(i) \cap LiveRows # {}
    /\ Quiet /\ ~ log.late /\ source.stamp # 0 => source.stamp = version

=============================================================================
