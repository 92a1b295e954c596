------------------------- MODULE AnalysisTemplates --------------------------
(* Analysis templates, template suites, the cached reference data they name, *)
(* and the gate that turns a posted selection into the plan of an execution: *)
(* template_service, the metadata sync worker, analysis_execution_service,   *)
(* and the checks the client makes when it submits an analysis.              *)
(*                                                                           *)
(* A save, a copy or a deletion is one transaction under read committed: its *)
(* checks come a step before its writes, which become visible together, and  *)
(* the unique indexes over live names refuse the loser of a race.  The gate  *)
(* of an execution reads in separate statements with no transaction.         *)
(*                                                                           *)
(* Abstracted: what a profile and a scheme say to "kind" and Fits; output    *)
(* profiles, currencies and vintages, which a sync replaces and a gate looks *)
(* up like profiles; the text of names and tags to numbers and stamps.       *)
EXTENDS Naturals, FiniteSets

CONSTANTS
    Templates, Suites,  \* rows of analysis_template and template_suite
    Profiles, Schemes,  \* model profiles and event rate schemes
    Fits,               \* <<profile, scheme>> of one peril and region
    Catalogues,         \* what Risk Modeler may list
    Drafts,             \* [profile, scheme]: what the template form may post
    Names,              \* names of templates and of suites
    Kept, KeptSuite,    \* a template and a suite saved before
    Admins, Requests, None,
    MaxWrites, MaxChanges, MaxSyncs  \* bounds

Kinds == {"absent", "blank", "DLM", "HD"}
ASSUME CataloguesAssumption ==
    Catalogues \subseteq [kind : [Profiles -> Kinds], schemes : SUBSET Schemes]
ASSUME DraftsAssumption ==
    Drafts \subseteq [profile : Profiles, scheme : Schemes \cup {None}]
ASSUME KeptAssumption == Kept \in Templates

VARIABLES
    rm,        \* Risk Modeler's catalogue
    cache,     \* irp_model_profile and irp_event_rate_scheme
    templates, \* analysis_template with its tags
    suites,    \* template_suite with its items
    clock,     \* counts the commits: rows carry the stamps of theirs
    admin,     \* what each administrator's transaction has read
    sync,      \* the one metadata sync
    execution, \* executions requested
    used       \* how much of the bounds is used
libraryVars == <<rm, cache, templates, suites, clock, admin, sync, execution, used>>

\* "against" is the cache the values were checked against; "read" the time of a
\* transaction's first read, "at" the time of its commit.
NoValues == [draft |-> None, stamp |-> 0, against |-> None]
NoTemplate == [state |-> "unused", name |-> 0, values |-> NoValues, tags |-> 0,
               read |-> 0, at |-> 0]
NoSuite == [state |-> "unused", name |-> 0, items |-> {}, read |-> 0, at |-> 0]
NoForm == [at |-> "idle", row |-> None, name |-> 0, values |-> NoValues, tags |-> 0,
         items |-> {}, read |-> 0]
NoSync == [at |-> "idle", kind |-> [p \in Profiles |-> "absent"]]
NoRequest == [at |-> "idle", suite |-> None, picks |-> {}, since |-> 0,
              values |-> << >>, plan |-> << >>, result |-> << >>]

Live(rows) == {r \in DOMAIN rows : rows[r].state = "live"}
NameTaken(rows, name, self) == \E r \in Live(rows) \ {self} : rows[r].name = name
\* _duplicate_name: some name no live row has.
CopyNames(rows) == {n \in Names : ~ NameTaken(rows, n, None)}

LibraryKeeps == UNCHANGED <<templates, suites, clock>>
CatalogueKeeps == UNCHANGED <<rm, cache, sync>>
OnlyAdmin == LibraryKeeps /\ CatalogueKeeps /\ UNCHANGED <<execution, used>>
Goto(a, rec) == admin' = [admin EXCEPT ![a] = rec]
\* Mutant: the rows are stamped, the clock stands still.
CommitUnstamped(a) == /\ clock < MaxWrites /\ UNCHANGED clock
                      /\ Goto(a, NoForm) /\ CatalogueKeeps /\ UNCHANGED <<execution, used>>
Commit(a) == /\ clock < MaxWrites /\ clock' = clock + 1
             /\ Goto(a, NoForm) /\ CatalogueKeeps /\ UNCHANGED <<execution, used>>

-----------------------------------------------------------------------------
(* What a save accepts *)

\* _reference_rows and the profile checks: the ids resolve, the profile has a
\* software version.
Resolves(d, c) == /\ c.kind[d.profile] \notin {"absent", "blank"}
                  /\ d.scheme # None => d.scheme \in c.schemes

\* validate_event_rate_scheme_settings: DLM needs a scheme, a scheme must match.
SchemeSuits(d, c) == /\ c.kind[d.profile] = "DLM" => d.scheme # None
                     /\ d.scheme # None => <<d.profile, d.scheme>> \in Fits

\* _validate_template.  An administrator may have hidden the scheme: it counts.
Acceptable(d, c) == Resolves(d, c) /\ SchemeSuits(d, c)

LibraryInit ==
    /\ rm \in Catalogues /\ cache = rm
    /\ \E d \in Drafts :
         /\ Acceptable(d, cache)
         /\ templates = [t \in Templates |-> IF t # Kept THEN NoTemplate
                           ELSE [state |-> "live", name |-> 1, tags |-> 1, read |-> 0, at |-> 1,
                                 values |-> [draft |-> d, stamp |-> 1, against |-> cache]]]
    /\ \E i \in SUBSET {Kept} :
         suites = [s \in Suites |-> IF s # KeptSuite THEN NoSuite
                     ELSE [state |-> "live", name |-> 1, items |-> i, read |-> 1, at |-> 2]]
    /\ clock = 2
    /\ admin = [a \in Admins |-> NoForm]
    /\ sync = NoSync
    /\ execution = [q \in Requests |-> NoRequest]
    /\ used = [changes |-> 0, syncs |-> 0]

-----------------------------------------------------------------------------
(* Templates *)

\* save_template, up to its checks: a new row, or row t.
BeginTemplate(a, t, n, d) ==
    /\ admin[a].at = "idle"
    /\ Acceptable(d, cache) /\ ~ NameTaken(templates, n, t)
    /\ Goto(a, [NoForm EXCEPT !.at = "template write", !.row = t, !.name = n, !.read = clock,
                            !.values = [draft |-> d, stamp |-> 0, against |-> cache]])
    /\ OnlyAdmin

\* duplicate_template: the row, then its tags; the values are checked again.
ReadOriginal(a, t) ==
    /\ admin[a].at = "idle" /\ t \in Live(templates)
    /\ Goto(a, [NoForm EXCEPT !.at = "copy tags", !.row = t, !.read = clock,
                            !.values = templates[t].values])
    /\ OnlyAdmin
ReadOriginalTags(a) ==
    /\ admin[a].at = "copy tags"
    /\ \/ \E n \in CopyNames(templates) :
            /\ Acceptable(admin[a].values.draft, cache)
            /\ Goto(a, [admin[a] EXCEPT !.at = "template write", !.row = None, !.name = n,
                                        !.tags = templates[admin[a].row].tags,
                                        !.values.against = cache])
       \/ /\ ~ Acceptable(admin[a].values.draft, cache)
          /\ Goto(a, NoForm)
    /\ OnlyAdmin

\* The insert or update, and _replace_tags.  A copy keeps the stamps it read.
SavedTemplate(a) ==
    LET v == admin[a].values IN
    [state |-> "live", name |-> admin[a].name, read |-> admin[a].read, at |-> clock + 1,
     values |-> IF v.stamp = 0 THEN [v EXCEPT !.stamp = clock + 1] ELSE v,
     tags |-> IF v.stamp = 0 THEN clock + 1 ELSE admin[a].tags]
WriteTemplate(a) ==
    /\ admin[a].at = "template write"
    /\ \E t \in Templates :
         /\ IF admin[a].row = None THEN templates[t].state = "unused"
            ELSE t = admin[a].row /\ t \in Live(templates)
         /\ ~ NameTaken(templates, admin[a].name, t)
         /\ templates' = [templates EXCEPT ![t] = SavedTemplate(a)]
    /\ Commit(a) /\ UNCHANGED suites

\* The row to update is gone, or uq_analysis_template_live_name has the name.
TemplateRefused(a) ==
    /\ admin[a].at = "template write"
    /\ \/ admin[a].row # None /\ admin[a].row \notin Live(templates)
       \/ NameTaken(templates, admin[a].name, admin[a].row)
    /\ Goto(a, NoForm) /\ OnlyAdmin

\* Mutant: deletes whatever the suites hold.
DropAnyway(a, t) ==
    /\ admin[a].at = "idle"
    /\ Goto(a, [NoForm EXCEPT !.at = "drop", !.row = t, !.read = clock])
    /\ OnlyAdmin

\* delete_template: the suites that name it, then the mark.
ReadUsers(a, t) ==
    /\ admin[a].at = "idle"
    /\ ~ \E s \in Live(suites) : t \in suites[s].items
    /\ Goto(a, [NoForm EXCEPT !.at = "drop", !.row = t, !.read = clock])
    /\ OnlyAdmin
DropTemplate(a) ==
    LET t == admin[a].row IN
    /\ admin[a].at = "drop"
    /\ \/ /\ t \in Live(templates)
          /\ templates' = [templates EXCEPT ![t].state = "deleted", ![t].read = admin[a].read,
                                            ![t].at = clock + 1]
          /\ Commit(a) /\ UNCHANGED suites
       \/ /\ t \notin Live(templates)
          /\ Goto(a, NoForm) /\ OnlyAdmin

-----------------------------------------------------------------------------
(* Suites *)

\* save_suite, up to its checks: every item is a live template.
BeginSuite(a, s, n, items) ==
    /\ admin[a].at = "idle"
    /\ items \subseteq Live(templates) /\ ~ NameTaken(suites, n, s)
    /\ Goto(a, [NoForm EXCEPT !.at = "suite write", !.row = s, !.name = n, !.items = items,
                            !.read = clock])
    /\ OnlyAdmin

\* duplicate_suite: the items as they are, which save_suite checks like any.
CopySuite(a, s) ==
    /\ s \in Live(suites)
    /\ \E n \in CopyNames(suites) : BeginSuite(a, None, n, suites[s].items)

WriteSuite(a) ==
    /\ admin[a].at = "suite write"
    /\ \E s \in Suites :
         /\ IF admin[a].row = None THEN suites[s].state = "unused"
            ELSE s = admin[a].row /\ s \in Live(suites)
         /\ ~ NameTaken(suites, admin[a].name, s)
         /\ suites' = [suites EXCEPT ![s] =
                          [state |-> "live", name |-> admin[a].name, items |-> admin[a].items,
                           read |-> admin[a].read, at |-> clock + 1]]
    /\ Commit(a) /\ UNCHANGED templates

SuiteRefused(a) ==
    /\ admin[a].at = "suite write"
    /\ \/ admin[a].row # None /\ admin[a].row \notin Live(suites)
       \/ NameTaken(suites, admin[a].name, admin[a].row)
    /\ Goto(a, NoForm) /\ OnlyAdmin

\* delete_suite: one statement.
DropSuite(a, s) ==
    /\ admin[a].at = "idle" /\ s \in Live(suites)
    /\ suites' = [suites EXCEPT ![s].state = "deleted", ![s].at = clock + 1]
    /\ Commit(a) /\ UNCHANGED templates

-----------------------------------------------------------------------------
(* The metadata sync *)

OnlySync == LibraryKeeps /\ UNCHANGED <<rm, admin, execution>>

\* sync_metadata: one head, never two syncs at once.
RequestSync ==
    /\ sync.at = "idle" /\ used.syncs < MaxSyncs
    /\ sync' = [sync EXCEPT !.at = "profiles"]
    /\ used' = [used EXCEPT !.syncs = @ + 1]
    /\ OnlySync /\ UNCHANGED cache

\* _sync_irp_metadata_body: the lists one after another, any of which may fail,
\* then one transaction that replaces what is cached.
ReadProfiles ==
    /\ sync.at = "profiles"
    /\ sync' = [at |-> "store", kind |-> rm.kind]
    /\ OnlySync /\ UNCHANGED <<cache, used>>
StoreSync ==
    /\ sync.at = "store" /\ sync' = NoSync
    /\ cache' = [kind |-> sync.kind, schemes |-> rm.schemes]
    /\ OnlySync /\ UNCHANGED used
SyncFails ==
    /\ sync.at # "idle" /\ sync' = NoSync
    /\ OnlySync /\ UNCHANGED <<cache, used>>

RmChanges ==
    /\ used.changes < MaxChanges
    /\ used' = [used EXCEPT !.changes = @ + 1]
    /\ rm' \in Catalogues \ {rm}
    /\ LibraryKeeps /\ UNCHANGED <<cache, admin, sync, execution>>

-----------------------------------------------------------------------------
(* Executions *)

OnlyRequest == LibraryKeeps /\ CatalogueKeeps /\ UNCHANGED <<admin, used>>
Ask(q, rec) == execution' = [execution EXCEPT ![q] = rec]

\* The modal lists suites with their items, or templates; some are checked.
OpenModal(q, s, picks) ==
    /\ execution[q].at = "idle" /\ picks # {}
    /\ IF s = None THEN picks \subseteq Live(templates)
       ELSE s \in Live(suites) /\ picks \subseteq suites[s].items
    /\ Ask(q, [execution[q] EXCEPT !.at = "open", !.suite = s, !.picks = picks])
    /\ OnlyRequest

\* _validate, suite by suite: the suite is live and holds what was checked.
CheckSelection(q) ==
    LET s == execution[q].suite
        held == s = None \/ (/\ s \in Live(suites)
                            /\ execution[q].picks \subseteq suites[s].items \cap Live(templates))
    IN
    /\ execution[q].at = "open"
    /\ Ask(q, [execution[q] EXCEPT !.at = IF held THEN "rows" ELSE "refused", !.since = clock])
    /\ OnlyRequest

\* Mutant: rows marked deleted too.
ReadDeletedRows(q) ==
    /\ execution[q].at = "rows"
    /\ Ask(q, [execution[q] EXCEPT !.at = "tags",
                   !.values = [t \in execution[q].picks |->
                                 [values |-> templates[t].values,
                                  kind |-> cache.kind[templates[t].values.draft.profile]]]])
    /\ OnlyRequest

\* _template_rows: the live ones among them, with their profiles' kinds.
ReadRows(q) ==
    /\ execution[q].at = "rows"
    /\ Ask(q, [execution[q] EXCEPT !.at = "tags",
                   !.values = [t \in execution[q].picks \cap Live(templates) |->
                                 [values |-> templates[t].values,
                                  kind |-> cache.kind[templates[t].values.draft.profile]]]])
    /\ OnlyRequest

\* Its second statement, the rest of _validate, _compose_plan and the enqueue.
\* A row that went missing is refused for templates, a KeyError for a suite.
Compose(q) ==
    LET rows == execution[q].values
        gone == execution[q].picks # DOMAIN rows
        end == IF \/ \E t \in DOMAIN rows : rows[t].kind \in {"absent", "blank"}
                  \/ gone /\ execution[q].suite = None
                 THEN "refused" ELSE IF gone THEN "failed" ELSE "queued"
    IN
    /\ execution[q].at = "tags"
    /\ Ask(q, [execution[q] EXCEPT !.at = end, !.values = << >>,
                   !.plan = IF end # "queued" THEN << >>
                            ELSE [t \in DOMAIN rows |->
                                    [values |-> rows[t].values, type |-> rows[t].kind,
                                     tags |-> templates[t].tags]]])
    /\ OnlyRequest

\* submit_portfolio_analysis_job by ids: DLM needs a scheme; Risk Modeler
\* refuses what it no longer lists and a scheme of another peril or region.
Submittable(item) ==
    LET d == item.values.draft IN
    /\ item.type = "DLM" => d.scheme # None
    /\ rm.kind[d.profile] = item.type
    /\ d.scheme # None => d.scheme \in rm.schemes /\ <<d.profile, d.scheme>> \in Fits
Submit(q) ==
    /\ execution[q].at = "queued"
    /\ \E t \in DOMAIN execution[q].plan \ DOMAIN execution[q].result :
         Ask(q, [execution[q] EXCEPT !.result =
                   [u \in DOMAIN @ \cup {t} |->
                      IF u # t THEN @[u]
                      ELSE IF Submittable(execution[q].plan[t]) THEN "accepted" ELSE "refused"]])
    /\ OnlyRequest

-----------------------------------------------------------------------------
TemplateStep(a) ==
    \/ \E t \in Live(templates) \cup {None}, n \in Names, d \in Drafts : BeginTemplate(a, t, n, d)
    \/ \E t \in Templates : ReadOriginal(a, t) \/ ReadUsers(a, t)
    \/ ReadOriginalTags(a) \/ WriteTemplate(a) \/ TemplateRefused(a)
    \/ DropTemplate(a)
SuiteStep(a) ==
    \/ \E s \in Live(suites) \cup {None}, n \in Names, i \in SUBSET Templates : BeginSuite(a, s, n, i)
    \/ \E s \in Suites : CopySuite(a, s) \/ DropSuite(a, s)
    \/ WriteSuite(a) \/ SuiteRefused(a)

LibraryNext ==
    \/ \E a \in Admins : TemplateStep(a) \/ SuiteStep(a)
    \/ RequestSync \/ ReadProfiles \/ StoreSync \/ SyncFails \/ RmChanges
    \/ \E q \in Requests :
         \/ \E s \in Suites \cup {None}, p \in SUBSET Templates : OpenModal(q, s, p)
         \/ CheckSelection(q) \/ ReadRows(q) \/ Compose(q) \/ Submit(q)

LibrarySpec == LibraryInit /\ [][LibraryNext]_libraryVars

-----------------------------------------------------------------------------
(* Properties *)

(* Every variable keeps its type, and no commit is later than the clock.     *)
LibraryTypeOK ==
    /\ rm \in Catalogues
    /\ cache \in [kind : [Profiles -> Kinds], schemes : SUBSET Schemes]
    /\ clock \in Nat
    /\ \A t \in Templates : /\ templates[t].state \in {"unused", "live", "deleted"}
                            /\ templates[t].at \in 0..clock
                            /\ templates[t].state # "unused" => templates[t].values.draft \in Drafts
    /\ \A s \in Suites : /\ suites[s].state \in {"unused", "live", "deleted"}
                         /\ suites[s].items \subseteq Templates /\ suites[s].at \in 0..clock
    /\ \A a \in Admins : admin[a].row \in Templates \cup Suites \cup {None}
    /\ \A q \in Requests : /\ execution[q].picks \subseteq Templates
                           /\ DOMAIN execution[q].plan \subseteq execution[q].picks

(* A template in use is not deleted: a live suite that names a deleted one   *)
(* was saved by a transaction that overlapped the deletion.                  *)
DeletedInSuiteOnlyByOverlap ==
    \A s \in Live(suites) : \A t \in suites[s].items :
        templates[t].state = "deleted" =>
            suites[s].read < templates[t].at /\ templates[t].read < suites[s].at

(* A queued plan has an item for every template that was checked, none of    *)
(* them deleted before the request came in, and never with tags older than   *)
(* its values: rows and tags are two reads, and a save may come between.     *)
PlanIsWhatWasChecked ==
    \A q \in Requests : execution[q].at = "queued" =>
        /\ DOMAIN execution[q].plan = execution[q].picks
        /\ \A t \in execution[q].picks :
             LET item == execution[q].plan[t] IN
             /\ templates[t].state = "deleted" => templates[t].at > execution[q].since
             /\ item.values.stamp <= item.tags

=============================================================================
