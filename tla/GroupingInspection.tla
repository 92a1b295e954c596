------------------------- MODULE GroupingInspection -------------------------
(***************************************************************************)
(* What the grouping package decides (irp_integration/grouping.py): the    *)
(* inspection of the member analyses, the choices it offers, the check of  *)
(* the caller's choices, and the request body.                             *)
(*                                                                         *)
(* A partition key stands for peril, region and model version together.    *)
(* Zero stands for an id or a count that Risk Modeler did not return.      *)
(***************************************************************************)
EXTENDS Naturals, FiniteSets

CONSTANTS Keys,    \* partitions
          NoKey    \* a region row whose engine, region or peril maps to none

\* A region row of an analysis, the analysis's own scheme already filled in.
Row == [framework : {"ELT", "PLT", "none"}, key : Keys \cup {NoKey}, scheme : Nat,
        pet : Nat, periods : Nat, contract : BOOLEAN]

\* What Risk Modeler answers at one moment, of the analyses A:
\*   found    the analyses that exist          dlm    those DLM ran
\*   rows     the region rows of each          terms  of their treaties
\*   active   schemes per partition            versioned  those of its version
\*   sets     simulation sets per partition, [id, periods]
World(A) == [found : SUBSET A, dlm : SUBSET A, rows : [A -> SUBSET Row], terms : Nat,
             active : [Keys -> SUBSET Nat], versioned : [Keys -> SUBSET Nat],
             sets : [Keys -> SUBSET [id : Nat, periods : Nat]]]

\* Only positive scheme ids are read, and those of a version among the others.
PossibleWorld(s, A) ==
    /\ s \in World(A)
    /\ \A a \in A : IsFiniteSet(s.rows[a])
    /\ \A k \in Keys : s.versioned[k] \subseteq s.active[k] /\ 0 \notin s.active[k]

-----------------------------------------------------------------------------
(* _region_facts *)

\* Mutant: an ELT row without a scheme is no problem.
RowProblemsNoScheme(r) ==
    {c \in {"framework", "pet", "periods", "contract", "key"} :
        \/ c = "framework" /\ r.framework = "none"
        \/ c = "key"       /\ r.framework # "none" /\ r.key = NoKey
        \/ r.framework = "PLT" /\ \/ c = "pet"      /\ r.pet = 0
                                  \/ c = "periods"  /\ r.periods = 0
                                  \/ c = "contract" /\ r.contract}

RowProblems(r) ==
    {c \in {"framework", "pet", "periods", "contract", "key", "scheme"} :
        \/ c = "framework" /\ r.framework = "none"
        \/ c = "key"       /\ r.framework # "none" /\ r.key = NoKey
        \/ c = "scheme"    /\ r.framework = "ELT"  /\ r.key # NoKey /\ r.scheme = 0
        \/ r.framework = "PLT" /\ \/ c = "pet"      /\ r.pet = 0
                                  \/ c = "periods"  /\ r.periods = 0
                                  \/ c = "contract" /\ r.contract}

\* A fact keeps a scheme under ELT, a PET and its periods under PLT.
Fact(r) == IF r.framework = "ELT" THEN [r EXCEPT !.pet = 0, !.periods = 0]
                                  ELSE [r EXCEPT !.scheme = 0]

Facts(w, a) == IF a \notin w.found THEN {}
               ELSE {Fact(r) : r \in {x \in w.rows[a] : x.framework # "none" /\ x.key # NoKey}}

-----------------------------------------------------------------------------
(* _inspect of the analyses A *)

AllFacts(w, A) == UNION {Facts(w, a) : a \in A}
SimulateToPLT(w, A) == \E f \in AllFacts(w, A) : f.framework = "PLT"

MembersOf(w, A, k) == {a \in A : \E f \in Facts(w, a) : f.key = k}
EltMembers(w, A, k) == {a \in A : \E f \in Facts(w, a) : f.key = k /\ f.framework = "ELT"}
Observed(w, A, k) == {f.scheme : f \in {x \in AllFacts(w, A) : x.key = k}} \ {0}

\* A conflicting partition is offered what Risk Modeler applies to it.
Offered(w, A, k) ==
    IF Cardinality(Observed(w, A, k)) <= 1 THEN Observed(w, A, k)
    ELSE IF EltMembers(w, A, k) \subseteq w.dlm THEN w.versioned[k] ELSE w.active[k]

OfferedSets(w, A, k) ==
    IF SimulateToPLT(w, A) /\ EltMembers(w, A, k) # {}
      THEN {s \in w.sets[k] : s.id > 0 /\ s.periods > 0} ELSE {}

Partition(w, A, k) ==
    [members     |-> MembersOf(w, A, k),
     schemes     |-> Offered(w, A, k),
     conflicting |-> Cardinality(Observed(w, A, k)) > 1,
     pets        |-> {f.pet : f \in {x \in AllFacts(w, A) : x.key = k}} \ {0},
     sets        |-> OfferedSets(w, A, k)]

Problems(w, A) ==
    {<<"not found", a>> : a \in A \ w.found}
    \cup {<<"no regions", a>> : a \in {x \in A \cap w.found : w.rows[x] = {}}}
    \cup (UNION {{<<c, a>> : c \in UNION {RowProblems(r) : r \in w.rows[a]}} : a \in A \cap w.found})
    \cup {<<"no scheme", k>> : k \in {x \in Keys : /\ Cardinality(Observed(w, A, x)) > 1
                                                   /\ Offered(w, A, x) = {}}}
    \cup {<<"no set", k>> : k \in {x \in Keys : /\ SimulateToPLT(w, A)
                                                /\ EltMembers(w, A, x) # {}
                                                /\ OfferedSets(w, A, x) = {}}}

\* Treaties that disagree are shown, and never stop a group.
Inspect(w, A) ==
    [facts      |-> [a \in A |-> Facts(w, a)],
     toPLT      |-> SimulateToPLT(w, A),
     partitions |-> [k \in {x \in Keys : MembersOf(w, A, x) # {}} |-> Partition(w, A, k)],
     problems   |-> Problems(w, A),
     terms      |-> [a \in A \cap w.found |-> w.terms]]

\* _fingerprint: a digest of all of it (labels are not modelled).
Fingerprint(i) == i

-----------------------------------------------------------------------------
(* Choices: functions on sets of partitions *)

SchemeNeeded(i) == {k \in DOMAIN i.partitions : i.partitions[k].conflicting}
SetNeeded(i)    == {k \in DOMAIN i.partitions : i.partitions[k].sets # {}}

\* fixed_simulation_periods: the count of the one PET the partition ran on.
PetPeriods(i, k) == {f.periods : f \in {x \in UNION {i.facts[a] : a \in DOMAIN i.facts} :
                                           x.key = k /\ x.pet # 0}}
PeriodsFixed(i, k) ==
    k \notin SetNeeded(i) /\ Cardinality(PetPeriods(i, k)) = 1 /\ 0 \notin PetPeriods(i, k)
PeriodsAsked(i) == IF i.toPLT THEN {k \in DOMAIN i.partitions : ~ PeriodsFixed(i, k)} ELSE {}

\* What the form can post: one of the offered values, or none, per partition.
FormChoices(i) ==
    {[scheme |-> f, set |-> g] :
        f \in UNION {{h \in [D -> UNION {i.partitions[k].schemes : k \in D}] :
                         \A k \in D : h[k] \in i.partitions[k].schemes} : D \in SUBSET SchemeNeeded(i)},
        g \in UNION {{h \in [D -> UNION {i.partitions[k].sets : k \in D}] :
                         \A k \in D : h[k] \in i.partitions[k].sets} : D \in SUBSET SetNeeded(i)}}

NoChoice == [scheme |-> << >>, set |-> << >>]

\* _resolve_event_rate_selections, _resolve_simulation_set_selections: a choice
\* for every partition that needs one, for no other, and one that was offered.
ChoicesResolve(i, c) ==
    /\ DOMAIN c.scheme = SchemeNeeded(i)
    /\ \A k \in SchemeNeeded(i) : c.scheme[k] \in i.partitions[k].schemes
    /\ DOMAIN c.set = SetNeeded(i)
    /\ \A k \in SetNeeded(i) : c.set[k].id \in {s.id : s \in i.partitions[k].sets}

SchemeFor(i, c, k) == IF Cardinality(i.partitions[k].schemes) = 1
                        THEN CHOOSE s \in i.partitions[k].schemes : TRUE ELSE c.scheme[k]
SetFor(i, c, k) == CHOOSE s \in i.partitions[k].sets : s.id = c.set[k].id

\* _build_region_peril_simulation_set: an entry per region of a member.  The
\* posted period count, 1 here, replaces that of the PET or of the set.
Periods(asked, k, n) == IF k \in asked THEN 1 ELSE n

Entry(i, c, asked, f) ==
    IF f.framework = "PLT"
      THEN [key |-> f.key, scheme |-> 0, set |-> f.pet, periods |-> Periods(asked, f.key, f.periods)]
    ELSE IF i.toPLT
      THEN [key |-> f.key, scheme |-> SchemeFor(i, c, f.key), set |-> SetFor(i, c, f.key).id,
            periods |-> Periods(asked, f.key, SetFor(i, c, f.key).periods)]
    ELSE [key |-> f.key, scheme |-> SchemeFor(i, c, f.key), set |-> 0, periods |-> 0]

Skipped(i, f) == \/ f.framework = "PLT" /\ 0 \in {f.pet, f.periods}
                 \/ f.framework = "ELT" /\ i.partitions[f.key].schemes = {}

RegionMap(i, c, asked) ==
    IF ~ i.toPLT /\ SchemeNeeded(i) = {} THEN {}
    ELSE {Entry(i, c, asked, f) : f \in {x \in UNION {i.facts[a] : a \in DOMAIN i.facts} :
                                            ~ Skipped(i, x)}}

Body(i, c, asked) == [toPLT |-> i.toPLT, regions |-> RegionMap(i, c, asked)]
=============================================================================
