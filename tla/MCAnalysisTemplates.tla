------------------------ MODULE MCAnalysisTemplates -------------------------
(* Instances of AnalysisTemplates for TLC. *)
EXTENDS AnalysisTemplates, TLC

CONSTANTS p1, p2, e1, e2, a1, a2

\* p1 is DLM and fits e1; it may go, p2 may come back as DLM, e1 may go.
Pairs == {<<p1, e1>>, <<p2, e2>>}
Full == [kind |-> (p1 :> "DLM" @@ p2 :> "HD"), schemes |-> {e1}]
Listed == {Full, [Full EXCEPT !.kind[p1] = "absent"], [Full EXCEPT !.kind[p2] = "DLM"],
           [Full EXCEPT !.schemes = {}]}
Posted == {[profile |-> p1, scheme |-> e1], [profile |-> p2, scheme |-> None]}

Alike == Permutations({a1, a2})

\* Races are between two: a third party waits, and none starts what the bound on
\* commits would not let it finish.  Risk Modeler's catalogue and the
\* sync change under one administrator and the first commit.
Working(S, at) == Cardinality({x \in S : at[x].at \notin {"idle", "queued", "refused", "failed"}})
Scenarios ==
    /\ Working(Admins, admin) + Working(Requests, execution) + Working({1}, <<sync>>) <= 2
    /\ clock = MaxWrites => Working(Admins, admin) = 0
    /\ used.changes + used.syncs = 0 => rm = Full
    /\ used.changes + used.syncs > 0 => clock <= 3 /\ Working(Admins, admin) <= 1
=============================================================================
