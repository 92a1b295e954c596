------------------------ MODULE MCRiskModelerClient ------------------------
(* Two threads that look for one name, one of them also submitting and     *)
(* waiting; a thread that polls batches; one that holds an API key; one    *)
(* that searches, before each kind of server and two, four or five rows.   *)
EXTENDS RiskModelerClient, TLC

CONSTANTS t1, t2

Process(m, one, two, s, n) ==
    [mode |-> m, does |-> (t1 :> one @@ t2 :> two), server |-> s, lists |-> [i \in 1..n |-> i]]

AnyProcess == {Process("bearer", {"named", "execute"}, {"named"}, "records", 0),
               Process("bearer", Paged \cup {"each"}, {}, "records", 0),
               Process("apikey", {"named", "execute", "workflows"}, {}, "records", 0)}
              \cup {Process("bearer", {"search"}, {}, s, n) :
                       s \in {"records", "pages", "clamps", "stuck", "ignores"}, n \in {2, 4, 5}}

=============================================================================
