------------------------- MODULE MCAnalysisGrouping -------------------------
(* Instances of AnalysisGrouping for TLC. *)
EXTENDS AnalysisGrouping, TLC

CONSTANTS a1, a2, k1, k2

Elt(k, s) == [framework |-> "ELT", key |-> k, scheme |-> s, pet |-> 0, periods |-> 0, contract |-> FALSE]
Plt(k, p) == [framework |-> "PLT", key |-> k, scheme |-> 0, pet |-> p, periods |-> p, contract |-> FALSE]

\* Nothing to choose, nothing that changes.
PlainWorld ==
    [found |-> {a1, a2}, dlm |-> {a1, a2}, terms |-> 0, rows |-> [a \in Analyses |-> {Elt(k1, 1)}],
     active |-> [k \in Keys |-> {}], versioned |-> [k \in Keys |-> {}], sets |-> [k \in Keys |-> {}]]
OneWorld == {PlainWorld}
OneEach == [q \in Requests |-> q]

\* Threads are interchangeable, and so are requests of different submissions.
Alike == Permutations(Threads) \cup Permutations(Requests)

\* What a row may lack, against three rows of the other analysis; then what Risk
\* Modeler offers for members that conflict, for members it converts, or both.
RowsOf(k) == {Elt(k, s) : s \in 0..2} \cup {Plt(k, p) : p \in {0, 8}}
SomeRows == RowsOf(k1) \cup RowsOf(k2)
            \cup {Elt(NoKey, 1), [Elt(k1, 1) EXCEPT !.framework = "none"],
                  [Plt(k1, 8) EXCEPT !.contract = TRUE], [Plt(k1, 8) EXCEPT !.periods = 0]}
Set(n) == {[id |-> 4, periods |-> n], [id |-> 6, periods |-> 6]}
Of(r1, r2, d, o, t) ==
    [PlainWorld EXCEPT !.rows = (a1 :> r1 @@ a2 :> r2), !.dlm = d, !.sets = [k \in Keys |-> t],
                       !.active = [k \in Keys |-> o], !.versioned = [k \in Keys |-> o \ {3}]]
ManyWorlds ==
    {[PlainWorld EXCEPT !.found = {a1}], [PlainWorld EXCEPT !.terms = 1],
     Of({}, {Elt(k1, 1)}, {}, {}, {})}
    \cup {Of({x}, {y}, {}, {2, 3}, Set(5)) : x \in SomeRows,
                                             y \in {Elt(k1, 1), Plt(k1, 8), Plt(k2, 9)}}
    \cup {Of(x, {Elt(k1, 2)}, d, o, t) :
             x \in {{Elt(k1, 1)}, {Elt(k1, 1), Plt(k2, 9)}, {Elt(k2, 1), Plt(k1, 9)}},
             d \in {{a1}, {a1, a2}}, o \in {{}, {3}, {2, 3}}, t \in {{}, Set(5), Set(7)}}
=============================================================================
