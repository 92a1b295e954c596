--------------------------- MODULE MCResultsExport ---------------------------
(* TLC instances of ResultsExport: threads and analysts are interchangeable. *)
EXTENDS ResultsExport, TLC

MCSymmetry == Permutations(Workers) \cup Permutations(Analysts)

=============================================================================
