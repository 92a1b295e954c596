------------------------ MODULE MCAnalysisExecution ------------------------
(* AnalysisExecution on small instances. *)
EXTENDS AnalysisExecution, TLC

\* Threads and requests are interchangeable.
MCSymmetry == Permutations(Workers) \cup Permutations(Deleters)

=============================================================================
