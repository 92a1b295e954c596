--------------------------- MODULE MCEntityImport ---------------------------
(* Instances of EntityImport for TLC. *)
EXTENDS EntityImport, TLC

\* Threads, and the requests but the first, are interchangeable.
Alike == Permutations(Threads) \cup Permutations(Requests \ {First})
=============================================================================
