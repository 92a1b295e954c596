----------------------------- MODULE MCRwbQueue -----------------------------
(* Instances of RwbQueue for TLC. *)
EXTENDS RwbQueue, TLC

(* Jobs, threads and requests are interchangeable in the safety runs. *)
MCSymmetry == Permutations(Jobs) \cup Permutations(Workers) \cup Permutations(Analysts)
=============================================================================
