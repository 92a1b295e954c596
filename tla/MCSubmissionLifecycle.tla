----------------------- MODULE MCSubmissionLifecycle -----------------------
(* Instances of SubmissionLifecycle for TLC. *)
EXTENDS SubmissionLifecycle, TLC

\* Requests are interchangeable, and so are CRM IDs.
Alike == Permutations(Requests) \cup Permutations(CrmIds)
=============================================================================
