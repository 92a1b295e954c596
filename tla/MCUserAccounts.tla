--------------------------- MODULE MCUserAccounts ---------------------------
EXTENDS UserAccounts, TLC

CONSTANTS a, b, x, y

\* One identity under either email, and a second one under the second email.
MCClaims == {<<x, a>>, <<x, b>>, <<y, b>>}

Symmetry == Permutations(Sessions) \cup Permutations(Requests)

=============================================================================
