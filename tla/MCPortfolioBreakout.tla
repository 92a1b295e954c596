------------------------ MODULE MCPortfolioBreakout ------------------------
EXTENDS PortfolioBreakout, TLC

\* Threads, requests, names and groups are interchangeable.
Alike == Permutations(Threads) \cup Permutations(Requests)
         \cup Permutations(Names) \cup Permutations(Groups)
=============================================================================
