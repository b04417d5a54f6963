----------------------------- MODULE MCMpiTeams -----------------------------
\* MpiTeams on a few teams.
EXTENDS MpiTeams, TLC

\* The teams other than 0 are interchangeable.
Alike == Permutations(Teams \ {Team0})
=============================================================================
