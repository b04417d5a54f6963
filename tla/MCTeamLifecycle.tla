-------------------------- MODULE MCTeamLifecycle --------------------------
\* TeamLifecycle on small teams.
EXTENDS TeamLifecycle, TLC

\* The workers other than 0 are interchangeable.
Alike == Permutations(Worker \ {Zero})
=============================================================================
