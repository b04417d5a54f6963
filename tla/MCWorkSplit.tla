---------------------------- MODULE MCWorkSplit ----------------------------
\* WorkSplit on small chains of choice points.
EXTENDS WorkSplit, TLC

\* A short choice point below a long one.
LongShort == <<6, 3>>

\* The teams other than the first are interchangeable.
Alike == Permutations(Team \ {First})
=============================================================================
