CONSTANTS
  Teams = {t0, t1, t2}
  Team0 = t0
  Queries = 2
  Bound = 2
SPECIFICATION FairSpec
INVARIANTS TypeOK OneAnswer EndsQuietUnlessStale
PROPERTY QueryEnds
CHECK_DEADLOCK FALSE
