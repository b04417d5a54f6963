CONSTANTS
  Teams = {t0, t1, t2}
  Team0 = t0
  Queries = 1
  Bound = 2
SYMMETRY Alike
SPECIFICATION Spec
INVARIANT EndsOnlyWhenQuiet
CHECK_DEADLOCK FALSE
