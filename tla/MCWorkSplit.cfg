CONSTANTS
  Team = {t0, t1, t2}
  First = t0
  Nobody = Nobody
  Depth = 2
  Alts <- LongShort
  Splits = 3
SYMMETRY Alike
CHECK_DEADLOCK FALSE
SPECIFICATION Spec
INVARIANTS TypeOK ExactlyOnce
