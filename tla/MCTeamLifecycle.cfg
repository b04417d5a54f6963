CONSTANTS
  Worker = {w0, w1, w2}
  Zero = w0
  Nobody = Nobody
  Queries = 2
  Shares = 2
SPECIFICATION FairSpec
INVARIANTS TypeOK NoWorkLeftBehind
PROPERTIES QueryEnds OutOnlyWhenDone
