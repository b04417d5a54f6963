CONSTANTS
  Worker = {w0, w1, w2}
  Zero = w0
  Team = {q1, q2}
  NArenas = 2
  Nobody = Nobody
SPECIFICATION FairSpec
INVARIANTS TypeOK BuffersExclusive NoneForgotten FreeAreasCounted
PROPERTY ServesRequests
