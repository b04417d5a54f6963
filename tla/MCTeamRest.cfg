CONSTANTS
  Worker = {w0, w1}
  Zero = w0
  Nobody = Nobody
  Queries = 2
  Shares = 1
SPECIFICATION PollSpec
PROPERTY ComesToRest
