CONSTANTS
  n0 = n0
  n1 = n1
  n2 = n2
  n3 = n3
  Node = {n0, n1, n2}
  Root = n0
  Leaf = Leaf
  None = None
  Tree <- Outer
  Under <- OuterUnder
  Sequential = {}
  HasCut <- OuterCut
  Outcomes <- FirstFails
  Worker = {w0, w1, w2}
SYMMETRY Alike
VIEW Live
CONSTRAINT NotAstray
SPECIFICATION Spec
INVARIANTS TypeOK AnswersUnlessAstray BranchesAgree RequestsAbove SafePosition
