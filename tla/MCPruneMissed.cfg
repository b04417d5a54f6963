CONSTANTS
  n0 = n0
  n1 = n1
  n2 = n2
  n3 = n3
  Node = {n0, n1, n2, n3}
  Root = n0
  Leaf = Leaf
  None = None
  Tree <- Inner
  Under <- InnerUnder
  Sequential = {}
  HasCut <- InnerCut
  Outcomes <- AllSucceed
  Worker = {w0, w1, w2}
SYMMETRY Alike
VIEW Live
SPECIFICATION Spec
INVARIANT AnswersOfProlog
