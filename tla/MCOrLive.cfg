CONSTANTS
  n0 = n0
  n1 = n1
  n2 = n2
  n3 = n3
  n4 = n4
  Node = {n0, n1, n2, n3, n4}
  Root = n0
  Leaf = Leaf
  None = None
  Tree <- MCTree
  Under <- MCUnder
  Sequential = {n2}
  Worker = {w0, w1}
SPECIFICATION FairSpec
PROPERTY QueryEnds
