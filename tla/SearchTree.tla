----------------------------- MODULE SearchTree -----------------------------
(***************************************************************************)
(* The search tree of a query: its choice points and their alternatives.   *)
(* It is given, since or-parallel execution changes who runs an            *)
(* alternative and never what the alternative does. Cuts are Prune's.      *)
(***************************************************************************)
EXTENDS Integers, Sequences

CONSTANTS Node,        \* the choice points
          Root,        \* the root choice point, whose alternative is the query
          Leaf,        \* no choice point: the alternative just fails
          Tree,        \* Tree[n][a]: the choice point alternative a of n creates
          Under,       \* <<n, m>>: n is in the subtree below m
          Sequential   \* the choice points of sequential predicates

Alternative == UNION {{<<n, a>> : a \in DOMAIN Tree[n]} : n \in Node}
Query == <<Root, 1>>

\* The choice point an alternative creates, or Leaf.
Created(x) == Tree[x[1]][x[2]]

\* n is below m or is m itself.
AtOrUnder(n, m) == n = m \/ <<n, m>> \in Under

\* The one of S that is below all the others.
Youngest(S) == CHOOSE n \in S : \A m \in S : AtOrUnder(n, m)

\* Alternative y belongs to the subtree of alternative x.
Within(y, x) == Created(x) # Leaf /\ AtOrUnder(y[1], Created(x))

ASSUME TreeAssumption ==
  /\ Root \in Node /\ Leaf \notin Node /\ Sequential \subseteq Node \ {Root}
  /\ Tree \in [Node -> Seq(Node \cup {Leaf})]
  /\ Len(Tree[Root]) = 1 /\ \A n \in Node \ {Root} : Len(Tree[n]) > 1
  /\ \A x, y \in Alternative : Created(x) = Created(y) => x = y \/ Created(x) = Leaf
  /\ \A x \in Alternative : Created(x) # Root

\* Under is the order of the tree.
ASSUME OrderAssumption ==
  /\ Under \subseteq Node \X Node
  /\ \A n \in Node : <<n, n>> \notin Under /\ <<Root, n>> \notin Under
  /\ \A n \in Node \ {Root} : <<n, Root>> \in Under
  /\ \A x \in Alternative, n \in Node :
       Created(x) # Leaf => (<<Created(x), n>> \in Under <=> AtOrUnder(x[1], n))

\* The tree grows from its root: a set of choice points that has the root, and
\* with a choice point those that its alternatives create, has all of them.
ASSUME GrowthAssumption ==
  \A S \in SUBSET Node :
    /\ Root \in S
    /\ \A x \in Alternative : x[1] \in S /\ Created(x) # Leaf => Created(x) \in S
    => S = Node
=============================================================================
