-------------------------- MODULE SearchTreeProofs --------------------------
(***************************************************************************)
(* Facts about search trees, for any tree, finite or not: what alternatives*)
(* are, the order of the choice points, the stacks of choice points, which *)
(* are paths of the tree with gaps, and functions defined by recursion up  *)
(* the tree. OrSchedulerProofs and PruneProofs build on them.              *)
(***************************************************************************)
EXTENDS SearchTree, TLAPS

(***************************************************************************)
(* The tree.                                                               *)
(***************************************************************************)

\* What an alternative is.
LEMMA AlternativeFacts ==
  /\ \A n \in Node : Tree[n] \in Seq(Node \cup {Leaf}) /\ Len(Tree[n]) \in Nat \ {0}
  /\ \A n \in Node : DOMAIN Tree[n] = 1 .. Len(Tree[n])
  /\ \A n, a : <<n, a>> \in Alternative <=> n \in Node /\ a \in 1 .. Len(Tree[n])
  /\ \A x \in Alternative : /\ x = <<x[1], x[2]>> /\ x[1] \in Node /\ x[2] \in Nat
                           /\ Created(x) \in Node \cup {Leaf} /\ Created(x) # Root
<1> DEFINE Child == Node \cup {Leaf}
<1>a. \A s \in Seq(Child) : Len(s) \in Nat /\ DOMAIN s = 1 .. Len(s)
      OBVIOUS
<1>b. \A n \in Node : Tree[n] \in Seq(Child)  BY TreeAssumption
<1>c. \A n \in Node : Len(Tree[n]) # 0
  <2>1. Len(Tree[Root]) = 1 /\ \A n \in Node \ {Root} : Len(Tree[n]) > 1
        BY TreeAssumption
  <2>2. \A n \in Node : Len(Tree[n]) \in Nat
    <3> HIDE DEF Child
    <3> QED BY <1>a, <1>b
  <2>3. ASSUME NEW n \in Node PROVE Len(Tree[n]) # 0
    <3>1. CASE n = Root  BY <3>1, <2>1
    <3>2. CASE n # Root  BY <3>2, <2>1, <2>2
    <3> QED BY <3>1, <3>2
  <2> QED BY <2>3
<1>1. \A n \in Node : Tree[n] \in Seq(Node \cup {Leaf}) /\ Len(Tree[n]) \in Nat \ {0}
  <2> HIDE DEF Child
  <2>1. \A n \in Node : Tree[n] \in Seq(Child) /\ Len(Tree[n]) \in Nat \ {0}
        BY <1>a, <1>b, <1>c
  <2> QED BY <2>1 DEF Child
<1>2. \A n \in Node : DOMAIN Tree[n] = 1 .. Len(Tree[n])
  <2> HIDE DEF Child
  <2> QED BY <1>a, <1>b
<1>3. \A n, a : <<n, a>> \in Alternative <=> n \in Node /\ a \in 1 .. Len(Tree[n])
      BY <1>2 DEF Alternative
<1>4. ASSUME NEW x \in Alternative
      PROVE  /\ x = <<x[1], x[2]>> /\ x[1] \in Node /\ x[2] \in Nat
             /\ Created(x) \in Node \cup {Leaf} /\ Created(x) # Root
  <2>1. PICK n \in Node : \E a \in DOMAIN Tree[n] : x = <<n, a>>  BY DEF Alternative
  <2>2. PICK a \in 1 .. Len(Tree[n]) : x = <<n, a>>  BY <2>1, <1>2
  <2>3. Tree[n][a] \in Node \cup {Leaf}  BY <1>1, <2>2
  <2> QED BY <2>2, <2>3, <1>1, TreeAssumption DEF Created
<1> QED BY <1>1, <1>2, <1>3, <1>4

LEMMA UnderTransitive ==
  \A n, m, k \in Node : <<n, m>> \in Under /\ <<m, k>> \in Under => <<n, k>> \in Under
<1> DEFINE S == {n \in Node : \A m, k \in Node :
                     <<n, m>> \in Under /\ <<m, k>> \in Under => <<n, k>> \in Under}
<1>1. Root \in S  BY TreeAssumption, OrderAssumption
<1>2. ASSUME NEW x \in Alternative, x[1] \in S, Created(x) # Leaf
      PROVE  Created(x) \in S
  <2>1. Created(x) \in Node /\ x[1] \in Node  BY <1>2, AlternativeFacts
  <2>2. \A n \in Node : <<Created(x), n>> \in Under <=> AtOrUnder(x[1], n)
        BY <1>2, OrderAssumption
  <2> QED BY <1>2, <2>1, <2>2 DEF AtOrUnder
<1>3. S = Node  BY <1>1, <1>2, GrowthAssumption
<1> QED BY <1>3

\* The choice points above one of them are on one path.
LEMMA UnderLinear ==
  \A n, m, k \in Node : AtOrUnder(n, m) /\ AtOrUnder(n, k) => AtOrUnder(m, k) \/ <<k, m>> \in Under
<1> DEFINE S == {n \in Node : \A m, k \in Node :
                     <<n, m>> \in Under /\ <<n, k>> \in Under
                       => AtOrUnder(m, k) \/ <<k, m>> \in Under}
<1>1. Root \in S  BY TreeAssumption, OrderAssumption
<1>2. ASSUME NEW x \in Alternative, x[1] \in S, Created(x) # Leaf
      PROVE  Created(x) \in S
  <2>1. Created(x) \in Node /\ x[1] \in Node  BY <1>2, AlternativeFacts
  <2>2. \A n \in Node : <<Created(x), n>> \in Under <=> AtOrUnder(x[1], n)
        BY <1>2, OrderAssumption
  <2> QED BY <1>2, <2>1, <2>2 DEF AtOrUnder
<1>3. S = Node  BY <1>1, <1>2, GrowthAssumption
<1> QED BY <1>3 DEF AtOrUnder

LEMMA UnderFacts ==
  /\ \A n \in Node : <<n, n>> \notin Under /\ <<Root, n>> \notin Under
  /\ \A n \in Node \ {Root} : <<n, Root>> \in Under
  /\ \A n, m \in Node : <<n, m>> \in Under => <<m, n>> \notin Under
  /\ \A n, m, k \in Node : AtOrUnder(n, m) /\ AtOrUnder(m, k) => AtOrUnder(n, k)
  /\ \A n, m, k \in Node : <<n, m>> \in Under /\ AtOrUnder(m, k) => <<n, k>> \in Under
  /\ \A n, m, k \in Node : AtOrUnder(n, m) /\ <<m, k>> \in Under => <<n, k>> \in Under
BY UnderTransitive, OrderAssumption DEF AtOrUnder

\* Every choice point but the root is the goal of an alternative.
LEMMA ParentFacts ==
  \A n \in Node \ {Root} : \E x \in Alternative : Created(x) = n
<1> DEFINE S == {n \in Node : n = Root \/ \E x \in Alternative : Created(x) = n}
<1>1. Root \in S  BY TreeAssumption
<1>2. \A x \in Alternative : x[1] \in S /\ Created(x) # Leaf => Created(x) \in S
      BY AlternativeFacts
<1>3. S = Node  BY <1>1, <1>2, GrowthAssumption
<1> QED BY <1>3

-----------------------------------------------------------------------------
(***************************************************************************)
(* Paths.                                                                  *)
(***************************************************************************)

\* S has a youngest choice point, and each one but the root has one above.
Path(S) ==
  /\ Root \in S
  /\ \E n \in S : \A m \in S : AtOrUnder(n, m)
  /\ \A n \in S \ {Root} : \E m \in S :
       <<n, m>> \in Under /\ \A k \in S : <<n, k>> \in Under => AtOrUnder(m, k)

\* The youngest choice point of a path, and the one above one of its others.
LEMMA PathFacts ==
  ASSUME NEW S \in SUBSET Node, Path(S)
  PROVE  /\ Youngest(S) \in S /\ \A m \in S : AtOrUnder(Youngest(S), m)
         /\ \A n, m \in S : AtOrUnder(n, m) \/ <<m, n>> \in Under
         /\ \A n \in S \ {Root} : LET u == Youngest({m \in S : <<n, m>> \in Under}) IN
              u \in S /\ <<n, u>> \in Under /\ \A k \in S : <<n, k>> \in Under => AtOrUnder(u, k)
<1>1. Youngest(S) \in S /\ \A m \in S : AtOrUnder(Youngest(S), m)
      BY DEF Path, Youngest
<1>2. \A n, m \in S : AtOrUnder(n, m) \/ <<m, n>> \in Under
      BY <1>1, UnderLinear
<1>3. ASSUME NEW n \in S \ {Root}
      PROVE  LET u == Youngest({m \in S : <<n, m>> \in Under}) IN
             u \in S /\ <<n, u>> \in Under /\ \A k \in S : <<n, k>> \in Under => AtOrUnder(u, k)
      BY DEF Path, Youngest
<1> QED BY <1>1, <1>2, <1>3

LEMMA PathPush ==
  ASSUME NEW S \in SUBSET Node, Path(S), NEW c \in Node,
         \A m \in S : <<c, m>> \in Under
  PROVE  Path(S \cup {c})
<1>1. \A m \in S : <<m, c>> \notin Under  BY UnderFacts
<1>2. PICK y \in S : \A m \in S : AtOrUnder(y, m)  BY DEF Path
<1>3. \A m \in S \cup {c} : AtOrUnder(c, m)  BY DEF AtOrUnder
<1>4. ASSUME NEW n \in (S \cup {c}) \ {Root}
      PROVE  \E m \in S \cup {c} : /\ <<n, m>> \in Under
               /\ \A k \in S \cup {c} : <<n, k>> \in Under => AtOrUnder(m, k)
  <2>1. CASE n = c  BY <2>1, <1>2, UnderFacts
  <2>2. CASE n # c  BY <2>2, <1>1 DEF Path
  <2> QED BY <2>1, <2>2
<1> QED BY <1>3, <1>4 DEF Path

LEMMA PathPop ==
  ASSUME NEW S \in SUBSET Node, Path(S), NEW n \in S, n # Root,
         \A m \in S : AtOrUnder(n, m)
  PROVE  Path(S \ {n})
<1>1. \A m \in S : <<m, n>> \notin Under  BY UnderFacts DEF AtOrUnder
<1>2. PICK u \in S : <<n, u>> \in Under /\ \A k \in S : <<n, k>> \in Under => AtOrUnder(u, k)
      BY DEF Path
<1>3. u \in S \ {n} /\ \A k \in S \ {n} : AtOrUnder(u, k)
      BY <1>2, UnderFacts DEF AtOrUnder
<1>4. \A k \in S \ {n, Root} : \E m \in S \ {n} :
        <<k, m>> \in Under /\ \A j \in S \ {n} : <<k, j>> \in Under => AtOrUnder(m, j)
      BY <1>1 DEF Path
<1> QED BY <1>3, <1>4 DEF Path

\* Among choice points that are all above one of the tree there is a youngest.
LEMMA YoungestAbove ==
  ASSUME NEW n \in Node, NEW S \in SUBSET Node, S # {}, \A m \in S : AtOrUnder(n, m)
  PROVE  Youngest(S) \in S /\ \A m \in S : AtOrUnder(Youngest(S), m)
<1> DEFINE Has(k) == \A T \in SUBSET Node : T # {} /\ (\A m \in T : AtOrUnder(k, m))
                       => \E y \in T : \A m \in T : AtOrUnder(y, m)
           G == {k \in Node : Has(k)}
<1>1. Root \in G
  <2>1. ASSUME NEW T \in SUBSET Node, T # {}, \A m \in T : AtOrUnder(Root, m)
        PROVE  \E y \in T : \A m \in T : AtOrUnder(y, m)
        BY <2>1, UnderFacts DEF AtOrUnder
  <2> QED BY <2>1, TreeAssumption
<1>2. ASSUME NEW x \in Alternative, x[1] \in G, Created(x) # Leaf
      PROVE  Created(x) \in G
  <2>1. Created(x) \in Node /\ x[1] \in Node /\ Has(x[1])  BY <1>2, AlternativeFacts
  <2>2. \A m \in Node : <<Created(x), m>> \in Under <=> AtOrUnder(x[1], m)
        BY <1>2, OrderAssumption
  <2>3. ASSUME NEW T \in SUBSET Node, T # {}, \A m \in T : AtOrUnder(Created(x), m)
        PROVE  \E y \in T : \A m \in T : AtOrUnder(y, m)
    <3>1. CASE Created(x) \in T  BY <3>1, <2>3
    <3>2. CASE Created(x) \notin T
      <4>1. \A m \in T : AtOrUnder(x[1], m)  BY <3>2, <2>2, <2>3 DEF AtOrUnder
      <4> QED BY <4>1, <2>1, <2>3
    <3> QED BY <3>1, <3>2
  <2> QED BY <2>1, <2>3
<1>3. G = Node
  <2>1. G \in SUBSET Node  OBVIOUS
  <2> HIDE DEF G
  <2> QED BY <1>1, <1>2, <2>1, GrowthAssumption
<1>4. Has(n)  BY <1>3
<1>5. \E y \in S : \A m \in S : AtOrUnder(y, m)  BY <1>4
<1> QED BY <1>5 DEF Youngest

-----------------------------------------------------------------------------
(***************************************************************************)
(* Recursion up the tree.                                                  *)
(***************************************************************************)

\* A set that has a choice point if it has all those above it has all of them.
LEMMA UpwardInduction ==
  ASSUME NEW S \in SUBSET Node,
         \A n \in Node : (\A m \in Node : <<n, m>> \in Under => m \in S) => n \in S
  PROVE  S = Node
<1> DEFINE G == {n \in Node : \A m \in Node : AtOrUnder(n, m) => m \in S}
<1>1. Root \in G  BY TreeAssumption, UnderFacts DEF AtOrUnder
<1>2. ASSUME NEW x \in Alternative, x[1] \in G, Created(x) # Leaf
      PROVE  Created(x) \in G
  <2>1. Created(x) \in Node /\ x[1] \in Node  BY <1>2, AlternativeFacts
  <2>2. \A m \in Node : <<Created(x), m>> \in Under <=> AtOrUnder(x[1], m)
        BY <1>2, OrderAssumption
  <2>3. \A m \in Node : <<Created(x), m>> \in Under => m \in S  BY <1>2, <2>2
  <2> QED BY <2>1, <2>3 DEF AtOrUnder
<1>3. G = Node
  <2>1. G \in SUBSET Node  OBVIOUS
  <2> HIDE DEF G
  <2> QED BY <1>1, <1>2, <2>1, GrowthAssumption
<1> QED BY <1>3 DEF AtOrUnder

\* step gives the value of a function at n from its value at up[n] above n.
Upward(D, up, step) ==
  /\ up \in [Node -> Node] /\ step \in [Node \X D -> D] /\ D # {}
  /\ up[Root] = Root /\ \A n \in Node \ {Root} : <<n, up[n]>> \in Under
  /\ \A d, e \in D : step[<<Root, d>>] = step[<<Root, e>>]

\* Such a function exists.
LEMMA UpwardRecursion ==
  ASSUME NEW D, NEW up, NEW step, Upward(D, up, step)
  PROVE  \E f \in [Node -> D] : \A n \in Node : f[n] = step[<<n, f[up[n]]>>]
<1> USE DEF Upward
<1> DEFINE Good(f, n) == /\ f \in [Node -> D]
                         /\ \A m \in Node : AtOrUnder(n, m) => f[m] = step[<<m, f[up[m]]>>]
           Some == {n \in Node : \E f : Good(f, n)}
           Same(f, g, n) == \A m \in Node : AtOrUnder(n, m) => f[m] = g[m]
           One == {n \in Node : \A f, g \in [Node -> D] :
                     Good(f, n) /\ Good(g, n) => Same(f, g, n)}
<1>a. Root \in Node  BY TreeAssumption
<1>b. \A m \in Node : AtOrUnder(Root, m) => m = Root  BY <1>a, UnderFacts DEF AtOrUnder
<1>c. ASSUME NEW x \in Alternative, Created(x) # Leaf
      PROVE  /\ x[1] \in Node /\ Created(x) \in Node \ {Root}
             /\ \A m \in Node : <<Created(x), m>> \in Under <=> AtOrUnder(x[1], m)
      BY <1>c, AlternativeFacts, OrderAssumption
<1>1. Root \in Some
  <2>1. PICK d \in D : TRUE  OBVIOUS
  <2> DEFINE v == step[<<Root, d>>]
             f == [n \in Node |-> v]
  <2>2. v \in D /\ step[<<Root, v>>] = v  BY <1>a, <2>1
  <2>3. Good(f, Root)  BY <1>a, <1>b, <2>2
  <2> QED BY <1>a, <2>3
<1>2. ASSUME NEW x \in Alternative, x[1] \in Some, Created(x) # Leaf
      PROVE  Created(x) \in Some
  <2> DEFINE c == Created(x)
  <2>1. PICK f : Good(f, x[1])  BY <1>2
  <2> DEFINE g == [f EXCEPT ![c] = step[<<c, f[up[c]]>>]]
  <2>2. c \in Node \ {Root} /\ x[1] \in Node  BY <1>2, <1>c
  <2>3. up[c] \in Node /\ up[c] # c  BY <2>2, UnderFacts
  <2>4. g \in [Node -> D]  BY <2>1, <2>2, <2>3
  <2>5. g[c] = step[<<c, g[up[c]]>>]  BY <2>1, <2>2, <2>3
  <2>6. ASSUME NEW m \in Node, <<c, m>> \in Under
        PROVE  g[m] = step[<<m, g[up[m]]>>]
    <3>1. AtOrUnder(x[1], m)  BY <1>2, <1>c, <2>6
    <3>2. m # c /\ up[m] \in Node /\ up[m] # c  BY <2>2, <2>6, UnderFacts
    <3> QED BY <3>1, <3>2, <2>1
  <2>7. Good(g, c)  BY <2>4, <2>5, <2>6 DEF AtOrUnder
  <2> QED BY <2>2, <2>7
<1>3. Some = Node
  <2>1. Some \in SUBSET Node  OBVIOUS
  <2> HIDE DEF Some
  <2> QED BY <1>1, <1>2, <2>1, GrowthAssumption
<1>4. Root \in One
  <2>1. ASSUME NEW f \in [Node -> D], NEW g \in [Node -> D], Good(f, Root), Good(g, Root)
        PROVE  f[Root] = g[Root]
    <3>1. f[Root] = step[<<Root, f[Root]>>] /\ g[Root] = step[<<Root, g[Root]>>]
          BY <1>a, <2>1 DEF AtOrUnder
    <3>2. f[Root] \in D /\ g[Root] \in D  BY <1>a
    <3> QED BY <3>1, <3>2
  <2> HIDE DEF Good
  <2> QED BY <1>a, <1>b, <2>1
<1>5. ASSUME NEW x \in Alternative, x[1] \in One, Created(x) # Leaf
      PROVE  Created(x) \in One
  <2> DEFINE c == Created(x)
  <2>1. c \in Node \ {Root} /\ x[1] \in Node  BY <1>5, <1>c
  <2>2. ASSUME NEW f \in [Node -> D], NEW g \in [Node -> D], Good(f, c), Good(g, c)
        PROVE  Same(f, g, c)
    <3>1. Good(f, x[1]) /\ Good(g, x[1])  BY <1>5, <1>c, <2>2 DEF AtOrUnder
    <3>2. Same(f, g, x[1])
      <4> HIDE DEF Good, Same
      <4> QED BY <3>1, <1>5
    <3>3. up[c] \in Node /\ AtOrUnder(x[1], up[c])  BY <1>5, <1>c, <2>1
    <3>4. f[up[c]] = g[up[c]]  BY <3>2, <3>3
    <3>5. f[c] = g[c]  BY <2>1, <2>2, <3>4 DEF AtOrUnder
    <3>6. \A m \in Node : AtOrUnder(c, m) => m = c \/ AtOrUnder(x[1], m)
          BY <1>5, <1>c DEF AtOrUnder
    <3> QED BY <3>2, <3>5, <3>6
  <2> HIDE DEF Good, Same
  <2> QED BY <2>1, <2>2
<1>6. One = Node
  <2>1. One \in SUBSET Node  OBVIOUS
  <2> HIDE DEF One
  <2> QED BY <1>4, <1>5, <2>1, GrowthAssumption
<1> DEFINE G(n) == CHOOSE f : Good(f, n)
           F == [n \in Node |-> G(n)[n]]
<1>7. \A n \in Node : Good(G(n), n)
  <2> HIDE DEF Good
  <2> QED BY <1>3
<1>8. ASSUME NEW n \in Node PROVE F[n] \in D /\ F[n] = step[<<n, F[up[n]]>>]
  <2> DEFINE u == up[n]
  <2>1. u \in Node /\ AtOrUnder(n, u)  BY <1>a DEF AtOrUnder
  <2>2. Good(G(n), u)
    <3>1. \A m \in Node : AtOrUnder(u, m) => AtOrUnder(n, m)  BY <2>1, UnderFacts
    <3> HIDE DEF G, u
    <3> QED BY <1>7, <3>1
  <2>3. Good(G(u), u)
    <3> HIDE DEF Good, G, u
    <3> QED BY <1>7, <2>1
  <2>4. G(n)[u] = G(u)[u]
    <3>1. Same(G(n), G(u), u)
      <4>1. G(n) \in [Node -> D] /\ G(u) \in [Node -> D]  BY <2>2, <2>3
      <4> HIDE DEF Good, G, u, Same
      <4> QED BY <1>6, <2>1, <2>2, <2>3, <4>1
    <3> HIDE DEF G, u
    <3> QED BY <3>1, <2>1 DEF AtOrUnder
  <2>5. G(n)[n] \in D /\ G(n)[n] = step[<<n, G(n)[u]>>]
    <3>1. Good(G(n), n)
      <4> HIDE DEF Good, G
      <4> QED BY <1>7
    <3> HIDE DEF G
    <3> QED BY <3>1 DEF AtOrUnder
  <2>6. F[n] = G(n)[n] /\ F[u] = G(u)[u]
    <3> HIDE DEF G, u
    <3> QED BY <2>1
  <2> HIDE DEF F, G
  <2> QED BY <2>4, <2>5, <2>6
<1>9. F \in [Node -> D]
  <2> HIDE DEF G
  <2> QED BY <1>8
<1> HIDE DEF F
<1> QED BY <1>8, <1>9
=============================================================================
