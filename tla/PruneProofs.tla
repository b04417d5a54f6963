----------------------------- MODULE PruneProofs -----------------------------
(***************************************************************************)
(* Proofs about cuts: the types, the place of prune requests, the branches *)
(* of workers that share a choice point, and the pending prunes.           *)
(*                                                                         *)
(* Inv is inductive by itself. Its parts are: the choice points of a       *)
(* worker are a path of the tree, and it is a member of the frames at and  *)
(* above its top one (ShapeInv); nobody is where an alternative still to   *)
(* be tried will go (FreshInv: what keeps the private choice points of one *)
(* worker out of every other stack); leftnode leads upwards, to frames     *)
(* with the same members and more (LeftInv); and so do pending prunes, the *)
(* variables of a cut and prune requests (PendInv, CutInv, RequestInv).    *)
(*                                                                         *)
(* SafeInv adds what holds of branches, unless a race has led the          *)
(* execution astray: a worker to the right of a pending prune has a        *)
(* request that takes it out of the frame, or is only there until it gets  *)
(* the branch of another (CoverInv).                                       *)
(***************************************************************************)
EXTENDS Prune, SearchTreeProofs

(***************************************************************************)
(* The inductive invariant.                                                *)
(***************************************************************************)

\* A worker that runs an alternative, also while it gives a copy.
Running(w) == pc[w] \in {"run", "share", "forward"}

\* Where a worker may have private choice points.
InEngine == {"run", "exit", "fail", "answer", "share", "forward"}

\* Stacks are paths of the tree; what runs is at the end of one.
StackInv == \A w \in Worker :
  /\ Path(Stack(w)) /\ top_cp[w] \in Stack(w)
  /\ pc[w] = "share" => \A n \in Stack(w) : cp_ap[w][n] = GETWORK
  /\ pc[w] \notin InEngine => \A n \in Stack(w) : AtOrUnder(top_cp[w], n)
  /\ Running(w) => \A n \in Stack(w) : AtOrUnder(cur[w][1], n)

\* A worker is made a member of new frames before it gets the stack.
Given(w) == \E p \in Worker : pc[p] = "share" /\ partner[p] = w

\* The members of a frame are the workers that have it on their stack.
ExactInv ==
  /\ \A w \in Worker, n \in Node : cp_ap[w][n] = GETWORK => w \in members[n]
  /\ \A n \in Node : \A w \in members[n] :
       cp_ap[w][n] = GETWORK \/ (Given(w) /\ Younger(n, top_cp[w]))

\* What is between a worker that shares and the one it shares with.
HandInv == \A p \in Worker :
  /\ pc[p] \in {"share", "forward"} => pc[partner[p]] = "ask" /\ partner[partner[p]] = p
  /\ pc[p] = "share" => /\ Younger(B(p), top_cp[partner[p]])
                        /\ \A n \in Node : partner[p] \in members[n] <=> p \in members[n]
  /\ pc[p] = "forward" => top_cp[partner[p]] = top_cp[p]

\* Members of a frame have the same frames above it.
AgreeInv == \A n \in Node, m \in Node : Younger(n, m) =>
  \A i, j \in members[n] : i \in members[m] => j \in members[m]

\* The alternatives that a choice point or a frame still has, the choice point
\* of an alternative that has not been tried, and a worker below it.
Pending(y) ==
  \/ \E w \in Worker : cp_ap[w][y[1]] > 0 /\ y[2] >= cp_ap[w][y[1]]
  \/ alternative[y[1]] # NULL /\ y[2] >= alternative[y[1]]
Untouched(y) == Created(y) # Leaf =>
  \A v \in Worker : \A n \in Stack(v) : ~ AtOrUnder(n, Created(y))
Inside(v, y) == Running(v) /\ (cur[v] = y \/ Within(cur[v], y))

\* Nothing is run twice: a private choice point is on one stack only.
FreshInv ==
  /\ \A w \in Worker : \A n \in Stack(w) : cp_ap[w][n] # GETWORK =>
       members[n] = {} /\ \A v \in Worker \ {w} : n \notin Stack(v)
  /\ \A n \in Node : members[n] = {} => alternative[n] = NULL
  /\ \A y \in Alternative : Pending(y) => Untouched(y) /\ \A v \in Worker : ~ Inside(v, y)
  /\ \A w \in Worker : Running(w) => Untouched(cur[w]) /\ \A v \in Worker \ {w} : ~ Inside(v, cur[w])

\* nearest_leftnode and pending prunes refer to frames above.
LeftInv ==
  /\ leftnode[Root] = Root
  /\ \A n \in Node \ {Root} : Younger(n, leftnode[n]) /\ members[n] \subseteq members[leftnode[n]]
PendInv == \A n \in Node : pend[n] # None =>
  Younger(n, pend[n].cp) /\ members[n] # {} /\ members[n] \subseteq members[pend[n].cp]

\* The places of prune_shared_branch once it may have moved up.
Moved == {"up", "store", "look", "more", "send_more", "done"}

\* The local variables of prune_shared_branch.
CutAt(w) ==
  /\ pc[w] \in {"cut", "lock", "send", "up", "store", "look", "more", "send_more"} =>
       cut[w].to # None /\ w \in members[cut[w].to]
  /\ pc[w] \in {"lock", "send", "up", "store"} => cut[w].left # None /\ w \in members[cut[w].left]
  /\ pc[w] \in {"cut", "lock", "send"} => Younger(top_cp[w], cut[w].to)
  /\ pc[w] \in {"lock", "send"} => AtOrUnder(top_cp[w], cut[w].left)
  /\ pc[w] = "send" => /\ cut[w].todo \subseteq members[SendFrame(w)] /\ holder[SendFrame(w)] = w
                       /\ cut[w].pend # None => holder[cut[w].pend] = w
  /\ pc[w] = "up" => Younger(top_cp[w], SendFrame(w))
  /\ pc[w] = "store" => top_cp[w] = SendFrame(w)
  /\ pc[w] \in {"look", "more", "send_more"} =>
       cut[w].frame # None /\ w \in members[cut[w].frame] /\ Younger(cut[w].frame, cut[w].to)
  /\ pc[w] = "send_more" => cut[w].todo \subseteq members[cut[w].frame] /\ holder[cut[w].frame] = w
  /\ pc[w] \in {"put", "answer"} => cut[w].left # None
CutInv == \A w \in Worker : CutAt(w)

\* A prune request is above the top frame, until a cut passes it.
RequestAt(w) ==
  /\ prune_request[w] # None =>
       \/ w \in members[prune_request[w]] /\ Younger(top_cp[w], prune_request[w])
       \/ pc[w] \in Moved /\ AtOrUnder(prune_request[w], top_cp[w])
  /\ pc[w] = "prune" => prune_request[w] # None
RequestInv == \A w \in Worker : RequestAt(w)

ShapeInv == StackInv /\ ExactInv /\ HandInv /\ AgreeInv
TreeInv == TypeOK /\ ShapeInv
Inv == TreeInv /\ FreshInv /\ LeftInv /\ PendInv /\ CutInv /\ RequestInv
-----------------------------------------------------------------------------
(***************************************************************************)
(* Stacks and members in a state of the invariant.                         *)
(***************************************************************************)

LEMMA NoneFacts == NULL = 0 /\ GETWORK = -1 /\ None \notin Node /\ None \notin Worker
  BY PruneAssumption DEF NULL, GETWORK

\* Members of a choice point are on one path.
LEMMA StackFacts ==
  ASSUME TypeOK, StackInv, NEW w \in Worker
  PROVE  /\ Stack(w) \in SUBSET Node /\ Path(Stack(w))
         /\ Root \in Node /\ Root \in Stack(w)
         /\ top_cp[w] \in Node /\ top_cp[w] \in Stack(w) /\ w \in members[top_cp[w]]
         /\ \A n, m \in Stack(w) : AtOrUnder(n, m) \/ Younger(m, n)
         /\ B(w) \in Node /\ B(w) \in Stack(w) /\ \A n \in Stack(w) : AtOrUnder(B(w), n)
         /\ \A n \in Node : cp_ap[w][n] = GETWORK => n \in Stack(w)
<1>1. Stack(w) \in SUBSET Node /\ Path(Stack(w)) /\ top_cp[w] \in Stack(w)
      BY DEF StackInv, Stack
<1>2. /\ B(w) \in Stack(w) /\ \A n \in Stack(w) : AtOrUnder(B(w), n)
      /\ \A n, m \in Stack(w) : AtOrUnder(n, m) \/ Younger(m, n)
      BY <1>1, PathFacts DEF B, Younger
<1>3. Root \in Stack(w)  BY <1>1 DEF Path
<1>4. \A n \in Node : cp_ap[w][n] = GETWORK => n \in Stack(w)  BY NoneFacts DEF Stack
<1>5. w \in members[top_cp[w]]  BY DEF TypeOK
<1> QED BY <1>1, <1>2, <1>3, <1>4, <1>5

\* cp_b of a choice point, on the stack of w or not.
LEMMA CpBFacts ==
  ASSUME TypeOK, StackInv, NEW w \in Worker, NEW n \in Node, n # Root
  PROVE  /\ CpB(w, n) \in Node /\ CpB(w, n) \in Stack(w) /\ Younger(n, CpB(w, n))
         /\ \A m \in Stack(w) : Younger(n, m) => AtOrUnder(CpB(w, n), m)
<1> DEFINE S == {m \in Stack(w) : Younger(n, m)}
<1>1. S \in SUBSET Node /\ Root \in S
      BY StackFacts, UnderFacts DEF Younger
<1>2. \A m \in S : AtOrUnder(n, m)  BY DEF AtOrUnder, Younger
<1>3. Youngest(S) \in S /\ \A m \in S : AtOrUnder(Youngest(S), m)
  <2> HIDE DEF S
  <2> QED BY <1>1, <1>2, YoungestAbove
<1> QED BY <1>3, <1>1 DEF CpB

\* A worker is a member of the frames of its stack at and above its top one,
\* and of no others but those that it is about to get.
LEMMA MemberFacts ==
  ASSUME TreeInv, NEW w \in Worker, NEW n \in Node
  PROVE  /\ AtOrUnder(top_cp[w], n) /\ n \in Stack(w) => w \in members[n]
         /\ w \in members[n] => \/ cp_ap[w][n] = GETWORK /\ n \in Stack(w)
                                     /\ (pc[w] # "share" => AtOrUnder(top_cp[w], n))
                                \/ pc[w] = "ask" /\ Given(w) /\ Younger(n, top_cp[w])
         /\ w \in members[n] /\ Younger(n, top_cp[w]) => pc[w] \in {"share", "ask"}
<1>1. Given(w) => pc[w] = "ask"  BY DEF TreeInv, ShapeInv, HandInv, Given
<1>2. w \in members[n] => cp_ap[w][n] = GETWORK \/ (Given(w) /\ Younger(n, top_cp[w]))
      BY DEF TreeInv, ShapeInv, ExactInv
<1>3. cp_ap[w][n] = GETWORK => w \in members[n] /\ n \in Stack(w)
      BY StackFacts DEF TreeInv, ShapeInv, ExactInv
<1>4. n \in Stack(w) /\ pc[w] # "share" => (cp_ap[w][n] = GETWORK <=> AtOrUnder(top_cp[w], n))
      BY DEF TreeInv, ShapeInv, TypeOK
<1>5. n \in Stack(w) /\ pc[w] = "share" => cp_ap[w][n] = GETWORK
      BY DEF TreeInv, ShapeInv, StackInv
<1>6. Younger(n, top_cp[w]) => ~ AtOrUnder(top_cp[w], n)
      BY StackFacts, UnderFacts DEF TreeInv, ShapeInv, Younger, AtOrUnder
<1> QED BY <1>1, <1>2, <1>3, <1>4, <1>5, <1>6

-----------------------------------------------------------------------------
(***************************************************************************)
(* The leftmost frame.                                                     *)
(***************************************************************************)

LEMMA LeftmostFacts ==
  ASSUME TreeInv, LeftInv, NEW w \in Worker
  PROVE  /\ Leftmost(w) \in Node /\ w \in members[Leftmost(w)]
         /\ AtOrUnder(top_cp[w], Leftmost(w))
<1> DEFINE stop(n) == \/ leftnode[n] = Root
                      \/ LeftIn(w, leftnode[n], members[leftnode[n]] \ members[n])
           step == [x \in Node \X Node |-> IF stop(x[1]) THEN leftnode[x[1]] ELSE x[2]]
           Above[n \in Node] ==
             LET l == leftnode[n] IN
             IF l = Root \/ LeftIn(w, l, members[l] \ members[n]) THEN l ELSE Above[l]
           Good(f) == f = [n \in Node |-> LET l == leftnode[n] IN
             IF l = Root \/ LeftIn(w, l, members[l] \ members[n]) THEN l ELSE f[l]]
<1>1. leftnode \in [Node -> Node] /\ Root \in Node /\ leftnode[Root] = Root
      BY StackFacts DEF TreeInv, ShapeInv, TypeOK, LeftInv
<1>2. \E f \in [Node -> Node] : \A n \in Node : f[n] = step[<<n, f[leftnode[n]]>>]
  <2>1. step \in [Node \X Node -> Node]  BY <1>1
  <2>2. \A d, e \in Node : step[<<Root, d>>] = step[<<Root, e>>]  BY <1>1
  <2>3. \A n \in Node \ {Root} : <<n, leftnode[n]>> \in Under  BY DEF LeftInv, Younger
  <2>4. Upward(Node, leftnode, step)
    <3> HIDE DEF step
    <3> QED BY <1>1, <2>1, <2>2, <2>3 DEF Upward
  <2> HIDE DEF step
  <2> QED BY <2>4, UpwardRecursion
<1>3. PICK f \in [Node -> Node] : \A n \in Node : f[n] = step[<<n, f[leftnode[n]]>>]
      BY <1>2
<1>4. Good(f)
  <2>0. \A n, d \in Node : step[<<n, d>>] = IF stop(n) THEN leftnode[n] ELSE d
    <3> HIDE DEF stop
    <3> QED OBVIOUS
  <2>1. \A n \in Node : f[n] = IF stop(n) THEN leftnode[n] ELSE f[leftnode[n]]
    <3> HIDE DEF stop, step
    <3> QED BY <1>1, <1>3, <2>0
  <2> QED BY <2>1
<1>5. Above = CHOOSE g : Good(g)  OBVIOUS
<1>6. Good(Above)  BY <1>4, <1>5
<1>7. Leftmost(w) = IF top_cp[w] = Root \/ LeftIn(w, top_cp[w], members[top_cp[w]])
                    THEN top_cp[w] ELSE Above[top_cp[w]]
      BY DEF Leftmost
<1> DEFINE Found(n) == w \in members[n] => /\ Above[n] \in Node /\ w \in members[Above[n]]
                                           /\ AtOrUnder(n, Above[n])
           S == {n \in Node : Found(n)}
<1> HIDE DEF Above
<1>8. \A n \in Node : Above[n] = IF stop(n) THEN leftnode[n] ELSE Above[leftnode[n]]
      BY <1>6
<1>9. ASSUME NEW n \in Node, \A m \in Node : <<n, m>> \in Under => m \in S
      PROVE  n \in S
  <2> SUFFICES ASSUME w \in members[n] PROVE Found(n)
      OBVIOUS
  <2> DEFINE l == leftnode[n]
  <2>1. l \in Node /\ w \in members[l] /\ AtOrUnder(n, l)
        BY <1>1, StackFacts DEF LeftInv, AtOrUnder, Younger
  <2>2. CASE stop(n)  BY <2>1, <2>2, <1>8
  <2>3. CASE ~ stop(n)
    <3>1. Above[n] = Above[l] /\ l # Root  BY <2>3, <1>8
    <3>2. n # Root  BY <1>1, <3>1
    <3>3. Found(l)  BY <1>9, <2>1, <3>2 DEF LeftInv, Younger
    <3> HIDE DEF l
    <3> QED BY <2>1, <3>1, <3>3, UnderFacts
  <2> QED BY <2>2, <2>3
<1>10. S = Node
  <2>1. S \in SUBSET Node  OBVIOUS
  <2> HIDE DEF S
  <2> QED BY <1>9, <2>1, UpwardInduction
<1>11. top_cp[w] \in Node /\ w \in members[top_cp[w]]  BY StackFacts DEF TreeInv, ShapeInv
<1>12. Found(top_cp[w])  BY <1>10, <1>11
<1> QED BY <1>7, <1>11, <1>12 DEF AtOrUnder

\* Only frames between the top one and the leftmost one get it as neighbour.
LEMMA LeftnodesFacts ==
  ASSUME TreeInv, LeftInv, NEW w \in Worker, NEW n \in Node
  PROVE  \/ Leftnodes(w)[n] = leftnode[n]
         \/ /\ Leftnodes(w)[n] = Leftmost(w) /\ n # Root
            /\ w \in members[n] /\ Younger(n, Leftmost(w))
<1> DEFINE l == Leftmost(w)
           D == SUBSET Node
           step == [x \in Node \X D |-> IF Younger(leftnode[x[1]], l) THEN {x[1]} \cup x[2] ELSE {}]
           Between[k \in Node] ==
             IF Younger(leftnode[k], l) THEN {k} \cup Between[leftnode[k]] ELSE {}
           Good(f) == f = [k \in Node |->
             IF Younger(leftnode[k], l) THEN {k} \cup f[leftnode[k]] ELSE {}]
<1> HIDE DEF l
<1>1. /\ leftnode \in [Node -> Node] /\ Root \in Node /\ leftnode[Root] = Root
      /\ l \in Node /\ ~ Younger(Root, l)
      BY StackFacts, LeftmostFacts, UnderFacts DEF TreeInv, ShapeInv, TypeOK, LeftInv, l, Younger
<1>2. \A k \in Node, d \in D : step[<<k, d>>] = IF Younger(leftnode[k], l) THEN {k} \cup d ELSE {}
      OBVIOUS
<1>3. PICK f \in [Node -> D] : \A k \in Node : f[k] = step[<<k, f[leftnode[k]]>>]
  <2>1. step \in [Node \X D -> D]  BY <1>1
  <2>2. \A d, e \in D : step[<<Root, d>>] = step[<<Root, e>>]  BY <1>1, <1>2
  <2>3. \A k \in Node \ {Root} : <<k, leftnode[k]>> \in Under  BY DEF LeftInv, Younger
  <2>4. Upward(D, leftnode, step)
    <3> HIDE DEF step
    <3>1. D # {}  BY <1>1
    <3> HIDE DEF D
    <3> QED BY <1>1, <2>1, <2>2, <2>3, <3>1 DEF Upward
  <2> HIDE DEF step, D
  <2> QED BY <2>4, UpwardRecursion
<1>4. Good(f)
  <2>1. \A k \in Node : f[k] = IF Younger(leftnode[k], l) THEN {k} \cup f[leftnode[k]] ELSE {}
    <3>1. ASSUME NEW k \in Node PROVE f[leftnode[k]] \in D  BY <1>1
    <3> HIDE DEF step, D
    <3> QED BY <1>2, <1>3, <3>1
  <2> QED BY <2>1
<1>5. Between = CHOOSE g : Good(g)  OBVIOUS
<1>6. Good(Between)  BY <1>4, <1>5
<1>7. Leftnodes(w)[n] = IF n \in Between[top_cp[w]] THEN l ELSE leftnode[n]
      BY DEF Leftnodes, l
<1> DEFINE Low(k) == w \in members[k] => \A m \in Between[k] : /\ m \in Node \ {Root}
                       /\ w \in members[m] /\ Younger(m, l)
           S == {k \in Node : Low(k)}
<1> HIDE DEF Between
<1>8. \A k \in Node : Between[k] = IF Younger(leftnode[k], l)
                                     THEN {k} \cup Between[leftnode[k]] ELSE {}
      BY <1>6
<1>9. ASSUME NEW k \in Node, \A m \in Node : <<k, m>> \in Under => m \in S
      PROVE  k \in S
  <2> SUFFICES ASSUME w \in members[k], Younger(leftnode[k], l) PROVE Low(k)
      BY <1>8
  <2>1. k # Root  BY <1>1
  <2>2. /\ leftnode[k] \in Node /\ w \in members[leftnode[k]] /\ Younger(k, leftnode[k])
        BY <1>1, <2>1 DEF LeftInv
  <2>3. Low(leftnode[k])  BY <1>9, <2>2 DEF Younger
  <2>4. Younger(k, l)  BY <1>1, <2>2, UnderTransitive DEF Younger
  <2>5. Between[k] = {k} \cup Between[leftnode[k]]  BY <1>8
  <2>6. \A m \in Between[leftnode[k]] : m \in Node \ {Root} /\ w \in members[m] /\ Younger(m, l)
        BY <2>2, <2>3
  <2> QED BY <2>1, <2>4, <2>5, <2>6
<1>10. S = Node
  <2>1. S \in SUBSET Node  OBVIOUS
  <2> HIDE DEF S
  <2> QED BY <1>9, <2>1, UpwardInduction
<1>11. top_cp[w] \in Node /\ w \in members[top_cp[w]]  BY StackFacts DEF TreeInv, ShapeInv
<1>12. Low(top_cp[w])  BY <1>10, <1>11
<1> QED BY <1>7, <1>11, <1>12 DEF l

-----------------------------------------------------------------------------
(***************************************************************************)
(* What the steps of the engine do to the stacks.                          *)
(***************************************************************************)

LEMMA ClauseFacts ==
  /\ Query \in Alternative /\ Root \in Node
  /\ \A x \in Alternative : x # Query => x[1] \in Node \ {Root}
  /\ \A n \in Node \ {Root} : Parent(n) \in Alternative /\ Created(Parent(n)) = n
  /\ \A n \in Node : \A a \in 2 .. Len(Tree[n]) :
       /\ <<n, a>> \in Alternative /\ a \in Nat /\ a - 1 \in Nat
       /\ NextAlternative(n, a) \in {NULL} \cup (2 .. Len(Tree[n]))
       /\ NextAlternative(n, a) # NULL => NextAlternative(n, a) = a + 1
<1>1. Root \in Node /\ Len(Tree[Root]) = 1  BY TreeAssumption
<1>2. Query \in Alternative  BY <1>1, AlternativeFacts DEF Query
<1>3. ASSUME NEW x \in Alternative, x # Query PROVE x[1] \in Node \ {Root}
  <2>1. x = <<x[1], x[2]>> /\ x[1] \in Node  BY AlternativeFacts
  <2>2. x[2] \in 1 .. Len(Tree[x[1]])  BY <2>1, AlternativeFacts
  <2>3. ASSUME x[1] = Root PROVE x[2] = 1
    <3>1. x[2] \in 1 .. Len(Tree[Root])  BY <2>2, <2>3, Zenon
    <3>2. x[2] \in 1 .. 1  BY <1>1, <3>1, Zenon
    <3> QED BY <3>2
  <2> QED BY <1>3, <2>1, <2>3 DEF Query
<1>4. ASSUME NEW n \in Node \ {Root} PROVE Parent(n) \in Alternative /\ Created(Parent(n)) = n
      BY ParentFacts DEF Parent
<1>5. ASSUME NEW n \in Node, NEW a \in 2 .. Len(Tree[n])
      PROVE  /\ <<n, a>> \in Alternative /\ a \in Nat /\ a - 1 \in Nat
             /\ NextAlternative(n, a) \in {NULL} \cup (2 .. Len(Tree[n]))
             /\ NextAlternative(n, a) # NULL => NextAlternative(n, a) = a + 1
  <2>1. Len(Tree[n]) \in Nat  BY AlternativeFacts
  <2>2. a \in 1 .. Len(Tree[n])  BY <2>1
  <2> QED BY <2>1, <2>2, AlternativeFacts DEF NextAlternative, NULL
<1> QED BY <1>1, <1>2, <1>3, <1>4, <1>5

\* A new private choice point.
LEMMA TryFacts ==
  ASSUME Inv, NEW w \in Worker, Try(w)
  PROVE  LET c == Created(cur[w]) IN
         /\ c \in Node \ {Root} /\ <<c, 1>> \in Alternative /\ 2 \in 2 .. Len(Tree[c])
         /\ cur[w] \in Alternative
         /\ \A n \in Node : Younger(c, n) <=> AtOrUnder(cur[w][1], n)
         /\ \A n \in Stack(w) : Younger(c, n)
         /\ \A v \in Worker : c \notin Stack(v)
         /\ members[c] = {}
         /\ cp_ap'[w][c] = 2 /\ \A n \in Node \ {c} : cp_ap'[w][n] = cp_ap[w][n]
         /\ cp_ap' \in [Worker -> [Node -> Int]] /\ \A v \in Worker \ {w} : cp_ap'[v] = cp_ap[v]
         /\ Stack(w)' = Stack(w) \cup {c} /\ \A v \in Worker \ {w} : Stack(v)' = Stack(v)
         /\ cur'[w] = <<c, 1>> /\ \A v \in Worker \ {w} : cur'[v] = cur[v]
<1> DEFINE c == Created(cur[w])
<1>1. cur[w] \in Alternative /\ Running(w) /\ c # Leaf  BY DEF Inv, TreeInv, ShapeInv, TypeOK, Try, Running
<1>2. c \in Node \ {Root}  BY <1>1, AlternativeFacts
<1>3. <<c, 1>> \in Alternative /\ 2 \in 2 .. Len(Tree[c])
  <2>1. Len(Tree[c]) \in Nat /\ Len(Tree[c]) > 1  BY <1>2, AlternativeFacts, TreeAssumption
  <2> QED BY <2>1, <1>2, AlternativeFacts
<1>4. \A n \in Node : Younger(c, n) <=> AtOrUnder(cur[w][1], n)
      BY <1>1, OrderAssumption DEF Younger
<1>5. \A n \in Stack(w) : Younger(c, n)
      BY <1>1, <1>4, StackFacts DEF Inv, TreeInv, ShapeInv, StackInv
<1>6. \A v \in Worker : c \notin Stack(v)
      BY <1>1, <1>2 DEF Inv, FreshInv, Untouched, AtOrUnder
<1>7. members[c] = {}
  <2>1. ASSUME NEW v \in members[c] PROVE FALSE
    <3>1. v \in Worker  BY <1>2, <2>1 DEF Inv, TreeInv, ShapeInv, TypeOK
    <3>2. cp_ap[v][c] = GETWORK \/ Given(v)  BY <1>2, <2>1 DEF Inv, TreeInv, ShapeInv, ExactInv
    <3>3. cp_ap[v][c] # GETWORK  BY <1>2, <1>6, <3>1, StackFacts DEF Inv, TreeInv, ShapeInv
    <3>4. PICK p \in Worker : pc[p] = "share" /\ partner[p] = v  BY <3>2, <3>3 DEF Given
    <3>5. p \in members[c]  BY <1>2, <2>1, <3>4 DEF Inv, TreeInv, ShapeInv, HandInv
    <3>6. cp_ap[p][c] = GETWORK  BY <1>2, <3>4, <3>5, MemberFacts DEF Inv, TreeInv, ShapeInv
    <3> QED BY <1>2, <1>6, <3>6, StackFacts DEF Inv, TreeInv, ShapeInv
  <2> QED BY <2>1
<1>8. /\ cp_ap'[w][c] = 2 /\ \A n \in Node \ {c} : cp_ap'[w][n] = cp_ap[w][n]
      /\ cp_ap' \in [Worker -> [Node -> Int]] /\ \A v \in Worker \ {w} : cp_ap'[v] = cp_ap[v]
      BY <1>2 DEF Inv, TreeInv, ShapeInv, TypeOK, Try
<1>9. Stack(w)' = Stack(w) \cup {c} /\ \A v \in Worker \ {w} : Stack(v)' = Stack(v)
      BY <1>2, <1>8 DEF Stack, NULL
<1>10. cur'[w] = <<c, 1>> /\ \A v \in Worker \ {w} : cur'[v] = cur[v]
      BY DEF Inv, TreeInv, ShapeInv, TypeOK, Try
<1> HIDE DEF c
<1> QED BY <1>1, <1>2, <1>3, <1>4, <1>5, <1>6, <1>7, <1>8, <1>9, <1>10 DEF c

\* Cutting private choice points, down to r at the top one or below.
LEMMA CutToFacts ==
  ASSUME TreeInv, NEW w \in Worker, NEW r \in Stack(w), AtOrUnder(r, top_cp[w]),
         pc[w] # "share", cp_ap' = [cp_ap EXCEPT ![w] = CutTo(w, r)]
  PROVE  /\ cp_ap' \in [Worker -> [Node -> Int]] /\ \A v \in Worker \ {w} : cp_ap'[v] = cp_ap[v]
         /\ \A n \in Stack(w)' : cp_ap'[w][n] = cp_ap[w][n] /\ n \in Stack(w) /\ AtOrUnder(r, n)
         /\ \A n \in Node : cp_ap'[w][n] = GETWORK <=> cp_ap[w][n] = GETWORK
         /\ \A n \in Node : cp_ap'[w][n] \in {NULL, cp_ap[w][n]}
         /\ \A n \in Stack(w) : AtOrUnder(r, n) => n \in Stack(w)'
         /\ Path(Stack(w))' /\ \A v \in Worker \ {w} : Stack(v)' = Stack(v)
<1>1. r \in Node /\ \A n \in Stack(w) : AtOrUnder(n, r) \/ Younger(r, n)
      BY StackFacts DEF TreeInv, ShapeInv
<1>2. /\ cp_ap' \in [Worker -> [Node -> Int]] /\ \A v \in Worker \ {w} : cp_ap'[v] = cp_ap[v]
      /\ \A n \in Node : cp_ap'[w][n] = IF Younger(n, r) THEN NULL ELSE cp_ap[w][n]
  <2>1. cp_ap \in [Worker -> [Node -> Int]]  BY DEF TreeInv, TypeOK
  <2>2. CutTo(w, r) \in [Node -> Int]  BY <2>1 DEF CutTo, NULL
  <2>3. \A n \in Node : CutTo(w, r)[n] = IF Younger(n, r) THEN NULL ELSE cp_ap[w][n]
        BY DEF CutTo
  <2> QED BY <2>1, <2>2, <2>3
<1>3. \A n \in Stack(w) : AtOrUnder(r, n) <=> ~ Younger(n, r)
      BY <1>1, StackFacts, UnderFacts DEF TreeInv, ShapeInv, AtOrUnder, Younger
<1>4. Stack(w)' = {n \in Stack(w) : AtOrUnder(r, n)}
      BY <1>2, <1>3 DEF Stack
<1>5. ASSUME NEW n \in Node PROVE cp_ap'[w][n] = GETWORK <=> cp_ap[w][n] = GETWORK
  <2>1. cp_ap[w][n] = GETWORK => AtOrUnder(top_cp[w], n)
        BY StackFacts DEF TreeInv, ShapeInv, TypeOK
  <2>2. cp_ap[w][n] = GETWORK => ~ Younger(n, r)
        BY <1>1, <2>1, StackFacts, UnderFacts DEF TreeInv, ShapeInv, AtOrUnder, Younger
  <2> QED BY <1>2, <2>2, NoneFacts
<1>6. Path({n \in Stack(w) : AtOrUnder(r, n)})
  <2> DEFINE S == {n \in Stack(w) : AtOrUnder(r, n)}
  <2>1. Path(Stack(w)) /\ Root \in Stack(w) /\ Root \in Node /\ Stack(w) \in SUBSET Node
        BY StackFacts DEF TreeInv, ShapeInv
  <2>2. Root \in S /\ r \in S /\ \A m \in S : AtOrUnder(r, m)
        BY <1>1, <2>1, UnderFacts DEF AtOrUnder
  <2>3. ASSUME NEW n \in S \ {Root}
        PROVE  \E m \in S : <<n, m>> \in Under /\ \A k \in S : <<n, k>> \in Under => AtOrUnder(m, k)
    <3>1. PICK m \in Stack(w) : <<n, m>> \in Under
                                 /\ \A k \in Stack(w) : <<n, k>> \in Under => AtOrUnder(m, k)
          BY <2>1 DEF Path
    <3>2. m \in S  BY <1>1, <2>1, <3>1, UnderFacts DEF AtOrUnder
    <3> QED BY <3>1, <3>2
  <2> QED BY <2>2, <2>3 DEF Path
<1>7. Path(Stack(w))'
  <2>1. Path(Stack(w)')  BY <1>4, <1>6
  <2> QED BY <2>1 DEF Path
<1>8. \A v \in Worker \ {w} : Stack(v)' = Stack(v)  BY <1>2 DEF Stack
<1> QED BY <1>2, <1>4, <1>5, <1>7, <1>8 DEF Stack

\* CUT_prune_to keeps what is at and above r.
LEMMA CutFacts ==
  ASSUME TreeInv, NEW w \in Worker, Cut(w)
  PROVE  LET to == CpB(w, cur[w][1])
             r == IF Younger(top_cp[w], to) THEN top_cp[w] ELSE to IN
         /\ to \in Node /\ to \in Stack(w)
         /\ r \in Stack(w) /\ AtOrUnder(r, top_cp[w]) /\ pc[w] = "exit"
         /\ cp_ap' = [cp_ap EXCEPT ![w] = CutTo(w, r)]
         /\ cur' \in [Worker -> Alternative] /\ \A v \in Worker \ {w} : cur'[v] = cur[v]
<1> DEFINE to == CpB(w, cur[w][1])
           r == IF Younger(top_cp[w], to) THEN top_cp[w] ELSE to
<1>1. cur \in [Worker -> Alternative] /\ pc[w] = "exit" /\ cur[w] # Query
      BY PruneAssumption DEF TreeInv, ShapeInv, TypeOK, Cut
<1>2. cur[w][1] \in Node \ {Root}  BY <1>1, ClauseFacts
<1>3. to \in Node /\ to \in Stack(w)  BY <1>2, CpBFacts DEF TreeInv, ShapeInv
<1>4. r \in Stack(w) /\ AtOrUnder(r, top_cp[w])
  <2> HIDE DEF to
  <2> QED BY <1>3, StackFacts DEF TreeInv, ShapeInv, AtOrUnder
<1>5. cp_ap' = [cp_ap EXCEPT ![w] = CutTo(w, r)] /\ cur' = [cur EXCEPT ![w] = Parent(cur[w][1])]
      BY DEF Cut
<1>6. cur' \in [Worker -> Alternative] /\ \A v \in Worker \ {w} : cur'[v] = cur[v]
      BY <1>1, <1>2, <1>5, ClauseFacts
<1> QED BY <1>1, <1>3, <1>4, <1>5, <1>6

\* The next alternative of the youngest private choice point.
LEMMA RetryFacts ==
  ASSUME TreeInv, NEW w \in Worker, Retry(w)
  PROVE  LET n == B(w) IN
         /\ n \in Node /\ n \in Stack(w) /\ pc[w] = "fail" /\ pc' = [pc EXCEPT ![w] = "run"]
         /\ \A m \in Stack(w) : AtOrUnder(n, m)
         /\ Younger(n, top_cp[w])
         /\ cp_ap[w][n] \in 2 .. Len(Tree[n])
         /\ cp_ap' \in [Worker -> [Node -> Int]] /\ \A v \in Worker \ {w} : cp_ap'[v] = cp_ap[v]
         /\ cp_ap'[w][n] = NextAlternative(n, cp_ap[w][n])
         /\ \A m \in Node \ {n} : cp_ap'[w][m] = cp_ap[w][m]
         /\ Stack(w)' \subseteq Stack(w) /\ Stack(w) \ {n} \subseteq Stack(w)'
         /\ Path(Stack(w))'
         /\ \A v \in Worker \ {w} : Stack(v)' = Stack(v)
         /\ cur'[w] = <<n, cp_ap[w][n]>> /\ cur'[w] \in Alternative
         /\ \A v \in Worker \ {w} : cur'[v] = cur[v]
<1> DEFINE n == B(w)
<1>1. /\ n \in Node /\ n \in Stack(w) /\ pc[w] = "fail" /\ pc' = [pc EXCEPT ![w] = "run"]
      /\ \A m \in Stack(w) : AtOrUnder(n, m)
      BY StackFacts DEF TreeInv, ShapeInv, Retry, Goto
<1>2. Younger(n, top_cp[w])
      BY <1>1, StackFacts DEF TreeInv, ShapeInv, Retry, AtOrUnder, Younger
<1>3. cp_ap[w][n] \in 2 .. Len(Tree[n])
  <2>1. ~ AtOrUnder(top_cp[w], n)
        BY <1>1, <1>2, StackFacts, UnderFacts DEF TreeInv, ShapeInv, Younger, AtOrUnder
  <2> QED BY <1>1, <2>1 DEF TreeInv, ShapeInv, TypeOK, Stack
<1>4. /\ cp_ap' \in [Worker -> [Node -> Int]] /\ \A v \in Worker \ {w} : cp_ap'[v] = cp_ap[v]
      /\ cp_ap'[w][n] = NextAlternative(n, cp_ap[w][n])
      /\ \A m \in Node \ {n} : cp_ap'[w][m] = cp_ap[w][m]
  <2>1. NextAlternative(n, cp_ap[w][n]) \in Int
    <3> HIDE DEF n
    <3>1. NextAlternative(n, cp_ap[w][n]) \in {NULL} \cup (2 .. Len(Tree[n]))
          BY <1>1, <1>3, ClauseFacts
    <3> QED BY <3>1, NoneFacts
  <2>2. cp_ap' = [cp_ap EXCEPT ![w][n] = NextAlternative(n, @)]  BY DEF Retry
  <2> HIDE DEF n
  <2> QED BY <1>1, <2>1, <2>2 DEF TreeInv, ShapeInv, TypeOK
<1>5. /\ Stack(w)' \subseteq Stack(w) /\ Stack(w) \ {n} \subseteq Stack(w)'
      /\ \A v \in Worker \ {w} : Stack(v)' = Stack(v)
  <2> HIDE DEF n
  <2> QED BY <1>1, <1>4 DEF Stack
<1>6. Path(Stack(w))'
  <2>1. n # Root
        BY <1>1, <1>2, StackFacts, UnderFacts DEF TreeInv, ShapeInv, Younger
  <2>2. Path(Stack(w)) /\ Stack(w) \in SUBSET Node  BY StackFacts DEF TreeInv, ShapeInv
  <2>3. Path(Stack(w) \ {n})
    <3> HIDE DEF n
    <3> QED BY <1>1, <2>1, <2>2, PathPop
  <2>4. Stack(w)' = Stack(w) \/ Stack(w)' = Stack(w) \ {n}  BY <1>5
  <2>5. Path(Stack(w)')  BY <2>2, <2>3, <2>4
  <2> QED BY <2>5 DEF Path
<1>7. /\ cur'[w] = <<n, cp_ap[w][n]>> /\ cur'[w] \in Alternative
      /\ \A v \in Worker \ {w} : cur'[v] = cur[v]
  <2>1. cur' = [cur EXCEPT ![w] = <<n, cp_ap[w][n]>>]  BY DEF Retry
  <2> HIDE DEF n
  <2> QED BY <1>1, <1>3, <2>1, ClauseFacts DEF TreeInv, ShapeInv, TypeOK
<1> HIDE DEF n
<1> QED BY <1>1, <1>2, <1>3, <1>4, <1>5, <1>6, <1>7 DEF n

\* A worker leaves its top frame.
LEMMA PopFacts ==
  ASSUME TreeInv, NEW w \in Worker, top_cp[w] # Root, pc[w] \notin InEngine, pc[w] # "ask",
         Pop(w, top_cp[w]), members' = Without(w, top_cp[w])
  PROVE  LET n == top_cp[w]
             up == CpB(w, n) IN
         /\ n \in Node /\ n \in Stack(w)
         /\ up \in Node /\ up \in Stack(w) /\ Younger(n, up)
         /\ \A m \in Stack(w) : Younger(n, m) => AtOrUnder(up, m)
         /\ \A m \in Stack(w) : m # n => AtOrUnder(up, m)
         /\ top_cp' = [top_cp EXCEPT ![w] = up]
         /\ cp_ap' \in [Worker -> [Node -> Int]] /\ \A v \in Worker \ {w} : cp_ap'[v] = cp_ap[v]
         /\ cp_ap'[w][n] = NULL /\ \A m \in Node \ {n} : cp_ap'[w][m] = cp_ap[w][m]
         /\ Stack(w)' = Stack(w) \ {n} /\ Path(Stack(w))'
         /\ \A v \in Worker \ {w} : Stack(v)' = Stack(v)
         /\ members' \in [Node -> SUBSET Worker]
         /\ members'[n] = members[n] \ {w} /\ \A m \in Node \ {n} : members'[m] = members[m]
         /\ w \in members[up]
         /\ \A m \in Node : w \in members[m] => AtOrUnder(n, m) /\ m \in Stack(w)
<1> DEFINE n == top_cp[w]
           up == CpB(w, n)
<1>1. n \in Node /\ n \in Stack(w) /\ n # Root  BY StackFacts DEF TreeInv, ShapeInv
<1>2. /\ up \in Node /\ up \in Stack(w) /\ Younger(n, up)
      /\ \A m \in Stack(w) : Younger(n, m) => AtOrUnder(up, m)
  <2> HIDE DEF n
  <2> QED BY <1>1, CpBFacts DEF TreeInv, ShapeInv
<1>3. \A m \in Stack(w) : AtOrUnder(n, m)  BY DEF TreeInv, ShapeInv, StackInv
<1>4. \A m \in Stack(w) : m # n => AtOrUnder(up, m)
  <2> HIDE DEF up
  <2> QED BY <1>2, <1>3 DEF AtOrUnder, Younger
<1>5. top_cp' = [top_cp EXCEPT ![w] = up] /\ cp_ap' = [cp_ap EXCEPT ![w][n] = NULL]
      BY DEF Pop
<1>6. /\ cp_ap' \in [Worker -> [Node -> Int]] /\ \A v \in Worker \ {w} : cp_ap'[v] = cp_ap[v]
      /\ cp_ap'[w][n] = NULL /\ \A m \in Node \ {n} : cp_ap'[w][m] = cp_ap[w][m]
  <2> HIDE DEF n
  <2> QED BY <1>1, <1>5 DEF TreeInv, ShapeInv, TypeOK, NULL
<1>7. Stack(w)' = Stack(w) \ {n} /\ \A v \in Worker \ {w} : Stack(v)' = Stack(v)
  <2> HIDE DEF n
  <2> QED BY <1>1, <1>6 DEF Stack
<1>8. Path(Stack(w))'
  <2>1. Path(Stack(w)) /\ Stack(w) \in SUBSET Node  BY StackFacts DEF TreeInv, ShapeInv
  <2>2. Path(Stack(w) \ {n})
    <3> HIDE DEF n
    <3> QED BY <1>1, <1>3, <2>1, PathPop
  <2>3. Path(Stack(w)')  BY <1>7, <2>2
  <2> QED BY <2>3 DEF Path
<1>9. /\ members' \in [Node -> SUBSET Worker]
      /\ members'[n] = members[n] \ {w} /\ \A m \in Node \ {n} : members'[m] = members[m]
  <2>1. members' = [members EXCEPT ![n] = @ \ {w}]  BY DEF Without
  <2> HIDE DEF n
  <2> QED BY <1>1, <2>1 DEF TreeInv, ShapeInv, TypeOK
<1>10. pc[w] # "share"  BY DEF InEngine
<1>11. \A m \in Node : w \in members[m] => AtOrUnder(n, m) /\ m \in Stack(w)
      BY <1>10, MemberFacts
<1>12. w \in members[up]
  <2>1. AtOrUnder(top_cp[w], up)  BY <1>2 DEF AtOrUnder, Younger
  <2> HIDE DEF up
  <2> QED BY <1>2, <2>1, MemberFacts
<1> HIDE DEF n, up
<1> QED BY <1>1, <1>2, <1>3, <1>4, <1>5, <1>6, <1>7, <1>8, <1>9, <1>11, <1>12 DEF n, up

\* Sharing: the private choice points of p become frames, and q a member of
\* all the frames that p is in.
LEMMA ShareFacts ==
  ASSUME Inv, NEW p \in Worker, NEW q \in Worker, Share(p, q)
  PROVE  LET new == Private(p) IN
         /\ p # q /\ pc[p] = "run" /\ pc[q] = "ask" /\ partner[q] = p
         /\ pc' = [pc EXCEPT ![p] = "share"] /\ partner' = [partner EXCEPT ![p] = q]
         /\ ~ Given(p) /\ ~ Given(q)
         /\ new \in SUBSET Stack(p)
         /\ \A n \in Stack(p) : n \in new <=> Younger(n, top_cp[p])
         /\ \A n \in new : /\ cp_ap[p][n] \in 2 .. Len(Tree[n]) /\ members[n] = {}
                           /\ \A v \in Worker \ {p} : n \notin Stack(v)
         /\ top_cp[q] \in Stack(p) /\ AtOrUnder(top_cp[p], top_cp[q])
         /\ p \in members[top_cp[q]] /\ q \in members[top_cp[q]]
         /\ members' \in [Node -> SUBSET Worker]
         /\ \A n \in new : members'[n] = {p, q}
         /\ \A n \in Node \ new : members'[n] = members[n] \/ members'[n] = members[n] \cup {q}
         /\ \A n \in Node \ new : p \in members[n] /\ Younger(n, top_cp[q]) <=>
              members'[n] = members[n] \cup {q} /\ q \notin members[n]
         /\ \A n \in Node : q \in members'[n] <=> p \in members'[n]
         /\ \A n \in Node : p \in members'[n] <=> n \in Stack(p)
         /\ cp_ap' \in [Worker -> [Node -> Int]] /\ \A v \in Worker \ {p} : cp_ap'[v] = cp_ap[v]
         /\ \A n \in Stack(p) : cp_ap'[p][n] = GETWORK
         /\ \A v \in Worker : Stack(v)' = Stack(v)
         /\ B(p)' = B(p) /\ Younger(B(p), top_cp[q])
<1> DEFINE new == Private(p)
           top == top_cp[q]
           old == {n \in Stack(p) \ new : Younger(n, top)}
<1> USE DEF Inv
<1>1. /\ pc[p] = "run" /\ pc[q] = "ask" /\ partner[q] = p /\ p # q /\ p \in members[top] /\ B(p) # top
      /\ pc' = [pc EXCEPT ![p] = "share"] /\ partner' = [partner EXCEPT ![p] = q] /\ top_cp' = top_cp
      BY DEF Share, Goto
<1>2. ~ Given(p) /\ ~ Given(q)
      BY <1>1 DEF TreeInv, ShapeInv, HandInv, Given
<1>3. new \in SUBSET Stack(p) /\ \A n \in Stack(p) : n \in new <=> Younger(n, top_cp[p])
      BY DEF Private
<1>4. ASSUME NEW n \in new
      PROVE  /\ n \in Node /\ cp_ap[p][n] \in 2 .. Len(Tree[n]) /\ members[n] = {}
             /\ \A v \in Worker \ {p} : n \notin Stack(v)
  <2>1. n \in Node /\ n \in Stack(p) /\ Younger(n, top_cp[p])  BY <1>3, <1>4 DEF Stack
  <2>2. ~ AtOrUnder(top_cp[p], n)
        BY <2>1, StackFacts, UnderFacts DEF TreeInv, ShapeInv, AtOrUnder, Younger
  <2>3. cp_ap[p][n] # GETWORK  BY <1>1, <2>1, <2>2 DEF TreeInv, ShapeInv, TypeOK
  <2> QED BY <2>1, <2>3 DEF TreeInv, ShapeInv, TypeOK, Stack, FreshInv
<1>5. top \in Node /\ top \in Stack(p) /\ AtOrUnder(top_cp[p], top) /\ q \in members[top]
  <2>1. top \in Node /\ q \in members[top]  BY StackFacts DEF TreeInv, ShapeInv
  <2> QED BY <1>1, <2>1, MemberFacts
<1>6. \A n \in Stack(p) : n \in Node  BY DEF Stack
<1>7. \A n \in Node : members'[n] = IF n \in new THEN {p, q}
                                    ELSE IF n \in old THEN members[n] \cup {q} ELSE members[n]
      BY DEF Share
<1>8. members' \in [Node -> SUBSET Worker]
  <2>1. members' = [n \in Node |-> IF n \in new THEN {p, q}
                                   ELSE IF n \in old THEN members[n] \cup {q} ELSE members[n]]
        BY DEF Share
  <2>2. \A n \in Node : members[n] \in SUBSET Worker  BY DEF TreeInv, ShapeInv, TypeOK
  <2> HIDE DEF new, old
  <2> QED BY <2>1, <2>2
<1>9. \A n \in Node : p \in members[n] <=> n \in Stack(p) /\ n \notin new
  <2>1. ASSUME NEW n \in Node, p \in members[n] PROVE n \in Stack(p) /\ n \notin new
        BY <1>1, <1>3, <1>4, <2>1, MemberFacts
  <2>2. ASSUME NEW n \in Stack(p), n \notin new PROVE p \in members[n]
    <3>1. n \in Node /\ ~ Younger(n, top_cp[p])  BY <1>3, <1>6, <2>2
    <3>2. AtOrUnder(top_cp[p], n)  BY <2>2, <3>1, StackFacts DEF TreeInv, ShapeInv, AtOrUnder, Younger
    <3> QED BY <2>2, <3>1, <3>2, MemberFacts
  <2> QED BY <2>1, <2>2
<1>10. \A n \in Node : q \in members[n] => AtOrUnder(top, n)
      BY <1>1, <1>2, MemberFacts
<1>11. ASSUME NEW n \in Node, AtOrUnder(top, n) PROVE q \in members[n] <=> p \in members[n]
  <2>1. CASE n = top  BY <1>1, <1>5, <2>1
  <2>2. CASE Younger(top, n)  BY <1>1, <1>5, <2>2 DEF TreeInv, ShapeInv, AgreeInv
  <2> QED BY <1>11, <2>1, <2>2 DEF AtOrUnder, Younger
<1>12. \A n \in Node : AtOrUnder(top, n) => ~ Younger(n, top)
      BY <1>5, UnderFacts DEF AtOrUnder, Younger
<1>13. \A n \in Node : n \in old <=> p \in members[n] /\ Younger(n, top)
      BY <1>6, <1>9
<1>14. \A n \in Node : p \in members[n] => AtOrUnder(top, n) \/ Younger(n, top)
      BY <1>5, <1>9, StackFacts DEF TreeInv, ShapeInv, AtOrUnder, Younger
<1>15. ASSUME NEW n \in Node PROVE (q \in members'[n] <=> p \in members'[n])
  <2>1. CASE n \in new  BY <1>7, <2>1
  <2>2. CASE n \notin new
    <3> HIDE DEF old, new
    <3> QED BY <1>1, <1>7, <1>10, <1>11, <1>12, <1>13, <1>14, <2>2
  <2> QED BY <2>1, <2>2
<1>16. \A n \in Node : p \in members'[n] <=> n \in Stack(p)
  <2> HIDE DEF old, new
  <2> QED BY <1>1, <1>3, <1>7, <1>9
<1>17. \A n \in Node \ new : members'[n] = members[n] \/ members'[n] = members[n] \cup {q}
  <2> HIDE DEF old, new
  <2> QED BY <1>7
<1>18. ASSUME NEW n \in Node \ new
       PROVE  p \in members[n] /\ Younger(n, top_cp[q]) <=>
              members'[n] = members[n] \cup {q} /\ q \notin members[n]
  <2>1. q \in members[n] => ~ Younger(n, top)  BY <1>10, <1>12
  <2> HIDE DEF old, new
  <2> QED BY <1>7, <1>13, <2>1
<1>19. /\ cp_ap' \in [Worker -> [Node -> Int]] /\ \A v \in Worker \ {p} : cp_ap'[v] = cp_ap[v]
       /\ \A n \in Node : cp_ap'[p][n] = IF n \in new THEN GETWORK ELSE cp_ap[p][n]
  <2> DEFINE g == [n \in Node |-> IF n \in new THEN GETWORK ELSE cp_ap[p][n]]
  <2>1. cp_ap' = [cp_ap EXCEPT ![p] = g]  BY DEF Share
  <2>2. g \in [Node -> Int]
    <3> HIDE DEF new
    <3> QED BY NoneFacts DEF TreeInv, ShapeInv, TypeOK
  <2>3. \A n \in Node : g[n] = IF n \in new THEN GETWORK ELSE cp_ap[p][n]
        OBVIOUS
  <2> HIDE DEF new, g
  <2> QED BY <2>1, <2>2, <2>3 DEF TreeInv, ShapeInv, TypeOK
<1>20. \A n \in Stack(p) : cp_ap'[p][n] = GETWORK
  <2>1. ASSUME NEW n \in Stack(p), n \notin new PROVE cp_ap[p][n] = GETWORK
    <3>1. p \in members[n]  BY <1>6, <1>9, <2>1
    <3> QED BY <1>1, <1>6, <2>1, <3>1, MemberFacts
  <2> HIDE DEF new
  <2> QED BY <1>6, <1>19, <2>1
<1>21. \A v \in Worker : Stack(v)' = Stack(v)
  <2>1. Stack(p)' = Stack(p)
    <3>1. \A n \in Node : cp_ap'[p][n] # NULL <=> cp_ap[p][n] # NULL
      <4> HIDE DEF new
      <4> QED BY <1>3, <1>19, NoneFacts DEF Stack
    <3> QED BY <3>1 DEF Stack
  <2>2. \A v \in Worker \ {p} : Stack(v)' = Stack(v)  BY <1>19 DEF Stack
  <2> QED BY <2>1, <2>2
<1>22. B(p)' = B(p)
  <2>1. Youngest(Stack(p)') = Youngest(Stack(p))  BY <1>21
  <2> QED BY <2>1 DEF B, Youngest
<1>23. Younger(B(p), top)
      BY <1>1, <1>5, StackFacts DEF TreeInv, ShapeInv, AtOrUnder, Younger
<1> HIDE DEF new, top, old
<1> QED BY <1>1, <1>2, <1>3, <1>4, <1>5, <1>8, <1>7, <1>15, <1>16, <1>17, <1>18, <1>19, <1>20,
           <1>21, <1>22, <1>23 DEF new, top

\* The second half of it: q gets the stack and the top choice point of p.
LEMMA SetTopsFacts ==
  ASSUME TreeInv, NEW p \in Worker, SetTops(p)
  PROVE  LET q == partner[p] IN
         /\ q \in Worker /\ p # q /\ pc[p] = "share" /\ pc[q] = "ask" /\ partner[q] = p
         /\ pc' = [pc EXCEPT ![p] = "forward"] /\ members' = members /\ partner' = partner
         /\ \A v \in Worker : Given(v) <=> v = q \/ Given(v)'
         /\ ~ Given(q)' /\ ~ Given(p)
         /\ B(p) \in Node /\ B(p) \in Stack(p) /\ \A n \in Stack(p) : AtOrUnder(B(p), n)
         /\ top_cp' \in [Worker -> Node] /\ top_cp'[p] = B(p) /\ top_cp'[q] = B(p)
         /\ \A v \in Worker \ {p, q} : top_cp'[v] = top_cp[v]
         /\ cp_ap' = [cp_ap EXCEPT ![q] = cp_ap[p]] /\ cp_ap' \in [Worker -> [Node -> Int]]
         /\ \A v \in Worker \ {q} : Stack(v)' = Stack(v)
         /\ Stack(q)' = Stack(p)
         /\ \A n \in Stack(p) : cp_ap[p][n] = GETWORK
         /\ \A n \in Node : /\ p \in members[n] <=> n \in Stack(p)
                            /\ q \in members[n] <=> n \in Stack(p)
         /\ top_cp[p] \in Stack(p) /\ top_cp[q] \in Stack(p)
<1> DEFINE q == partner[p]
<1>1. /\ q \in Worker /\ pc[p] = "share" /\ pc[q] = "ask" /\ partner[q] = p /\ p # q
      /\ \A n \in Node : q \in members[n] <=> p \in members[n]
      BY DEF TreeInv, ShapeInv, TypeOK, HandInv, SetTops, Goto
<1>2. pc' = [pc EXCEPT ![p] = "forward"] /\ members' = members /\ partner' = partner
      BY DEF SetTops, Goto, locals, frames
<1>3. B(p) \in Node /\ B(p) \in Stack(p) /\ \A n \in Stack(p) : AtOrUnder(B(p), n)
      BY StackFacts DEF TreeInv, ShapeInv
<1>4. /\ top_cp' \in [Worker -> Node] /\ top_cp'[p] = B(p) /\ top_cp'[q] = B(p)
      /\ \A v \in Worker \ {p, q} : top_cp'[v] = top_cp[v]
  <2>1. top_cp' = [top_cp EXCEPT ![p] = B(p), ![q] = B(p)]  BY DEF SetTops
  <2> HIDE DEF q
  <2> QED BY <1>1, <1>3, <2>1 DEF TreeInv, ShapeInv, TypeOK
<1>5. cp_ap' = [cp_ap EXCEPT ![q] = cp_ap[p]] /\ cp_ap' \in [Worker -> [Node -> Int]]
  <2>1. cp_ap' = [cp_ap EXCEPT ![q] = cp_ap[p]]  BY DEF SetTops
  <2> HIDE DEF q
  <2> QED BY <1>1, <2>1 DEF TreeInv, ShapeInv, TypeOK
<1>6. \A v \in Worker \ {q} : Stack(v)' = Stack(v)
  <2> HIDE DEF q
  <2> QED BY <1>5 DEF Stack, TreeInv, ShapeInv, TypeOK
<1>7. Stack(q)' = Stack(p)
  <2>1. cp_ap'[q] = cp_ap[p]
    <3> HIDE DEF q
    <3> QED BY <1>1, <1>5 DEF TreeInv, ShapeInv, TypeOK
  <2>2. Stack(q)' = {n \in Node : cp_ap'[q][n] # NULL}  BY <1>2 DEF Stack
  <2> QED BY <2>1, <2>2 DEF Stack
<1>8. \A n \in Stack(p) : cp_ap[p][n] = GETWORK /\ n \in Node
      BY <1>1 DEF TreeInv, ShapeInv, StackInv, Stack
<1>9. \A n \in Node : p \in members[n] <=> n \in Stack(p)
      BY <1>1, <1>8, MemberFacts DEF TreeInv, ShapeInv, ExactInv
<1>10. \A n \in Node : q \in members[n] <=> n \in Stack(p)  BY <1>1, <1>9
<1>11. top_cp[p] \in Stack(p) /\ top_cp[q] \in Stack(p)
      BY <1>1, <1>10, StackFacts DEF TreeInv, ShapeInv
<1>12. \A v \in Worker : Given(v) <=> v = q \/ Given(v)'
      BY <1>1, <1>2 DEF Given, TreeInv, ShapeInv, TypeOK
<1>13. ~ Given(q)'
      BY <1>1, <1>2 DEF Given, TreeInv, ShapeInv, TypeOK, HandInv
<1>14. ~ Given(p)
      BY <1>1 DEF Given, TreeInv, ShapeInv, HandInv
<1> HIDE DEF q
<1> QED BY <1>1, <1>2, <1>3, <1>4, <1>5, <1>6, <1>7, <1>8, <1>9, <1>10, <1>11, <1>12, <1>13, <1>14 DEF q

-----------------------------------------------------------------------------
(***************************************************************************)
(* Stacks and members keep their shape.                                    *)
(***************************************************************************)

\* Steps that leave them alone, and the workers that share.
LEMMA ShapeKept ==
  ASSUME TreeInv, cp_ap' = cp_ap, top_cp' = top_cp, members' = members,
         \A v \in Worker : pc'[v] \notin InEngine => \A n \in Stack(v) : AtOrUnder(top_cp[v], n),
         \A v \in Worker : Running(v)' => \A n \in Stack(v) : AtOrUnder(cur'[v][1], n),
         \A p \in Worker : pc[p] = "share" <=> pc'[p] = "share",
         \A p \in Worker : pc'[p] = "forward" => pc[p] = "forward",
         \A p \in Worker : pc'[p] \in {"share", "forward"} =>
           partner'[p] = partner[p] /\ pc'[partner[p]] = "ask" /\ partner'[partner[p]] = p
  PROVE  ShapeInv'
<1>1. \A v \in Worker : Stack(v)' = Stack(v)  BY DEF Stack
<1>2. StackInv'
  <2>1. ASSUME NEW v \in Worker PROVE Path(Stack(v))'
    <3>1. Path(Stack(v)')  BY <1>1, StackFacts DEF TreeInv, ShapeInv
    <3> QED BY <3>1 DEF Path
  <2>2. ASSUME NEW v \in Worker
        PROVE  /\ top_cp'[v] \in Stack(v)'
               /\ pc'[v] = "share" => \A n \in Stack(v)' : cp_ap'[v][n] = GETWORK
               /\ pc'[v] \notin InEngine => \A n \in Stack(v)' : AtOrUnder(top_cp'[v], n)
               /\ Running(v)' => \A n \in Stack(v)' : AtOrUnder(cur'[v][1], n)
        BY <1>1 DEF TreeInv, ShapeInv, StackInv
  <2> QED BY <2>1, <2>2 DEF StackInv
<1>3. \A v \in Worker : Given(v) <=> Given(v)'  BY DEF Given
<1>4. ExactInv'
  <2>1. \A n \in Node : members[n] \in SUBSET Worker  BY DEF TreeInv, TypeOK
  <2>2. ASSUME NEW n \in Node, NEW v \in members[n]
        PROVE  cp_ap[v][n] = GETWORK \/ (Given(v)' /\ Younger(n, top_cp[v]))
        BY <1>3, <2>1 DEF TreeInv, ShapeInv, ExactInv
  <2> QED BY <2>2 DEF TreeInv, ShapeInv, ExactInv
<1>5. AgreeInv'  BY DEF TreeInv, ShapeInv, AgreeInv
<1>6. ASSUME NEW p \in Worker PROVE B(p)' = B(p)
  <2>1. Youngest(Stack(p)') = Youngest(Stack(p))  BY <1>1
  <2> QED BY <2>1 DEF B, Youngest
<1>7. ASSUME NEW p \in Worker
      PROVE  /\ pc'[p] \in {"share", "forward"} => pc'[partner'[p]] = "ask" /\ partner'[partner'[p]] = p
             /\ pc'[p] = "share" => /\ Younger(B(p)', top_cp'[partner'[p]])
                    /\ \A n \in Node : partner'[p] \in members'[n] <=> p \in members'[n]
             /\ pc'[p] = "forward" => top_cp'[partner'[p]] = top_cp'[p]
      BY <1>6 DEF TreeInv, ShapeInv, HandInv
<1>8. HandInv'  BY <1>7 DEF HandInv
<1> QED BY <1>2, <1>4, <1>5, <1>8 DEF ShapeInv

\* One worker goes on, and neither runs nor shares then.
LEMMA GotoShape ==
  ASSUME TreeInv, NEW w \in Worker,
         cp_ap' = cp_ap, top_cp' = top_cp, members' = members, partner' = partner,
         \A v \in Worker \ {w} : pc'[v] = pc[v], pc[w] \notin {"share", "forward", "ask"},
         pc'[w] \notin {"run", "share", "forward"}, \A v \in Worker \ {w} : cur'[v] = cur[v],
         pc'[w] \notin InEngine => \A n \in Stack(w) : AtOrUnder(top_cp[w], n)
  PROVE  ShapeInv'
<1>1. \A v \in Worker \ {w} : pc'[v] = pc[v]  OBVIOUS
<1>2. \A v \in Worker : pc'[v] \notin InEngine => \A n \in Stack(v) : AtOrUnder(top_cp[v], n)
      BY <1>1 DEF TreeInv, ShapeInv, StackInv
<1>3. \A v \in Worker : Running(v)' => \A n \in Stack(v) : AtOrUnder(cur'[v][1], n)
      BY <1>1 DEF TreeInv, ShapeInv, StackInv, Running
<1>4. /\ \A p \in Worker : pc[p] = "share" <=> pc'[p] = "share"
      /\ \A p \in Worker : pc'[p] = "forward" => pc[p] = "forward"
      BY <1>1
<1>5. ASSUME NEW p \in Worker, pc'[p] \in {"share", "forward"}
      PROVE  partner'[p] = partner[p] /\ pc'[partner[p]] = "ask" /\ partner'[partner[p]] = p
  <2>1. pc[p] \in {"share", "forward"}  BY <1>1, <1>5
  <2>2. pc[partner[p]] = "ask" /\ partner[partner[p]] = p /\ partner[p] \in Worker
        BY <2>1 DEF TreeInv, TypeOK, ShapeInv, HandInv
  <2> QED BY <1>1, <2>2
<1> QED BY <1>2, <1>3, <1>4, <1>5, ShapeKept

\* A step of the engine on private choice points.
LEMMA PrivateShape ==
  ASSUME TreeInv, NEW w \in Worker,
         top_cp' = top_cp, members' = members, partner' = partner,
         \A v \in Worker \ {w} : pc'[v] = pc[v], pc[w] \notin {"share", "forward", "ask"},
         pc'[w] \notin {"share", "forward"}, \A v \in Worker \ {w} : cur'[v] = cur[v],
         \A v \in Worker \ {w} : cp_ap'[v] = cp_ap[v],
         \A n \in Node : cp_ap'[w][n] = GETWORK <=> cp_ap[w][n] = GETWORK,
         Path(Stack(w))',
         pc'[w] \notin InEngine => \A n \in Stack(w)' : AtOrUnder(top_cp[w], n),
         pc'[w] = "run" => \A n \in Stack(w)' : AtOrUnder(cur'[w][1], n)
  PROVE  ShapeInv'
<1>1. \A v \in Worker \ {w} : pc'[v] = pc[v]  OBVIOUS
<1>2. \A v \in Worker \ {w} : Stack(v)' = Stack(v)  BY DEF Stack
<1>3. \A v \in Worker, n \in Node : cp_ap'[v][n] = GETWORK <=> cp_ap[v][n] = GETWORK
      OBVIOUS
<1>4. top_cp[w] \in Stack(w)'
  <2>1. top_cp[w] \in Node /\ top_cp[w] \in Stack(w) /\ pc[w] # "share"
        BY StackFacts DEF TreeInv, ShapeInv
  <2>2. cp_ap[w][top_cp[w]] = GETWORK  BY <2>1 DEF TreeInv, TypeOK, AtOrUnder
  <2> QED BY <2>1, <2>2, NoneFacts DEF Stack
<1>5. ASSUME NEW v \in Worker
      PROVE  /\ Path(Stack(v))' /\ top_cp'[v] \in Stack(v)'
             /\ pc'[v] = "share" => \A n \in Stack(v)' : cp_ap'[v][n] = GETWORK
             /\ pc'[v] \notin InEngine => \A n \in Stack(v)' : AtOrUnder(top_cp'[v], n)
             /\ Running(v)' => \A n \in Stack(v)' : AtOrUnder(cur'[v][1], n)
  <2>1. CASE v = w  BY <1>1, <1>4, <2>1 DEF Running
  <2>2. CASE v # w
    <3>1. Stack(v)' = Stack(v) /\ pc'[v] = pc[v] /\ cur'[v] = cur[v] /\ cp_ap'[v] = cp_ap[v]
          BY <1>1, <1>2, <2>2
    <3>2. Path(Stack(v))'
      <4>1. Path(Stack(v)')  BY <3>1, StackFacts DEF TreeInv, ShapeInv
      <4> QED BY <4>1 DEF Path
    <3> QED BY <3>1, <3>2 DEF TreeInv, ShapeInv, StackInv, Running
  <2> QED BY <2>1, <2>2
<1>6. StackInv'  BY <1>5 DEF StackInv
<1>7. \A v \in Worker : Given(v) <=> Given(v)'  BY <1>1 DEF Given
<1>8. ExactInv'
  <2>1. \A n \in Node : members[n] \in SUBSET Worker  BY DEF TreeInv, TypeOK
  <2>2. ASSUME NEW n \in Node, NEW v \in members[n]
        PROVE  cp_ap'[v][n] = GETWORK \/ (Given(v)' /\ Younger(n, top_cp[v]))
        BY <1>3, <1>7, <2>1 DEF TreeInv, ShapeInv, ExactInv
  <2> QED BY <1>3, <2>2 DEF TreeInv, ShapeInv, ExactInv
<1>9. AgreeInv'  BY DEF TreeInv, ShapeInv, AgreeInv
<1>10. ASSUME NEW p \in Worker \ {w} PROVE B(p)' = B(p)
  <2>1. Youngest(Stack(p)') = Youngest(Stack(p))  BY <1>2
  <2> QED BY <2>1 DEF B, Youngest
<1>11. \A p \in Worker : pc'[p] \in {"share", "forward"} => p # w /\ pc'[p] = pc[p]
       BY <1>1
<1>12. ASSUME NEW p \in Worker
       PROVE  /\ pc'[p] \in {"share", "forward"} => pc'[partner[p]] = "ask" /\ partner[partner[p]] = p
              /\ pc'[p] = "share" => /\ Younger(B(p)', top_cp[partner[p]])
                    /\ \A n \in Node : partner[p] \in members[n] <=> p \in members[n]
              /\ pc'[p] = "forward" => top_cp[partner[p]] = top_cp[p]
  <2>1. CASE pc'[p] \in {"share", "forward"}
    <3>1. p # w /\ pc[p] = pc'[p] /\ B(p)' = B(p)  BY <1>10, <1>11, <2>1
    <3>2. partner[p] \in Worker /\ pc[partner[p]] = "ask"
          BY <2>1, <3>1 DEF TreeInv, TypeOK, ShapeInv, HandInv
    <3>3. pc'[partner[p]] = "ask"  BY <1>1, <3>2
    <3> QED BY <3>1, <3>3 DEF TreeInv, ShapeInv, HandInv
  <2>2. CASE pc'[p] \notin {"share", "forward"}  BY <2>2
  <2> QED BY <2>1, <2>2
<1>13. HandInv'  BY <1>12 DEF HandInv
<1> QED BY <1>6, <1>8, <1>9, <1>13 DEF ShapeInv

\* A worker leaves its top frame.
LEMMA PopShape ==
  ASSUME TreeInv, NEW w \in Worker,
         top_cp[w] # Root, pc[w] \notin InEngine, pc[w] # "ask",
         Pop(w, top_cp[w]), members' = Without(w, top_cp[w]),
         partner' = partner, cur' = cur, \A v \in Worker \ {w} : pc'[v] = pc[v],
         pc'[w] \notin {"run", "share", "forward"}
  PROVE  ShapeInv'
<1> DEFINE n == top_cp[w]
           up == CpB(w, n)
<1>1. \A v \in Worker \ {w} : pc'[v] = pc[v]  OBVIOUS
<1>2. /\ n \in Node /\ up \in Stack(w) /\ \A m \in Stack(w) : m # n => AtOrUnder(up, m)
      /\ Younger(n, up)
      /\ top_cp' = [top_cp EXCEPT ![w] = up] /\ up \in Node
      /\ \A v \in Worker \ {w} : cp_ap'[v] = cp_ap[v]
      /\ cp_ap'[w][n] = NULL /\ \A m \in Node \ {n} : cp_ap'[w][m] = cp_ap[w][m]
      /\ Stack(w)' = Stack(w) \ {n} /\ Path(Stack(w))'
      /\ \A v \in Worker \ {w} : Stack(v)' = Stack(v)
      /\ members'[n] = members[n] \ {w} /\ \A m \in Node \ {n} : members'[m] = members[m]
      /\ \A m \in Node : w \in members[m] => AtOrUnder(n, m) /\ m \in Stack(w)
      BY PopFacts
<1>3. top_cp'[w] = up /\ \A v \in Worker \ {w} : top_cp'[v] = top_cp[v]
  <2> HIDE DEF up
  <2> QED BY <1>2 DEF TreeInv, TypeOK
<1>4. pc[w] # "share" /\ pc[w] # "forward"  BY DEF InEngine
<1>5. up # n  BY <1>2, UnderFacts DEF Younger
<1> HIDE DEF n, up
<1>6. ASSUME NEW v \in Worker
      PROVE  /\ Path(Stack(v))' /\ top_cp'[v] \in Stack(v)'
             /\ pc'[v] = "share" => \A m \in Stack(v)' : cp_ap'[v][m] = GETWORK
             /\ pc'[v] \notin InEngine => \A m \in Stack(v)' : AtOrUnder(top_cp'[v], m)
             /\ Running(v)' => \A m \in Stack(v)' : AtOrUnder(cur'[v][1], m)
  <2>1. CASE v = w
    <3>1. \A m \in Stack(w)' : m \in Stack(w) /\ AtOrUnder(up, m)  BY <1>2
    <3>2. up \in Stack(w)'  BY <1>2, <1>5
    <3>3. pc'[w] # "share" /\ ~ Running(w)'  BY <1>1 DEF Running
    <3> QED BY <1>2, <1>3, <2>1, <3>1, <3>2, <3>3
  <2>2. CASE v # w
    <3>1. Stack(v)' = Stack(v) /\ pc'[v] = pc[v] /\ cp_ap'[v] = cp_ap[v] /\ top_cp'[v] = top_cp[v]
          BY <1>1, <1>2, <1>3, <2>2
    <3>2. Path(Stack(v))'
      <4>1. Path(Stack(v)')  BY <3>1, StackFacts DEF TreeInv, ShapeInv
      <4> QED BY <4>1 DEF Path
    <3> QED BY <3>1, <3>2 DEF TreeInv, ShapeInv, StackInv, Running
  <2> QED BY <2>1, <2>2
<1>7. StackInv'  BY <1>6 DEF StackInv
<1>8. \A v \in Worker : Given(v) <=> Given(v)'  BY <1>1, <1>4 DEF Given
<1>9. \A m \in Node : members[m] \in SUBSET Worker /\ members'[m] \subseteq members[m]
      BY <1>2 DEF TreeInv, TypeOK
<1>10. ASSUME NEW v \in Worker, NEW m \in Node, cp_ap'[v][m] = GETWORK PROVE v \in members'[m]
  <2>1. CASE v = w  BY <1>2, <1>10, <2>1, NoneFacts DEF TreeInv, ShapeInv, ExactInv
  <2>2. CASE v # w  BY <1>2, <1>10, <2>2 DEF TreeInv, ShapeInv, ExactInv
  <2> QED BY <2>1, <2>2
<1>11. ASSUME NEW m \in Node, NEW v \in members'[m]
       PROVE  cp_ap'[v][m] = GETWORK \/ (Given(v)' /\ Younger(m, top_cp'[v]))
  <2>1. v \in Worker /\ v \in members[m]  BY <1>9
  <2>2. CASE v = w
    <3>1. m # n /\ cp_ap[w][m] = GETWORK
          BY <1>2, <2>1, <2>2, MemberFacts DEF TreeInv, ShapeInv, HandInv, Given
    <3> QED BY <1>2, <2>2, <3>1
  <2>3. CASE v # w  BY <1>2, <1>3, <1>8, <2>1, <2>3 DEF TreeInv, ShapeInv, ExactInv
  <2> QED BY <2>2, <2>3
<1>12. ExactInv'  BY <1>10, <1>11 DEF ExactInv
<1>13. ASSUME NEW k \in Node, NEW m \in Node, Younger(k, m),
              NEW i \in members'[k], NEW j \in members'[k], i \in members'[m]
       PROVE  j \in members'[m]
  <2>1. j \in members[m]  BY <1>9, <1>13 DEF TreeInv, ShapeInv, AgreeInv
  <2>2. m = n => j # w
    <3>1. ASSUME m = n, j = w PROVE FALSE
      <4>1. AtOrUnder(n, k)  BY <1>2, <1>9, <3>1
      <4> QED BY <1>13, <3>1, <4>1, UnderFacts DEF AtOrUnder, Younger
    <3> QED BY <3>1
  <2> QED BY <1>2, <2>1, <2>2
<1>14. AgreeInv'  BY <1>13 DEF AgreeInv
<1>15. ASSUME NEW p \in Worker \ {w} PROVE B(p)' = B(p)
  <2>1. Youngest(Stack(p)') = Youngest(Stack(p))  BY <1>2
  <2> QED BY <2>1 DEF B, Youngest
<1>16. ASSUME NEW p \in Worker, pc'[p] \in {"share", "forward"}
       PROVE  /\ p # w /\ pc[p] = pc'[p] /\ B(p)' = B(p) /\ top_cp'[p] = top_cp[p]
              /\ partner[p] \in Worker /\ partner[p] # w
              /\ pc'[partner[p]] = "ask" /\ top_cp'[partner[p]] = top_cp[partner[p]]
  <2>1. p # w /\ pc[p] = pc'[p] /\ B(p)' = B(p)  BY <1>1, <1>15, <1>16
  <2>2. partner[p] \in Worker /\ pc[partner[p]] = "ask"
        BY <1>16, <2>1 DEF TreeInv, TypeOK, ShapeInv, HandInv
  <2>3. partner[p] # w  BY <2>2
  <2> QED BY <1>1, <1>3, <2>1, <2>2, <2>3
<1>17. ASSUME NEW p \in Worker, pc'[p] \in {"share", "forward"}, NEW m \in Node
       PROVE  /\ p \in members'[m] <=> p \in members[m]
              /\ partner[p] \in members'[m] <=> partner[p] \in members[m]
  <2>1. p # w /\ partner[p] # w  BY <1>16, <1>17
  <2>2. members'[m] = members[m] \/ members'[m] = members[m] \ {w}  BY <1>2
  <2> QED BY <2>1, <2>2
<1>18. ASSUME NEW p \in Worker
       PROVE  /\ pc'[p] \in {"share", "forward"} => pc'[partner[p]] = "ask" /\ partner[partner[p]] = p
              /\ pc'[p] = "share" => /\ Younger(B(p)', top_cp'[partner[p]])
                    /\ \A m \in Node : partner[p] \in members'[m] <=> p \in members'[m]
              /\ pc'[p] = "forward" => top_cp'[partner[p]] = top_cp'[p]
  <2>1. CASE pc'[p] \notin {"share", "forward"}  BY <2>1
  <2>2. CASE pc'[p] \in {"share", "forward"}
        BY <1>16, <1>17, <2>2 DEF TreeInv, ShapeInv, HandInv
  <2> QED BY <2>1, <2>2
<1>19. HandInv'  BY <1>18 DEF HandInv
<1> QED BY <1>7, <1>12, <1>14, <1>19 DEF ShapeInv

LEMMA ShareShape ==
  ASSUME Inv, NEW p \in Worker, NEW q \in Worker, Share(p, q)
  PROVE  ShapeInv'
<1> DEFINE new == Private(p)
<1>1. /\ p # q /\ pc[p] = "run" /\ pc[q] = "ask" /\ partner[q] = p
      /\ pc' = [pc EXCEPT ![p] = "share"] /\ partner' = [partner EXCEPT ![p] = q]
      /\ ~ Given(p) /\ ~ Given(q)
      /\ new \in SUBSET Stack(p)
      /\ \A n \in Stack(p) : n \in new <=> Younger(n, top_cp[p])
      /\ \A n \in new : members[n] = {}
      /\ AtOrUnder(top_cp[p], top_cp[q])
      /\ \A n \in new : members'[n] = {p, q}
      /\ \A n \in Node \ new : members'[n] = members[n] \/ members'[n] = members[n] \cup {q}
      /\ \A n \in Node \ new : p \in members[n] /\ Younger(n, top_cp[q]) <=>
              members'[n] = members[n] \cup {q} /\ q \notin members[n]
      /\ \A n \in Node : q \in members'[n] <=> p \in members'[n]
      /\ \A n \in Node : p \in members'[n] <=> n \in Stack(p)
      /\ \A v \in Worker \ {p} : cp_ap'[v] = cp_ap[v]
      /\ \A n \in Stack(p) : cp_ap'[p][n] = GETWORK
      /\ \A v \in Worker : Stack(v)' = Stack(v)
      /\ B(p)' = B(p) /\ Younger(B(p), top_cp[q])
  BY ShareFacts
<1>2. TreeInv /\ top_cp' = top_cp /\ cur' = cur  BY DEF Inv, Share
<1>3. /\ pc'[p] = "share" /\ \A v \in Worker \ {p} : pc'[v] = pc[v]
      /\ partner'[p] = q /\ \A v \in Worker \ {p} : partner'[v] = partner[v]
      BY <1>1, <1>2 DEF TreeInv, TypeOK
<1>4. \A n \in Node : members[n] \in SUBSET Worker  BY <1>2 DEF TreeInv, TypeOK
<1>5. \A n \in new : n \in Node  BY <1>1 DEF Stack
<1> HIDE DEF new
<1>6. ASSUME NEW v \in Worker
      PROVE  /\ Path(Stack(v))' /\ top_cp'[v] \in Stack(v)'
             /\ pc'[v] = "share" => \A m \in Stack(v)' : cp_ap'[v][m] = GETWORK
             /\ pc'[v] \notin InEngine => \A m \in Stack(v)' : AtOrUnder(top_cp'[v], m)
             /\ Running(v)' => \A m \in Stack(v)' : AtOrUnder(cur'[v][1], m)
  <2>1. Path(Stack(v))'
    <3>1. Path(Stack(v)')  BY <1>1, <1>2, StackFacts DEF TreeInv, ShapeInv
    <3> QED BY <3>1 DEF Path
  <2>2. pc[v] = pc'[v] \/ (v = p /\ pc'[v] \in InEngine /\ Running(v) /\ Running(v)')
        BY <1>1, <1>3 DEF Running, InEngine
  <2>3. pc'[v] = "share" => \A m \in Stack(v)' : cp_ap'[v][m] = GETWORK
    <3>1. CASE v = p  BY <1>1, <3>1
    <3>2. CASE v # p  BY <1>1, <1>2, <1>3, <3>2 DEF TreeInv, ShapeInv, StackInv
    <3> QED BY <3>1, <3>2
  <2> QED BY <1>1, <1>2, <2>1, <2>2, <2>3 DEF TreeInv, ShapeInv, StackInv, Running
<1>7. StackInv'  BY <1>6 DEF StackInv
<1>8. \A v \in Worker : Given(v) => Given(v)'  BY <1>1, <1>3 DEF Given
<1>9. Given(q)'  BY <1>3 DEF Given
<1>10. \A n \in Node : members[n] \subseteq members'[n]  BY <1>1
<1>11. ASSUME NEW v \in Worker, NEW m \in Node, cp_ap'[v][m] = GETWORK PROVE v \in members'[m]
  <2>1. CASE v = p
    <3>1. m \in Stack(p)'  BY <1>11, <2>1, NoneFacts DEF Stack
    <3> QED BY <1>1, <2>1, <3>1
  <2>2. CASE v # p  BY <1>1, <1>2, <1>10, <1>11, <2>2 DEF TreeInv, ShapeInv, ExactInv
  <2> QED BY <2>1, <2>2
<1>12. ASSUME NEW m \in Node, NEW v \in members'[m]
       PROVE  cp_ap'[v][m] = GETWORK \/ (Given(v)' /\ Younger(m, top_cp'[v]))
  <2>1. CASE v = p  BY <1>1, <2>1
  <2>2. CASE v = q
    <3>1. CASE m \in new
      <4>1. Younger(m, top_cp[p])  BY <1>1, <3>1
      <4>2. Younger(m, top_cp[q])
            BY <1>1, <1>2, <1>5, <3>1, <4>1, StackFacts, UnderFacts DEF TreeInv, ShapeInv, Younger
      <4> QED BY <1>2, <1>9, <2>2, <4>2
    <3>2. CASE m \notin new /\ q \notin members[m]
      <4>1. Younger(m, top_cp[q])  BY <1>1, <2>2, <3>2
      <4> QED BY <1>2, <1>9, <2>2, <4>1
    <3>3. CASE q \in members[m]
      <4>1. cp_ap[q][m] = GETWORK  BY <1>1, <1>2, <3>3, MemberFacts
      <4> QED BY <1>1, <2>2, <4>1
    <3> QED BY <3>1, <3>2, <3>3
  <2>3. CASE v # p /\ v # q
    <3>1. v \in members[m] /\ v \in Worker  BY <1>1, <1>4, <2>3
    <3>2. cp_ap[v][m] = GETWORK \/ (Given(v) /\ Younger(m, top_cp[v]))
          BY <1>2, <3>1 DEF TreeInv, ShapeInv, ExactInv
    <3> QED BY <1>1, <1>2, <1>8, <2>3, <3>1, <3>2
  <2> QED BY <2>1, <2>2, <2>3
<1>13. ExactInv'  BY <1>11, <1>12 DEF ExactInv
<1>14. ASSUME NEW k \in Node, NEW m \in Node, Younger(k, m),
              NEW i \in members'[k], NEW j \in members'[k], i \in members'[m]
       PROVE  j \in members'[m]
  <2>1. CASE k \in new  BY <1>1, <1>14, <2>1
  <2>2. CASE k \notin new
    <3> DEFINE As(v) == IF v = q THEN p ELSE v
    <3>1. As(i) \in members[k] /\ As(j) \in members[k] /\ As(i) # q /\ As(j) # q
          BY <1>1, <1>14, <2>2
    <3>2. As(i) \in members'[m]  BY <1>1, <1>14
    <3>3. m \notin new
      <4>1. ASSUME m \in new PROVE FALSE
        <5>1. As(i) = p  BY <1>1, <3>1, <3>2, <4>1
        <5>2. AtOrUnder(top_cp[p], k)  BY <1>1, <1>2, <3>1, <5>1, MemberFacts
        <5>3. Younger(m, top_cp[p])  BY <1>1, <4>1
        <5> QED BY <1>2, <1>14, <5>2, <5>3, StackFacts, UnderFacts DEF TreeInv, ShapeInv, Younger
      <4> QED BY <4>1
    <3>4. As(i) \in members[m]
      <4> HIDE DEF As
      <4> QED BY <1>1, <3>1, <3>2, <3>3
    <3>5. As(j) \in members[m]
      <4> HIDE DEF As
      <4> QED BY <1>2, <1>14, <3>1, <3>4 DEF TreeInv, ShapeInv, AgreeInv
    <3>6. As(j) \in members'[m]
      <4> HIDE DEF As
      <4> QED BY <1>10, <3>5
    <3> QED BY <1>1, <3>6
  <2> QED BY <2>1, <2>2
<1>15. AgreeInv'  BY <1>14 DEF AgreeInv
<1>16. ASSUME NEW v \in Worker PROVE B(v)' = B(v)
  <2>1. Youngest(Stack(v)') = Youngest(Stack(v))  BY <1>1
  <2> QED BY <2>1 DEF B, Youngest
<1>17. ASSUME NEW v \in Worker \ {p}, pc'[v] \in {"share", "forward"}
       PROVE  /\ pc[v] = pc'[v] /\ v # q /\ partner'[v] = partner[v] /\ partner[v] \in Worker
              /\ partner[v] # p /\ partner[v] # q /\ pc[partner[v]] = "ask"
              /\ partner[partner[v]] = v
  <2>1. pc[v] = pc'[v] /\ partner'[v] = partner[v]  BY <1>3
  <2>2. partner[v] \in Worker /\ pc[partner[v]] = "ask" /\ partner[partner[v]] = v
        BY <1>2, <1>17, <2>1 DEF TreeInv, TypeOK, ShapeInv, HandInv
  <2> QED BY <1>1, <1>17, <2>1, <2>2
<1>18. ASSUME NEW v \in Worker \ {p, q}, NEW m \in Node PROVE v \in members'[m] <=> v \in members[m]
  <2>1. CASE m \in new  BY <1>1, <2>1
  <2>2. CASE m \notin new  BY <1>1, <2>2
  <2> QED BY <2>1, <2>2
<1>19. ASSUME NEW v \in Worker
       PROVE  /\ pc'[v] \in {"share", "forward"} => pc'[partner'[v]] = "ask" /\ partner'[partner'[v]] = v
              /\ pc'[v] = "share" => /\ Younger(B(v)', top_cp'[partner'[v]])
                    /\ \A m \in Node : partner'[v] \in members'[m] <=> v \in members'[m]
              /\ pc'[v] = "forward" => top_cp'[partner'[v]] = top_cp'[v]
  <2>1. CASE v = p  BY <1>1, <1>2, <1>3, <2>1
  <2>2. CASE v # p /\ pc'[v] \in {"share", "forward"}
    <3>1. pc'[partner'[v]] = "ask" /\ partner'[partner'[v]] = v  BY <1>3, <1>17, <2>2
    <3>2. pc'[v] = "share" => Younger(B(v)', top_cp'[partner'[v]])
          BY <1>2, <1>16, <1>17, <2>2 DEF TreeInv, ShapeInv, HandInv
    <3>3. pc'[v] = "share" => \A m \in Node : partner'[v] \in members'[m] <=> v \in members'[m]
          BY <1>2, <1>17, <1>18, <2>2 DEF TreeInv, ShapeInv, HandInv
    <3>4. pc'[v] = "forward" => top_cp'[partner'[v]] = top_cp'[v]
          BY <1>2, <1>17, <2>2 DEF TreeInv, ShapeInv, HandInv
    <3> QED BY <3>1, <3>2, <3>3, <3>4
  <2> QED BY <2>1, <2>2
<1>20. HandInv'  BY <1>19 DEF HandInv
<1> QED BY <1>7, <1>13, <1>15, <1>20 DEF ShapeInv

LEMMA SetTopsShape ==
  ASSUME TreeInv, NEW p \in Worker, SetTops(p)
  PROVE  ShapeInv'
<1> DEFINE b == B(p)
<1>0. PICK q \in Worker : q = partner[p]  BY DEF TreeInv, TypeOK
<1>1. /\ p # q /\ pc[p] = "share" /\ pc[q] = "ask" /\ partner[q] = p
      /\ pc' = [pc EXCEPT ![p] = "forward"] /\ members' = members /\ partner' = partner
      /\ \A v \in Worker : Given(v) <=> v = q \/ Given(v)'
      /\ TypeOK
      /\ b \in Node /\ b \in Stack(p) /\ \A n \in Stack(p) : AtOrUnder(b, n)
      /\ top_cp'[p] = b /\ top_cp'[q] = b /\ \A v \in Worker \ {p, q} : top_cp'[v] = top_cp[v]
      /\ cp_ap' = [cp_ap EXCEPT ![q] = cp_ap[p]]
      /\ \A v \in Worker \ {q} : Stack(v)' = Stack(v)
      /\ \A n \in Stack(p) : cp_ap[p][n] = GETWORK
      /\ \A n \in Node : /\ p \in members[n] <=> n \in Stack(p)
                         /\ q \in members[n] <=> n \in Stack(p)
  BY <1>0, SetTopsFacts DEF TreeInv
<1>2. cur' = cur  BY DEF SetTops
<1> HIDE DEF b
<1>3. /\ pc'[p] = "forward" /\ \A v \in Worker \ {p} : pc'[v] = pc[v]
      /\ cp_ap'[q] = cp_ap[p] /\ \A v \in Worker \ {q} : cp_ap'[v] = cp_ap[v]
      BY <1>1 DEF TreeInv, TypeOK
<1>14. Stack(q)' = Stack(p)  BY <1>3 DEF Stack
<1>4. ASSUME NEW v \in Worker
      PROVE  /\ Path(Stack(v))' /\ top_cp'[v] \in Stack(v)'
             /\ pc'[v] = "share" => \A m \in Stack(v)' : cp_ap'[v][m] = GETWORK
             /\ pc'[v] \notin InEngine => \A m \in Stack(v)' : AtOrUnder(top_cp'[v], m)
             /\ Running(v)' => \A m \in Stack(v)' : AtOrUnder(cur'[v][1], m)
  <2>1. Path(Stack(v))'
    <3>1. Path(Stack(p)) /\ Path(Stack(v))  BY StackFacts DEF TreeInv, ShapeInv
    <3>2. Stack(v)' = Stack(p) \/ Stack(v)' = Stack(v)  BY <1>1, <1>14
    <3>3. Path(Stack(v)')  BY <3>1, <3>2
    <3> QED BY <3>3 DEF Path
  <2>2. CASE v = q
    <3>1. pc'[v] = "ask" /\ ~ Running(v)'  BY <1>1, <1>3, <2>2 DEF Running
    <3>2. top_cp'[v] \in Stack(v)' /\ \A m \in Stack(v)' : AtOrUnder(top_cp'[v], m)  BY <1>1, <1>14, <2>2
    <3> QED BY <2>1, <3>1, <3>2
  <2>3. CASE v = p
    <3>1. pc'[p] \in InEngine  BY <1>3 DEF InEngine
    <3>2. \A m \in Stack(p) : AtOrUnder(cur[p][1], m)
          BY <1>1 DEF TreeInv, ShapeInv, StackInv, Running
    <3>3. Stack(p)' = Stack(p)  BY <1>1
    <3> QED BY <1>1, <1>2, <1>3, <2>1, <2>3, <3>1, <3>2, <3>3
  <2>4. CASE v # p /\ v # q
    <3>1. Stack(v)' = Stack(v) /\ pc'[v] = pc[v] /\ cp_ap'[v] = cp_ap[v] /\ top_cp'[v] = top_cp[v]
          BY <1>1, <1>3, <2>4
    <3> QED BY <1>2, <2>1, <3>1 DEF TreeInv, ShapeInv, StackInv, Running
  <2> QED BY <2>2, <2>3, <2>4
<1>5. StackInv'  BY <1>4 DEF StackInv
<1>6. ASSUME NEW v \in Worker, NEW m \in Node, cp_ap'[v][m] = GETWORK PROVE v \in members'[m]
  <2>1. CASE v = q
    <3>1. p \in members[m]  BY <1>3, <1>6, <2>1 DEF TreeInv, ShapeInv, ExactInv
    <3> QED BY <1>1, <2>1, <3>1
  <2>2. CASE v # q  BY <1>1, <1>3, <1>6, <2>2 DEF TreeInv, ShapeInv, ExactInv
  <2> QED BY <2>1, <2>2
<1>7. ASSUME NEW m \in Node, NEW v \in members'[m]
      PROVE  cp_ap'[v][m] = GETWORK \/ (Given(v)' /\ Younger(m, top_cp'[v]))
  <2>1. v \in Worker /\ v \in members[m]  BY <1>1 DEF TreeInv, TypeOK
  <2>2. CASE v = q  BY <1>1, <1>3, <2>1, <2>2
  <2>3. CASE v = p  BY <1>1, <1>3, <2>1, <2>3
  <2>4. CASE v # p /\ v # q  BY <1>1, <1>3, <2>1, <2>4 DEF TreeInv, ShapeInv, ExactInv
  <2> QED BY <2>2, <2>3, <2>4
<1>8. ExactInv'  BY <1>6, <1>7 DEF ExactInv
<1>9. AgreeInv'  BY <1>1 DEF TreeInv, ShapeInv, AgreeInv
<1>10. ASSUME NEW v \in Worker \ {q} PROVE B(v)' = B(v)
  <2>1. Youngest(Stack(v)') = Youngest(Stack(v))  BY <1>1
  <2> QED BY <2>1 DEF B, Youngest
<1>11. ASSUME NEW v \in Worker \ {p}, pc'[v] \in {"share", "forward"}
       PROVE  /\ pc[v] = pc'[v] /\ v # q /\ partner[v] \in Worker
              /\ partner[v] # p /\ partner[v] # q /\ pc[partner[v]] = "ask"
              /\ partner[partner[v]] = v
  <2>1. pc[v] = pc'[v]  BY <1>3
  <2>2. partner[v] \in Worker /\ pc[partner[v]] = "ask" /\ partner[partner[v]] = v
        BY <1>11, <2>1 DEF TreeInv, TypeOK, ShapeInv, HandInv
  <2> QED BY <1>0, <1>1, <1>11, <2>1, <2>2
<1>12. ASSUME NEW v \in Worker
       PROVE  /\ pc'[v] \in {"share", "forward"} => pc'[partner'[v]] = "ask" /\ partner'[partner'[v]] = v
              /\ pc'[v] = "share" => /\ Younger(B(v)', top_cp'[partner'[v]])
                    /\ \A m \in Node : partner'[v] \in members'[m] <=> v \in members'[m]
              /\ pc'[v] = "forward" => top_cp'[partner'[v]] = top_cp'[v]
  <2>1. CASE v = p
    <3>1. partner'[v] = q /\ partner'[q] = p /\ pc'[q] = "ask" /\ pc'[v] = "forward"
          BY <1>0, <1>1, <1>3, <2>1
    <3> QED BY <1>1, <2>1, <3>1
  <2>2. CASE v # p /\ pc'[v] \in {"share", "forward"}
    <3>1. pc'[partner'[v]] = "ask" /\ partner'[partner'[v]] = v  BY <1>1, <1>3, <1>11, <2>2
    <3>2. v # p /\ v # q /\ partner[v] # p /\ partner[v] # q /\ partner[v] \in Worker
          BY <1>11, <2>2
    <3>3. pc'[v] = "share" => Younger(B(v)', top_cp'[partner'[v]])
          BY <1>1, <1>10, <1>11, <2>2, <3>2 DEF TreeInv, ShapeInv, HandInv
    <3>4. pc'[v] = "share" => \A m \in Node : partner'[v] \in members'[m] <=> v \in members'[m]
          BY <1>1, <1>11, <2>2 DEF TreeInv, ShapeInv, HandInv
    <3>5. pc'[v] = "forward" => top_cp'[partner'[v]] = top_cp'[v]
          BY <1>1, <1>11, <2>2, <3>2 DEF TreeInv, ShapeInv, HandInv
    <3> QED BY <3>1, <3>3, <3>4, <3>5
  <2>3. CASE pc'[v] \notin {"share", "forward"}  BY <2>3
  <2> QED BY <2>1, <2>2, <2>3
<1>13. HandInv'  BY <1>12 DEF HandInv
<1> QED BY <1>5, <1>8, <1>9, <1>13 DEF ShapeInv

\* The steps by what they do to the stacks.
PlainStep(w) ==
  \/ Call(w) \/ Exit(w) \/ EnterScheduler(w) \/ NewAnswer(w) \/ StoreAnswer(w)
  \/ BeginCut(w) \/ LockToSend(w) \/ Send(w) \/ CutStore(w)
  \/ LookUp(w) \/ CutMore(w) \/ SendMore(w) \/ StopMore(w) \/ NextMore(w) \/ EndCut(w)
  \/ Scan(w) \/ DoPending(w) \/ FindLeftmost(w) \/ PutAnswers(w) \/ GiveUp(w)
EngineStep(w) == Try(w) \/ Cut(w) \/ Retry(w) \/ CheckPruneRequest(w)
MoveStep(w) == CutUp(w) \/ PruneUp(w) \/ MoveUp(w) \/ MoveUpLast(w)
Choosing(w, u) == Choose(w, u) \/ TakeBranch(w) \/ TakeIdleBranch(w, u)
OtherStep ==
  \/ \E w, u \in Worker : \/ GetAlternative(w) \/ PutIdle(w) \/ Choosing(w, u)
                          \/ Refuse(w, u) \/ Forward(w)
  \/ Finish \/ UNCHANGED vars

LEMMA StepCases ==
  ASSUME [Next]_vars
  PROVE  \/ \E w \in Worker : PlainStep(w) \/ EngineStep(w) \/ MoveStep(w) \/ SetTops(w)
         \/ \E p, q \in Worker : Share(p, q)
         \/ OtherStep
<1>1. ASSUME NEW w \in Worker, Step(w)
      PROVE  \/ PlainStep(w) \/ EngineStep(w) \/ MoveStep(w) \/ SetTops(w)
             \/ \E p, q \in Worker : Share(p, q)
             \/ OtherStep
  BY <1>1 DEF Step, PlainStep, EngineStep, MoveStep, OtherStep, Choosing
<1> QED BY <1>1 DEF Next, Over, OtherStep

\* A step by which one worker goes on that leaves all stacks alone.
LEMMA PlainShape ==
  ASSUME TreeInv, NEW w \in Worker, UNCHANGED <<cp_ap, top_cp, members, partner>>,
         \A v \in Worker \ {w} : pc'[v] = pc[v], pc[w] \notin {"share", "forward", "ask"},
         pc'[w] \notin {"run", "share", "forward"}, \A v \in Worker \ {w} : cur'[v] = cur[v],
         pc'[w] \notin InEngine => pc[w] \notin InEngine \/ B(w) = top_cp[w]
  PROVE  ShapeInv'
<1>1. pc'[w] \notin InEngine => \A n \in Stack(w) : AtOrUnder(top_cp[w], n)
  <2>1. pc[w] \notin InEngine => \A n \in Stack(w) : AtOrUnder(top_cp[w], n)
        BY DEF TreeInv, ShapeInv, StackInv
  <2>2. \A n \in Stack(w) : AtOrUnder(B(w), n)  BY StackFacts DEF TreeInv, ShapeInv
  <2> QED BY <2>1, <2>2
<1> QED BY <1>1, GotoShape

\* The steps of the engine that change private choice points.
LEMMA EngineShape ==
  ASSUME Inv, NEW w \in Worker, EngineStep(w)
  PROVE  ShapeInv'
<1>0. TreeInv /\ pc \in [Worker -> Locations]  BY DEF Inv, TreeInv, TypeOK
<1>1. CASE Try(w)
  <2> DEFINE c == Created(cur[w])
  <2>1. /\ c \in Node /\ \A n \in Stack(w) : Younger(c, n)
        /\ members[c] = {}
        /\ cp_ap'[w][c] = 2 /\ \A n \in Node \ {c} : cp_ap'[w][n] = cp_ap[w][n]
        /\ \A v \in Worker \ {w} : cp_ap'[v] = cp_ap[v]
        /\ Stack(w)' = Stack(w) \cup {c} /\ cur'[w] = <<c, 1>>
        /\ \A v \in Worker \ {w} : cur'[v] = cur[v]
        /\ \A v \in Worker : c \notin Stack(v)
        BY <1>1, TryFacts
  <2>2. pc' = pc /\ pc[w] = "run" /\ top_cp' = top_cp /\ members' = members /\ partner' = partner
        BY <1>1 DEF Try, locals, frames
  <2> HIDE DEF c
  <2>4. ASSUME NEW n \in Node PROVE cp_ap'[w][n] = GETWORK <=> cp_ap[w][n] = GETWORK
    <3>1. cp_ap[w][c] # GETWORK  BY <1>0, <2>1, StackFacts DEF TreeInv, ShapeInv
    <3> QED BY <2>1, <3>1, NoneFacts
  <2>5. Path(Stack(w))'
    <3>1. Path(Stack(w) \cup {c})
          BY <1>0, <2>1, StackFacts, PathPush DEF TreeInv, ShapeInv, Younger
    <3>2. Path(Stack(w)')  BY <2>1, <3>1
    <3> QED BY <3>2 DEF Path
  <2>6. \A n \in Stack(w)' : AtOrUnder(cur'[w][1], n)  BY <2>1 DEF AtOrUnder, Younger
  <2> QED BY <1>0, <2>1, <2>2, <2>4, <2>5, <2>6, PrivateShape DEF InEngine
<1>2. CASE Cut(w)
  <2> DEFINE to == CpB(w, cur[w][1])
             r == IF Younger(top_cp[w], to) THEN top_cp[w] ELSE to
  <2>1. /\ r \in Stack(w) /\ AtOrUnder(r, top_cp[w]) /\ pc[w] = "exit"
        /\ cp_ap' = [cp_ap EXCEPT ![w] = CutTo(w, r)]
        /\ \A v \in Worker \ {w} : cur'[v] = cur[v]
        BY <1>0, <1>2, CutFacts
  <2>2. top_cp' = top_cp /\ members' = members /\ partner' = partner
        BY <1>2 DEF Cut, frames
  <2>3. /\ \/ pc'[w] = "cut" /\ r = top_cp[w]
           \/ pc'[w] \in {"exit", "fail"}
        /\ \A v \in Worker \ {w} : pc'[v] = pc[v]
        BY <1>0, <1>2 DEF Cut
  <2> HIDE DEF r
  <2>4. /\ \A v \in Worker \ {w} : cp_ap'[v] = cp_ap[v]
        /\ \A n \in Stack(w)' : AtOrUnder(r, n)
        /\ \A n \in Node : cp_ap'[w][n] = GETWORK <=> cp_ap[w][n] = GETWORK
        /\ Path(Stack(w))'
        BY <1>0, <2>1, CutToFacts
  <2>5. pc'[w] \notin InEngine => \A n \in Stack(w)' : AtOrUnder(top_cp[w], n)
        BY <2>3, <2>4 DEF InEngine
  <2> QED BY <1>0, <2>1, <2>2, <2>3, <2>4, <2>5, PrivateShape
<1>3. CASE Retry(w)
  <2> DEFINE n == B(w)
  <2>1. /\ n \in Node /\ pc[w] = "fail" /\ pc' = [pc EXCEPT ![w] = "run"]
        /\ \A m \in Stack(w) : AtOrUnder(n, m)
        /\ cp_ap[w][n] \in 2 .. Len(Tree[n])
        /\ cp_ap'[w][n] = NextAlternative(n, cp_ap[w][n])
        /\ \A m \in Node \ {n} : cp_ap'[w][m] = cp_ap[w][m]
        /\ Stack(w)' \subseteq Stack(w) /\ Path(Stack(w))'
        /\ \A v \in Worker \ {w} : cp_ap'[v] = cp_ap[v]
        /\ cur'[w] = <<n, cp_ap[w][n]>> /\ \A v \in Worker \ {w} : cur'[v] = cur[v]
        BY <1>0, <1>3, RetryFacts
  <2>2. top_cp' = top_cp /\ members' = members /\ partner' = partner
        BY <1>3 DEF Retry, frames, locals
  <2> HIDE DEF n
  <2>3. cp_ap[w][n] # GETWORK /\ NextAlternative(n, cp_ap[w][n]) # GETWORK
    <3>1. \A a \in 2 .. Len(Tree[n]) : a # -1  OBVIOUS
    <3>2. NextAlternative(n, cp_ap[w][n]) \in {NULL} \cup (2 .. Len(Tree[n]))
          BY <2>1, ClauseFacts
    <3> QED BY <2>1, <3>1, <3>2, NoneFacts
  <2>4. \A m \in Node : cp_ap'[w][m] = GETWORK <=> cp_ap[w][m] = GETWORK  BY <2>1, <2>3
  <2>5. \A m \in Stack(w)' : AtOrUnder(cur'[w][1], m)  BY <2>1
  <2>6. pc'[w] = "run" /\ \A v \in Worker \ {w} : pc'[v] = pc[v]  BY <1>0, <2>1
  <2> QED BY <1>0, <2>1, <2>2, <2>4, <2>5, <2>6, PrivateShape DEF InEngine
<1>4. CASE CheckPruneRequest(w)
  <2>1. /\ pc[w] = "run" /\ pc' = [pc EXCEPT ![w] = "prune"] /\ cur' = cur
        /\ cp_ap' = [cp_ap EXCEPT ![w] = CutTo(w, top_cp[w])]
        /\ top_cp' = top_cp /\ members' = members /\ partner' = partner
        BY <1>4 DEF CheckPruneRequest, Goto, frames, locals
  <2>2. top_cp[w] \in Stack(w) /\ AtOrUnder(top_cp[w], top_cp[w])
        BY <1>0, StackFacts DEF TreeInv, ShapeInv, AtOrUnder
  <2>3. /\ \A v \in Worker \ {w} : cp_ap'[v] = cp_ap[v]
        /\ \A n \in Stack(w)' : AtOrUnder(top_cp[w], n)
        /\ \A n \in Node : cp_ap'[w][n] = GETWORK <=> cp_ap[w][n] = GETWORK
        /\ Path(Stack(w))'
        BY <1>0, <2>1, <2>2, CutToFacts
  <2>4. pc'[w] = "prune" /\ \A v \in Worker \ {w} : pc'[v] = pc[v]  BY <1>0, <2>1
  <2> QED BY <1>0, <2>1, <2>3, <2>4, PrivateShape
<1> QED BY <1>1, <1>2, <1>3, <1>4 DEF EngineStep

\* A frame with one below it is not left for a choice point above the root.
LEMMA UpFacts ==
  ASSUME Inv, NEW w \in Worker
  PROVE  /\ pc[w] \in {"cut", "lock", "send", "up", "prune"} => top_cp[w] # Root
         /\ pc[w] = "prune" => prune_request[w] \in Node /\ Younger(top_cp[w], prune_request[w])
         /\ pc[w] = "up" => SendFrame(w) \in Node /\ w \in members[SendFrame(w)]
<1>1. \A n \in Node : ~ Younger(Root, n)  BY UnderFacts DEF Younger
<1>2. pc[w] = "prune" => prune_request[w] \in Node /\ Younger(top_cp[w], prune_request[w])
      BY DEF Inv, RequestInv, RequestAt, TreeInv, TypeOK, Moved
<1>3. pc[w] \in {"cut", "lock", "send"} => cut[w].to \in Node /\ Younger(top_cp[w], cut[w].to)
      BY DEF Inv, CutInv, CutAt, TreeInv, TypeOK, CutLocals
<1>4. pc[w] = "up" => /\ SendFrame(w) \in Node /\ w \in members[SendFrame(w)]
                      /\ Younger(top_cp[w], SendFrame(w))
      BY DEF Inv, CutInv, CutAt, TreeInv, TypeOK, CutLocals, SendFrame
<1> QED BY <1>1, <1>2, <1>3, <1>4

\* Workers move up.
LEMMA MoveShape ==
  ASSUME Inv, NEW w \in Worker, MoveStep(w)
  PROVE  /\ ShapeInv' /\ pc[w] \in {"up", "prune", "work", "idle"} /\ top_cp[w] # Root
         /\ Pop(w, top_cp[w]) /\ members' = Without(w, top_cp[w])
         /\ partner' = partner /\ cur' = cur /\ \A v \in Worker \ {w} : pc'[v] = pc[v]
         /\ pc'[w] \in {"store", "up", "scan", "prune", "fail", "carry", "work", "idle"}
<1>1. /\ pc[w] \in {"up", "prune", "work", "idle"} /\ top_cp[w] # Root
      /\ Pop(w, top_cp[w]) /\ members' = Without(w, top_cp[w])
      BY UpFacts DEF MoveStep, CutUp, PruneUp, MoveUp, MoveUpLast, MayMove, Goto
<1>2. partner' = partner /\ cur' = cur
      BY DEF MoveStep, CutUp, PruneUp, MoveUp, MoveUpLast, locals
<1>3. \E to \in {"store", "up", "scan", "prune", "fail", "carry", "work", "idle"} :
        pc' = [pc EXCEPT ![w] = to]
  <2>1. CASE CutUp(w)  BY <2>1 DEF CutUp, Goto
  <2>2. CASE PruneUp(w)  BY <2>2 DEF PruneUp, Goto
  <2>3. Arrived(w, CpB(w, top_cp[w])) \in {"fail", pc[w]}  BY DEF Arrived
  <2>4. CASE MoveUp(w)
        BY <1>1, <2>3, <2>4, UpFacts DEF MoveUp, MayMove
  <2>5. CASE MoveUpLast(w)
        BY <1>1, <2>3, <2>5, UpFacts DEF MoveUpLast, MayMove
  <2> QED BY <2>1, <2>2, <2>4, <2>5 DEF MoveStep
<1>4. /\ pc'[w] \in {"store", "up", "scan", "prune", "fail", "carry", "work", "idle"}
      /\ \A v \in Worker \ {w} : pc'[v] = pc[v]
      BY <1>3 DEF Inv, TreeInv, TypeOK
<1>5. ShapeInv'  BY <1>1, <1>2, <1>4, PopShape DEF InEngine, Inv
<1> QED BY <1>1, <1>2, <1>4, <1>5

\* Steps of one worker that leave the stacks of all alone.
LEMMA PlainSteps ==
  ASSUME Inv, NEW w \in Worker, PlainStep(w)
  PROVE  /\ UNCHANGED <<cp_ap, top_cp, members, partner>>
         /\ \A v \in Worker \ {w} : pc'[v] = pc[v] /\ cur'[v] = cur[v]
         /\ pc[w] \notin {"share", "forward", "ask"} /\ pc'[w] \in Locations
         /\ pc'[w] \notin {"run", "share", "forward"}
         /\ pc'[w] = "ask" => pc[w] = "request"
         /\ pc'[w] \notin InEngine => pc[w] \notin InEngine \/ B(w) = top_cp[w]
<1>0. pc \in [Worker -> Locations] /\ back[w] \in {"fail", "exit", "work", "idle"}
      BY DEF Inv, TreeInv, TypeOK
<1>1. CASE Call(w)  BY <1>0, <1>1 DEF Call, Goto, frames, locals, InEngine, Locations
<1>2. CASE Exit(w)
  <2>1. /\ pc[w] = "exit" /\ pc' = pc /\ cur' = [cur EXCEPT ![w] = Parent(cur[w][1])]
        /\ UNCHANGED <<cp_ap, top_cp, members, partner>>
        BY <1>2 DEF Exit, frames, locals
  <2>2. cur \in [Worker -> Alternative]  BY DEF Inv, TreeInv, TypeOK
  <2> QED BY <1>0, <2>1, <2>2 DEF InEngine, Locations
<1>3. CASE EnterScheduler(w)
      BY <1>0, <1>3 DEF EnterScheduler, Goto, stacks, frames, locals, InEngine, Locations
<1>4. CASE NewAnswer(w)  BY <1>0, <1>4 DEF NewAnswer, Goto, stacks, InEngine, Locations
<1>5. CASE StoreAnswer(w)  BY <1>0, <1>5 DEF StoreAnswer, Goto, stacks, InEngine, Locations
<1>6. CASE BeginCut(w)  BY <1>0, <1>6 DEF BeginCut, Goto, stacks, InEngine, Locations
<1>7. CASE LockToSend(w)
  <2>1. pc[w] = "lock" /\ pc' = [pc EXCEPT ![w] = pc'[w]] /\ pc'[w] \in {"store", "up", "send"}
        /\ UNCHANGED <<cp_ap, top_cp, members, partner, cur>>
        BY <1>0, <1>7 DEF LockToSend, Goto, stacks, NextUp
  <2> QED BY <1>0, <2>1 DEF InEngine, Locations
<1>8. CASE Send(w)
  <2>1. pc[w] = "send" /\ pc' = [pc EXCEPT ![w] = pc'[w]] /\ pc'[w] \in {"store", "up", "send"}
        /\ UNCHANGED <<cp_ap, top_cp, members, partner, cur>>
        BY <1>0, <1>8 DEF Send, Goto, stacks, NextUp
  <2> QED BY <1>0, <2>1 DEF InEngine, Locations
<1>9. CASE CutStore(w)
  <2>1. pc[w] = "store" /\ pc' = [pc EXCEPT ![w] = pc'[w]] /\ pc'[w] \in {"done", "look"}
        /\ UNCHANGED <<cp_ap, top_cp, members, partner, cur>>
        BY <1>0, <1>9 DEF CutStore, stacks
  <2> QED BY <1>0, <2>1 DEF InEngine, Locations
<1>10. CASE LookUp(w)  BY <1>0, <1>10 DEF LookUp, Goto, stacks, frames, InEngine, Locations
<1>11. CASE CutMore(w)  BY <1>0, <1>11 DEF CutMore, Goto, stacks, InEngine, Locations
<1>12. CASE SendMore(w)  BY <1>0, <1>12 DEF SendMore, stacks, frames, InEngine, Locations
<1>13. CASE StopMore(w)  BY <1>0, <1>13 DEF StopMore, Goto, stacks, locals, InEngine, Locations
<1>14. CASE NextMore(w)  BY <1>0, <1>14 DEF NextMore, Goto, stacks, locals, InEngine, Locations
<1>15. CASE EndCut(w)  BY <1>0, <1>15 DEF EndCut, Goto, stacks, frames, InEngine, Locations
<1>16. CASE Scan(w)  BY <1>0, <1>16 DEF Scan, Goto, stacks, frames, InEngine, Locations
<1>17. CASE DoPending(w)  BY <1>0, <1>17 DEF DoPending, MayMove, stacks, InEngine, Locations
<1>18. CASE FindLeftmost(w)  BY <1>0, <1>18 DEF FindLeftmost, Goto, stacks, InEngine, Locations
<1>19. CASE PutAnswers(w)  BY <1>0, <1>19 DEF PutAnswers, Goto, stacks, InEngine, Locations
<1>20. CASE GiveUp(w)  BY <1>0, <1>20 DEF GiveUp, Goto, stacks, frames, locals, InEngine, Locations
<1> QED BY <1>1, <1>2, <1>3, <1>4, <1>5, <1>6, <1>7, <1>8, <1>9, <1>10, <1>11, <1>12, <1>13, <1>14,
           <1>15, <1>16, <1>17, <1>18, <1>19, <1>20 DEF PlainStep

\* Steps that go back to the engine, or concern another worker.
LEMMA OtherSteps ==
  ASSUME Inv, OtherStep
  PROVE  ShapeInv' /\ UNCHANGED <<cp_ap, top_cp, members>>
<1>0. /\ TreeInv /\ pc \in [Worker -> Locations] /\ cur \in [Worker -> Alternative]
      /\ partner \in [Worker -> Worker]
      BY DEF Inv, TreeInv, TypeOK
<1>1. UNCHANGED <<cp_ap, top_cp, members>>
      BY DEF OtherStep, GetAlternative, PutIdle, Choosing, Choose, TakeBranch, TakeIdleBranch,
         Refuse, Forward, Finish, vars, stacks, frames
<1>2. \A v \in Worker : pc[v] \notin InEngine => \A n \in Stack(v) : AtOrUnder(top_cp[v], n)
      BY <1>0 DEF TreeInv, ShapeInv, StackInv
<1>3. \A v \in Worker : Running(v) => \A n \in Stack(v) : AtOrUnder(cur[v][1], n)
      BY <1>0 DEF TreeInv, ShapeInv, StackInv
<1>4. \A p \in Worker : pc[p] \in {"share", "forward"} =>
        pc[partner[p]] = "ask" /\ partner[partner[p]] = p /\ partner[p] \in Worker
      BY <1>0 DEF TreeInv, ShapeInv, HandInv
<1> DEFINE Q1 == \A v \in Worker : pc'[v] \notin InEngine => \A n \in Stack(v) : AtOrUnder(top_cp[v], n)
           Q2 == \A v \in Worker : Running(v)' => \A n \in Stack(v) : AtOrUnder(cur'[v][1], n)
           Q3 == /\ \A p \in Worker : pc[p] = "share" <=> pc'[p] = "share"
                 /\ \A p \in Worker : pc'[p] = "forward" => pc[p] = "forward"
           Q4 == \A p \in Worker : pc'[p] \in {"share", "forward"} =>
                   partner'[p] = partner[p] /\ pc'[partner[p]] = "ask" /\ partner'[partner[p]] = p
<1>5. ASSUME Q1, Q2, Q3, Q4 PROVE ShapeInv'
      BY <1>0, <1>1, <1>5, ShapeKept
<1>6. ASSUME NEW w \in Worker, GetAlternative(w) PROVE ShapeInv'
  <2>1. /\ pc[w] = "fail" /\ pc' = [pc EXCEPT ![w] = "run"] /\ B(w) = top_cp[w]
        /\ cur' = [cur EXCEPT ![w] = <<top_cp[w], alternative[top_cp[w]]>>] /\ partner' = partner
        BY <1>6 DEF GetAlternative, Goto, locals
  <2>2. pc'[w] = "run" /\ \A v \in Worker \ {w} : pc'[v] = pc[v] /\ cur'[v] = cur[v]
        BY <1>0, <2>1
  <2>3. cur'[w][1] = B(w) /\ \A n \in Stack(w) : AtOrUnder(B(w), n)
        BY <1>0, <2>1, StackFacts DEF TreeInv, ShapeInv
  <2>4. Q1  BY <1>2, <2>2 DEF InEngine
  <2>5. Q2
    <3>1. \A v \in Worker \ {w} : Running(v)' => Running(v)  BY <2>2 DEF Running
    <3> QED BY <1>3, <2>2, <2>3, <3>1
  <2>6. Q3 /\ Q4  BY <1>4, <2>1, <2>2
  <2> QED BY <1>1, <1>5, <2>4, <2>5, <2>6
<1>7. ASSUME NEW w \in Worker, PutIdle(w) PROVE ShapeInv'
  <2>1. /\ pc[w] = "scan" /\ cur' = cur /\ partner' = partner
        /\ \A v \in Worker : pc'[v] = IF v = w \/ (pc[v] = "ask" /\ partner[v] = w)
                                      THEN "idle" ELSE pc[v]
        BY <1>7 DEF PutIdle, stacks, locals
  <2>2. Q1  BY <1>2, <2>1 DEF InEngine
  <2>3. Q2  BY <1>3, <2>1 DEF Running
  <2>4. Q3  BY <2>1
  <2>5. Q4  BY <1>4, <2>1
  <2> QED BY <1>1, <1>5, <2>2, <2>3, <2>4, <2>5
<1>8. ASSUME NEW w \in Worker, NEW u \in Worker, Choosing(w, u) PROVE ShapeInv'
  <2>1. /\ pc[w] \in {"idle", "request"} /\ cur' = cur
        /\ \E to \in {"idle", "request", "ask"} : pc' = [pc EXCEPT ![w] = to]
        /\ partner' \in {partner, [partner EXCEPT ![w] = u]}
        BY <1>8 DEF Choosing, Choose, TakeBranch, TakeIdleBranch, Goto, stacks, locals
  <2>2. /\ pc'[w] \in {"idle", "request", "ask"}
        /\ \A v \in Worker \ {w} : pc'[v] = pc[v] /\ partner'[v] = partner[v]
        BY <1>0, <2>1
  <2>3. Q1  BY <1>2, <2>1, <2>2 DEF InEngine
  <2>4. Q2  BY <1>3, <2>1, <2>2 DEF Running
  <2>5. Q3  BY <2>1, <2>2
  <2>6. Q4  BY <1>4, <2>1, <2>2
  <2> QED BY <1>1, <1>5, <2>3, <2>4, <2>5, <2>6
<1>9. ASSUME NEW w \in Worker, NEW u \in Worker, Refuse(w, u) PROVE ShapeInv'
  <2>1. /\ pc[w] = "run" /\ partner[u] = w /\ pc[u] = "ask" /\ pc' = [pc EXCEPT ![u] = "idle"]
        /\ cur' = cur /\ partner' = partner
        BY <1>9 DEF Refuse, Goto, stacks, locals
  <2>2. pc'[u] = "idle" /\ \A v \in Worker \ {u} : pc'[v] = pc[v]
        BY <1>0, <2>1
  <2>3. Q1  BY <1>2, <2>1, <2>2 DEF InEngine
  <2>4. Q2  BY <1>3, <2>1, <2>2 DEF Running
  <2>5. Q3  BY <2>1, <2>2
  <2>6. Q4  BY <1>4, <2>1, <2>2
  <2> QED BY <1>1, <1>5, <2>3, <2>4, <2>5, <2>6
<1>10. ASSUME NEW w \in Worker, Forward(w) PROVE ShapeInv'
  <2>1. /\ pc[w] = "forward" /\ pc' = [pc EXCEPT ![w] = "run", ![partner[w]] = "fail"]
        /\ cur' = cur /\ partner' = partner
        BY <1>10 DEF Forward, stacks, locals
  <2>2. partner[w] \in Worker /\ pc[partner[w]] = "ask" /\ partner[partner[w]] = w
        BY <1>4, <2>1
  <2>3. /\ pc'[w] = "run" /\ pc'[partner[w]] = "fail"
        /\ \A v \in Worker \ {w, partner[w]} : pc'[v] = pc[v]
        BY <1>0, <2>1, <2>2
  <2>4. Q1  BY <1>2, <2>1, <2>2, <2>3 DEF InEngine
  <2>5. Q2  BY <1>3, <2>1, <2>2, <2>3 DEF Running
  <2>6. Q3  BY <2>1, <2>2, <2>3
  <2>7. Q4
    <3> SUFFICES ASSUME NEW p \in Worker, pc'[p] \in {"share", "forward"}
                 PROVE  pc'[partner[p]] = "ask" /\ partner[partner[p]] = p
        BY <2>1
    <3>1. p # w /\ pc[p] = pc'[p] /\ p # partner[w]  BY <2>3
    <3>2. pc[partner[p]] = "ask" /\ partner[partner[p]] = p /\ partner[p] \in Worker
          BY <1>4, <3>1
    <3>3. partner[p] # w /\ partner[p] # partner[w]  BY <2>1, <2>2, <3>1, <3>2
    <3> QED BY <2>3, <3>2, <3>3
  <2> QED BY <1>1, <1>5, <2>4, <2>5, <2>6, <2>7
<1>11. CASE Finish
  <2>1. /\ cur' = cur /\ partner' = partner
        /\ \A v \in Worker : pc[v] = "idle" /\ pc'[v] = "end"
        BY <1>11 DEF Finish, stacks, locals
  <2>2. Q1  BY <1>2, <2>1 DEF InEngine
  <2>3. Q2  BY <1>3, <2>1 DEF Running
  <2>4. Q3 /\ Q4  BY <2>1
  <2> QED BY <1>1, <1>5, <2>2, <2>3, <2>4
<1>12. CASE UNCHANGED vars
  <2>1. cur' = cur /\ partner' = partner /\ pc' = pc  BY <1>12 DEF vars, stacks, locals
  <2>2. Q1  BY <1>2, <2>1
  <2>3. Q2  BY <1>3, <2>1 DEF Running
  <2>4. Q3  BY <2>1
  <2>5. Q4  BY <1>4, <2>1
  <2> QED BY <1>1, <1>5, <2>2, <2>3, <2>4, <2>5
<1> QED BY <1>1, <1>6, <1>7, <1>8, <1>9, <1>10, <1>11, <1>12 DEF OtherStep

LEMMA ShapeStep ==
  ASSUME Inv, [Next]_vars
  PROVE  ShapeInv'
<1>0. TreeInv  BY DEF Inv
<1>1. ASSUME NEW w \in Worker, PlainStep(w) PROVE ShapeInv'
      BY <1>0, <1>1, PlainSteps, PlainShape
<1>2. ASSUME NEW w \in Worker, EngineStep(w) PROVE ShapeInv'  BY <1>2, EngineShape
<1>3. ASSUME NEW w \in Worker, MoveStep(w) PROVE ShapeInv'  BY <1>3, MoveShape
<1>4. ASSUME NEW w \in Worker, SetTops(w) PROVE ShapeInv'  BY <1>0, <1>4, SetTopsShape
<1>5. ASSUME NEW p \in Worker, NEW q \in Worker, Share(p, q) PROVE ShapeInv'  BY <1>5, ShareShape
<1>6. ASSUME OtherStep PROVE ShapeInv'  BY <1>6, OtherSteps
<1> QED BY <1>1, <1>2, <1>3, <1>4, <1>5, <1>6, StepCases

-----------------------------------------------------------------------------
(***************************************************************************)
(* Types.                                                                  *)
(***************************************************************************)

TypeControl ==
  /\ pc \in [Worker -> Locations]
  /\ cur \in [Worker -> Alternative] /\ answer \in [Worker -> Alternative]
  /\ prune_request \in [Worker -> Node \cup {None}]
  /\ back \in [Worker -> {"fail", "exit", "work", "idle"}]
  /\ node \in [Worker -> Node] /\ partner \in [Worker -> Worker]
  /\ idle \subseteq Worker /\ astray \in BOOLEAN
TypeStacks ==
  /\ cp_ap \in [Worker -> [Node -> Int]] /\ top_cp \in [Worker -> Node]
  /\ \A w \in Worker : \A n \in Node :
       /\ cp_ap[w][n] \in {NULL, GETWORK} \cup (2 .. Len(Tree[n]))
       /\ n \in Stack(w) /\ pc[w] # "share" =>
            (cp_ap[w][n] = GETWORK <=> AtOrUnder(top_cp[w], n))
  /\ \A w \in Worker : w \in members[top_cp[w]]
  /\ members \in [Node -> SUBSET Worker]
TypeFrames ==
  /\ branch \in [Worker -> [Node -> [alt : Nat, cut : BOOLEAN]]]
  /\ alternative \in [Node -> Nat]
  /\ \A n \in Node : alternative[n] \in {NULL} \cup (2 .. Len(Tree[n]))
  /\ pend \in [Node -> {None} \cup [cp : Node, alt : Nat]]
  /\ leftnode \in [Node -> Node] /\ holder \in [Node -> Worker \cup {None}]
  /\ solutions \in [Node -> SUBSET [alt : Nat, answer : Alternative]]
TypeCut == cut \in [Worker -> CutLocals]

LEMMA TypeParts == TypeOK <=> TypeControl /\ TypeStacks /\ TypeFrames /\ TypeCut
BY DEF TypeOK, TypeControl, TypeStacks, TypeFrames, TypeCut

\* The choice points a request may be for.
LEMMA SendFacts ==
  ASSUME Inv, NEW w \in Worker
  PROVE  /\ pc[w] \in {"lock", "send", "up", "store"} =>
              /\ cut[w].to \in Node /\ cut[w].left \in Node /\ SendFrame(w) \in Node
              /\ w \in members[SendFrame(w)]
              /\ ~ BeingLeftmost(w) => /\ cut[w].left # Root /\ SendFrame(w) = cut[w].left
                                       /\ CpB(w, cut[w].left) \in Node
                                       /\ Younger(cut[w].left, CpB(w, cut[w].left))
         /\ pc[w] \in {"look", "more", "send_more"} =>
              /\ cut[w].frame \in Node /\ cut[w].frame # Root /\ cut[w].to \in Node
              /\ CpB(w, cut[w].frame) \in Node /\ Younger(cut[w].frame, CpB(w, cut[w].frame))
<1>1. pc[w] \in {"lock", "send", "up", "store"} =>
        /\ cut[w].to \in Node /\ cut[w].left \in Node /\ SendFrame(w) \in Node
        /\ w \in members[cut[w].to] /\ w \in members[cut[w].left] 
      BY DEF Inv, CutInv, CutAt, TreeInv, TypeOK, CutLocals, SendFrame
<1>2. cut[w].to \in Node /\ cut[w].left = Root => BeingLeftmost(w)
      BY UnderFacts DEF BeingLeftmost, AtOrUnder
<1>3. \A n \in Node : n # Root => CpB(w, n) \in Node /\ Younger(n, CpB(w, n))
      BY CpBFacts DEF Inv, TreeInv, ShapeInv
<1>4. pc[w] \in {"look", "more", "send_more"} =>
        cut[w].frame \in Node /\ cut[w].to \in Node /\ Younger(cut[w].frame, cut[w].to)
      BY DEF Inv, CutInv, CutAt, TreeInv, TypeOK, CutLocals
<1>5. pc[w] \in {"look", "more", "send_more"} => cut[w].frame # Root
      BY <1>4, UnderFacts DEF Younger
<1> QED BY <1>1, <1>2, <1>3, <1>4, <1>5 DEF SendFrame

LEMMA ControlStep ==
  ASSUME Inv, NEW w \in Worker, Step(w)
  PROVE  TypeControl'
<1>0. TypeControl  BY TypeParts DEF Inv, TreeInv
<1>1. CASE Try(w)
  <2>1. <<Created(cur[w]), 1>> \in Alternative  BY <1>1, TryFacts
  <2> QED BY <1>0, <1>1, <2>1 DEF Try, TypeControl, Locations, Goto, stacks, frames, locals, history
<1>2. CASE Call(w)
      BY <1>0, <1>2 DEF Call, TypeControl, Locations, Goto, stacks, frames, locals, history
<1>3. CASE Exit(w)
  <2>1. Parent(cur[w][1]) \in Alternative  BY <1>0, <1>3, ClauseFacts DEF Exit, TypeControl
  <2> QED BY <1>0, <1>3, <2>1 DEF Exit, TypeControl, Locations, Goto, stacks, frames, locals, history
<1>4. CASE Cut(w)
  <2>1. cur' \in [Worker -> Alternative]  BY <1>4, CutFacts DEF Inv
  <2> QED BY <1>0, <1>4, <2>1 DEF Cut, TypeControl, Locations, Goto, stacks, frames, locals, history
<1>5. CASE Retry(w)
  <2>1. <<B(w), cp_ap[w][B(w)]>> \in Alternative
    <3>1. cur'[w] = <<B(w), cp_ap[w][B(w)]>> /\ cur'[w] \in Alternative
          BY <1>5, RetryFacts DEF Inv
    <3> QED BY <3>1
  <2> QED BY <1>0, <1>5, <2>1 DEF Retry, TypeControl, Locations, Goto, stacks, frames, locals, history
<1>6. CASE GetAlternative(w)
  <2>1. <<top_cp[w], alternative[top_cp[w]]>> \in Alternative
    <3>1. top_cp[w] \in Node /\ alternative[top_cp[w]] \in 2 .. Len(Tree[top_cp[w]])
          BY <1>6 DEF Inv, TreeInv, TypeOK, GetAlternative
    <3> QED BY <3>1, ClauseFacts
  <2> QED BY <1>0, <1>6, <2>1 DEF GetAlternative, TypeControl, Locations, Goto, stacks, frames, locals, history
<1>7. CASE EnterScheduler(w)
      BY <1>0, <1>7 DEF EnterScheduler, TypeControl, Locations, Goto, stacks, frames, locals, history
<1>8. CASE CheckPruneRequest(w)
      BY <1>0, <1>8 DEF CheckPruneRequest, TypeControl, Locations, Goto, stacks, frames, locals, history
<1>9. CASE NewAnswer(w)
      BY <1>0, <1>9 DEF NewAnswer, TypeControl, Locations, Goto, stacks, frames, locals, history
<1>10. CASE StoreAnswer(w)
      BY <1>0, <1>10 DEF StoreAnswer, TypeControl, Locations, Goto, stacks, frames, locals, history
<1>11. CASE BeginCut(w)
      BY <1>0, <1>11 DEF BeginCut, TypeControl, Locations, Goto, stacks, frames, locals, history
<1>12. CASE LockToSend(w)
      BY <1>0, <1>12 DEF LockToSend, TypeControl, Locations, Goto, stacks, frames, locals, history, NextUp
<1>13. CASE Send(w)
  <2>1. PICK i \in cut[w].todo :
          LET cp == IF BeingLeftmost(w) THEN SendFrame(w) ELSE CpB(w, SendFrame(w)) IN
          prune_request' = Sent(i, cp)
        BY <1>13 DEF Send
  <2>2. pc[w] = "send"  BY <1>13 DEF Send, Goto
  <2>3. prune_request' \in [Worker -> Node \cup {None}]
    <3> DEFINE cp == IF BeingLeftmost(w) THEN SendFrame(w) ELSE CpB(w, SendFrame(w))
    <3>1. cp \in Node  BY <2>2, SendFacts
    <3>2. prune_request' = Sent(i, cp)  BY <2>1
    <3> HIDE DEF cp
    <3> QED BY <1>0, <3>1, <3>2 DEF Sent, TypeControl
  <2>4. pc' = [pc EXCEPT ![w] = pc'[w]] /\ pc'[w] \in {"store", "up", "send"} /\ astray' \in BOOLEAN
        BY <1>0, <1>13 DEF Send, Goto, NextUp, TypeControl
  <2> QED BY <1>0, <1>13, <2>3, <2>4 DEF Send, TypeControl, Locations, Goto, stacks, frames, locals, history, NextUp
<1>14. CASE CutUp(w)
      BY <1>0, <1>14 DEF CutUp, TypeControl, Locations, Goto, stacks, frames, locals, history
<1>15. CASE CutStore(w)
      BY <1>0, <1>15 DEF CutStore, TypeControl, Locations, Goto, stacks, frames, locals, history
<1>16. CASE LookUp(w)
      BY <1>0, <1>16 DEF LookUp, TypeControl, Locations, Goto, stacks, frames, locals, history
<1>17. CASE CutMore(w)
      BY <1>0, <1>17 DEF CutMore, TypeControl, Locations, Goto, stacks, frames, locals, history
<1>18. CASE SendMore(w)
  <2>1. CpB(w, cut[w].frame) \in Node  BY <1>18, SendFacts DEF SendMore
  <2>2. \A i : Sent(i, CpB(w, cut[w].frame)) \in [Worker -> Node \cup {None}]
        BY <1>0, <2>1 DEF Sent, TypeControl
  <2>3. prune_request' \in [Worker -> Node \cup {None}]  BY <1>18, <2>2 DEF SendMore
  <2> QED BY <1>0, <1>18, <2>3 DEF SendMore, TypeControl, Locations, Goto, stacks, frames, locals, history
<1>19. CASE StopMore(w)
      BY <1>0, <1>19 DEF StopMore, TypeControl, Locations, Goto, stacks, frames, locals, history
<1>20. CASE NextMore(w)
      BY <1>0, <1>20 DEF NextMore, TypeControl, Locations, Goto, stacks, frames, locals, history
<1>21. CASE EndCut(w)
      BY <1>0, <1>21 DEF EndCut, TypeControl, Locations, Goto, stacks, frames, locals, history, Reset
<1>22. CASE PruneUp(w)
      BY <1>0, <1>22 DEF PruneUp, TypeControl, Locations, Goto, stacks, frames, locals, history, Reset
<1>23. CASE Scan(w)
  <2>1. Youngest(LiveNodes(w)) \in Node
    <3>1. \A n \in LiveNodes(w) : n \in Node /\ AtOrUnder(top_cp[w], n)
          BY DEF LiveNodes, Stack, AtOrUnder, Younger
    <3>2. LiveNodes(w) \in SUBSET Node /\ LiveNodes(w) # {} /\ top_cp[w] \in Node
          BY <1>23, <3>1, StackFacts DEF Scan, Inv, TreeInv, ShapeInv
    <3> QED BY <3>1, <3>2, YoungestAbove
  <2> QED BY <1>0, <1>23, <2>1 DEF Scan, TypeControl, Locations, Goto, stacks, frames, locals, history
<1>24. CASE PutIdle(w)
      BY <1>0, <1>24 DEF PutIdle, TypeControl, Locations, Goto, stacks, frames, locals, history
<1>25. CASE DoPending(w)
      BY <1>0, <1>25 DEF DoPending, TypeControl, Locations, Goto, stacks, frames, locals, history, MayMove
<1>26. CASE MoveUp(w)
      BY <1>0, <1>26 DEF MoveUp, TypeControl, Locations, Goto, stacks, frames, locals, history, Arrived, MayMove, Reset
<1>27. CASE MoveUpLast(w)
      BY <1>0, <1>27 DEF MoveUpLast, TypeControl, Locations, Goto, stacks, frames, locals, history, Arrived, MayMove, Reset
<1>28. CASE FindLeftmost(w)
      BY <1>0, <1>28 DEF FindLeftmost, TypeControl, Locations, Goto, stacks, frames, locals, history
<1>29. CASE PutAnswers(w)
      BY <1>0, <1>29 DEF PutAnswers, TypeControl, Locations, Goto, stacks, frames, locals, history
<1>30. CASE GiveUp(w)
      BY <1>0, <1>30 DEF GiveUp, TypeControl, Locations, Goto, stacks, frames, locals, history
<1>31. CASE SetTops(w)
      BY <1>0, <1>31 DEF SetTops, TypeControl, Locations, Goto, stacks, frames, locals, history
<1>32. CASE Forward(w)
  <2>1. \A i \in Worker : \A n \in Node : Sent(i, n) \in [Worker -> Node \cup {None}]
        BY <1>0 DEF Sent, TypeControl
  <2>2. prune_request' \in [Worker -> Node \cup {None}]
        BY <1>0, <1>32, <2>1 DEF Forward, TypeControl
  <2> QED BY <1>0, <1>32, <2>2 DEF Forward, TypeControl, Locations, Goto, stacks, frames, locals, history
<1>33. ASSUME NEW v \in Worker, Choosing(w, v) PROVE TypeControl'
      BY <1>0, <1>33 DEF Choosing, Choose, TakeBranch, TakeIdleBranch, TypeControl, Locations,
         Goto, stacks, frames, locals, history, Reset
<1>34. ASSUME NEW v \in Worker, Refuse(w, v) PROVE TypeControl'
      BY <1>0, <1>34 DEF Refuse, TypeControl, Locations, Goto, stacks, frames, locals, history
<1>35. ASSUME NEW v \in Worker, Share(w, v) PROVE TypeControl'
      BY <1>0, <1>35 DEF Share, TypeControl, Locations, Goto, stacks, frames, locals, history
<1> QED BY <1>1, <1>2, <1>3, <1>4, <1>5, <1>6, <1>7, <1>8, <1>9, <1>10, <1>11, <1>12, <1>13, <1>14, <1>15, <1>16, <1>17, <1>18, <1>19, <1>20, <1>21, <1>22, <1>23, <1>24, <1>25, <1>26, <1>27, <1>28, <1>29, <1>30, <1>31, <1>32, <1>33, <1>34, <1>35 DEF Step, Choosing

LEMMA StacksStep ==
  ASSUME Inv, [Next]_vars
  PROVE  TypeStacks'
<1> DEFINE Cell(v, n) ==
      /\ cp_ap[v][n] \in {NULL, GETWORK} \cup (2 .. Len(Tree[n]))
      /\ n \in Stack(v) /\ pc[v] # "share" =>
           (cp_ap[v][n] = GETWORK <=> AtOrUnder(top_cp[v], n))
<1>0. TreeInv /\ TypeStacks /\ ShapeInv' /\ pc \in [Worker -> Locations] /\ \A v \in Worker, n \in Node : Cell(v, n)
      BY TypeParts, ShapeStep DEF Inv, TreeInv, TypeControl, TypeStacks
<1>1. ASSUME cp_ap' \in [Worker -> [Node -> Int]], top_cp' \in [Worker -> Node],
             members' \in [Node -> SUBSET Worker], \A v \in Worker, n \in Node : Cell(v, n)'
      PROVE  TypeStacks'
  <2>1. ASSUME NEW v \in Worker PROVE v \in members'[top_cp'[v]]
    <3>1. top_cp'[v] \in Node /\ top_cp'[v] \in Stack(v)'
          BY <1>0, <1>1 DEF ShapeInv, StackInv
    <3>2. cp_ap'[v][top_cp'[v]] = GETWORK
      <4>1. CASE pc'[v] = "share"  BY <1>0, <3>1, <4>1 DEF ShapeInv, StackInv
      <4>2. CASE pc'[v] # "share"  BY <1>1, <3>1, <4>2 DEF AtOrUnder
      <4> QED BY <4>1, <4>2
    <3> QED BY <1>0, <3>1, <3>2 DEF ShapeInv, ExactInv
  <2>2. \A v \in Worker : \A n \in Node :
       /\ cp_ap'[v][n] \in {NULL, GETWORK} \cup (2 .. Len(Tree[n]))
       /\ n \in Stack(v)' /\ pc'[v] # "share" =>
            (cp_ap'[v][n] = GETWORK <=> AtOrUnder(top_cp'[v], n))
        BY <1>1
  <2> QED BY <1>1, <2>1, <2>2 DEF TypeStacks
<1>2. ASSUME UNCHANGED <<cp_ap, top_cp, members>>, \A v \in Worker : pc'[v] # "share" => pc[v] # "share"
      PROVE  TypeStacks'
  <2>1. \A v \in Worker : Stack(v)' = Stack(v)  BY <1>2 DEF Stack
  <2>2. \A v \in Worker, n \in Node : Cell(v, n)'  BY <1>0, <1>2, <2>1
  <2> HIDE DEF Cell
  <2> QED BY <1>0, <1>1, <1>2, <2>2 DEF TypeStacks
<1>3. ASSUME NEW w \in Worker, PlainStep(w) PROVE TypeStacks'
  <2>1. /\ UNCHANGED <<cp_ap, top_cp, members>>
        /\ pc[w] # "share" /\ \A v \in Worker \ {w} : pc'[v] = pc[v]
        BY <1>3, PlainSteps
  <2> QED BY <1>2, <2>1
<1>4. ASSUME NEW w \in Worker, EngineStep(w) PROVE TypeStacks'
  <2>1. /\ top_cp' = top_cp /\ members' = members /\ pc[w] # "share"
        /\ \A v \in Worker \ {w} : pc'[v] = pc[v]
        BY <1>0, <1>4 DEF EngineStep, Try, Cut, Retry, CheckPruneRequest, Goto, frames
  <2>2. ASSUME cp_ap' \in [Worker -> [Node -> Int]], \A v \in Worker \ {w} : cp_ap'[v] = cp_ap[v],
               \A n \in Node : Cell(w, n)'
        PROVE  TypeStacks'
    <3>1. ASSUME NEW v \in Worker \ {w}, NEW n \in Node PROVE Cell(v, n)'
      <4>1. Stack(v)' = Stack(v) /\ cp_ap'[v] = cp_ap[v]  BY <2>2 DEF Stack
      <4> QED BY <1>0, <2>1, <4>1
    <3>2. \A v \in Worker, n \in Node : Cell(v, n)'
      <4> HIDE DEF Cell
      <4> QED BY <2>2, <3>1
    <3> HIDE DEF Cell
    <3> QED BY <1>0, <1>1, <2>1, <2>2, <3>2 DEF TypeStacks
  <2>3. ASSUME cp_ap' \in [Worker -> [Node -> Int]], \A v \in Worker \ {w} : cp_ap'[v] = cp_ap[v],
               Stack(w)' \subseteq Stack(w),
               \A n \in Node : /\ cp_ap'[w][n] = GETWORK <=> cp_ap[w][n] = GETWORK
                               /\ cp_ap'[w][n] \in {NULL, GETWORK} \cup (2 .. Len(Tree[n]))
        PROVE  TypeStacks'
    <3>1. ASSUME NEW n \in Node PROVE Cell(w, n)'  BY <1>0, <2>1, <2>3
    <3> HIDE DEF Cell
    <3> QED BY <2>2, <2>3, <3>1
  <2>4. ASSUME NEW r \in Stack(w), AtOrUnder(r, top_cp[w]), cp_ap' = [cp_ap EXCEPT ![w] = CutTo(w, r)]
        PROVE  TypeStacks'
    <3>1. /\ cp_ap' \in [Worker -> [Node -> Int]] /\ \A v \in Worker \ {w} : cp_ap'[v] = cp_ap[v]
          /\ \A n \in Stack(w)' : n \in Stack(w)
          /\ \A n \in Node : cp_ap'[w][n] = GETWORK <=> cp_ap[w][n] = GETWORK
          /\ \A n \in Node : cp_ap'[w][n] \in {NULL, cp_ap[w][n]}
          BY <1>0, <2>1, <2>4, CutToFacts
    <3>2. \A n \in Node : cp_ap'[w][n] \in {NULL, GETWORK} \cup (2 .. Len(Tree[n]))
          BY <1>0, <3>1
    <3> QED BY <2>3, <3>1, <3>2
  <2>5. CASE Try(w)
    <3> DEFINE c == Created(cur[w])
    <3>1. /\ c \in Node /\ 2 \in 2 .. Len(Tree[c])
          /\ \A n \in Stack(w) : Younger(c, n)
          /\ cp_ap'[w][c] = 2 /\ \A n \in Node \ {c} : cp_ap'[w][n] = cp_ap[w][n]
          /\ cp_ap' \in [Worker -> [Node -> Int]] /\ \A v \in Worker \ {w} : cp_ap'[v] = cp_ap[v]
          /\ Stack(w)' = Stack(w) \cup {c}
          BY <2>5, TryFacts
    <3> HIDE DEF c
    <3>2. ~ AtOrUnder(top_cp[w], c) /\ 2 # GETWORK
      <4>1. top_cp[w] \in Node /\ Younger(c, top_cp[w])
            BY <1>0, <3>1, StackFacts DEF TreeInv, ShapeInv
      <4> QED BY <3>1, <4>1, UnderFacts, NoneFacts DEF AtOrUnder, Younger
    <3>3. ASSUME NEW n \in Node PROVE Cell(w, n)'
      <4>1. CASE n = c  BY <2>1, <3>1, <3>2, <4>1
      <4>2. CASE n # c
        <5>1. n \in Stack(w)' <=> n \in Stack(w)  BY <3>1, <4>2
        <5> QED BY <1>0, <2>1, <3>1, <4>2, <5>1
      <4> QED BY <4>1, <4>2
    <3> HIDE DEF Cell
    <3> QED BY <2>2, <3>1, <3>3
  <2>6. CASE Cut(w)
    <3> DEFINE to == CpB(w, cur[w][1])
               r == IF Younger(top_cp[w], to) THEN top_cp[w] ELSE to
    <3>1. r \in Stack(w) /\ AtOrUnder(r, top_cp[w]) /\ cp_ap' = [cp_ap EXCEPT ![w] = CutTo(w, r)]
          BY <1>0, <2>6, CutFacts
    <3> HIDE DEF r
    <3> QED BY <2>4, <3>1
  <2>7. CASE Retry(w)
    <3> DEFINE n == B(w)
    <3>1. /\ n \in Node
          /\ cp_ap[w][n] \in 2 .. Len(Tree[n])
          /\ cp_ap' \in [Worker -> [Node -> Int]] /\ \A v \in Worker \ {w} : cp_ap'[v] = cp_ap[v]
          /\ cp_ap'[w][n] = NextAlternative(n, cp_ap[w][n])
          /\ \A m \in Node \ {n} : cp_ap'[w][m] = cp_ap[w][m]
          /\ Stack(w)' \subseteq Stack(w)
          BY <1>0, <2>7, RetryFacts
    <3> HIDE DEF n
    <3>2. \A a \in 2 .. Len(Tree[n]) : a # -1  OBVIOUS
    <3>3. NextAlternative(n, cp_ap[w][n]) \in {NULL} \cup (2 .. Len(Tree[n]))  BY <3>1, ClauseFacts
    <3>4. ASSUME NEW m \in Node
          PROVE  /\ cp_ap'[w][m] = GETWORK <=> cp_ap[w][m] = GETWORK
                 /\ cp_ap'[w][m] \in {NULL, GETWORK} \cup (2 .. Len(Tree[m]))
      <4>1. CASE m = n  BY <3>1, <3>2, <3>3, <4>1, NoneFacts
      <4>2. CASE m # n  BY <1>0, <3>1, <4>2
      <4> QED BY <4>1, <4>2
    <3> HIDE DEF Cell
    <3> QED BY <2>3, <3>1, <3>4
  <2>8. CASE CheckPruneRequest(w)
    <3>1. cp_ap' = [cp_ap EXCEPT ![w] = CutTo(w, top_cp[w])]  BY <2>8 DEF CheckPruneRequest
    <3>2. top_cp[w] \in Stack(w) /\ AtOrUnder(top_cp[w], top_cp[w])
          BY <1>0, StackFacts DEF TreeInv, ShapeInv, AtOrUnder
    <3> QED BY <2>4, <3>1, <3>2
  <2> HIDE DEF Cell
  <2> QED BY <1>4, <2>5, <2>6, <2>7, <2>8 DEF EngineStep
<1>5. ASSUME NEW w \in Worker, MoveStep(w) PROVE TypeStacks'
  <2> DEFINE n == top_cp[w]
             up == CpB(w, n)
  <2>1. pc[w] \notin InEngine /\ pc[w] # "ask" /\ top_cp[w] # Root
        /\ Pop(w, top_cp[w]) /\ members' = Without(w, top_cp[w])
        BY <1>5, MoveShape DEF InEngine
  <2>2. /\ n \in Node /\ up \in Node
        /\ \A m \in Stack(w) : m # n => AtOrUnder(up, m)
        /\ top_cp' = [top_cp EXCEPT ![w] = up]
        /\ cp_ap' \in [Worker -> [Node -> Int]] /\ \A v \in Worker \ {w} : cp_ap'[v] = cp_ap[v]
        /\ cp_ap'[w][n] = NULL /\ \A m \in Node \ {n} : cp_ap'[w][m] = cp_ap[w][m]
        /\ Stack(w)' = Stack(w) \ {n} /\ \A v \in Worker \ {w} : Stack(v)' = Stack(v)
        /\ members' \in [Node -> SUBSET Worker]
        BY <1>0, <2>1, PopFacts
  <2>3. \A v \in Worker \ {w} : pc'[v] = pc[v]
        BY <1>0, <1>5 DEF MoveStep, CutUp, PruneUp, MoveUp, MoveUpLast, Goto
  <2>4. pc[w] # "share" /\ \A m \in Stack(w) : AtOrUnder(n, m)
        BY <1>0, <2>1 DEF InEngine, TreeInv, ShapeInv, StackInv
  <2> HIDE DEF n, up
  <2>5. top_cp' \in [Worker -> Node] /\ top_cp'[w] = up /\ \A v \in Worker \ {w} : top_cp'[v] = top_cp[v]
        BY <1>0, <2>2 DEF TypeStacks
  <2>6. ASSUME NEW m \in Node PROVE Cell(w, m)'
    <3>1. CASE m = n  BY <2>2, <3>1, NoneFacts
    <3>2. CASE m # n /\ m \in Stack(w)
      <4>1. cp_ap[w][m] = GETWORK  BY <1>0, <2>4, <3>2 DEF n
      <4> QED BY <2>2, <2>5, <3>2, <4>1
    <3>3. CASE m # n /\ m \notin Stack(w)  BY <1>0, <2>2, <3>3
    <3> QED BY <3>1, <3>2, <3>3
  <2>7. ASSUME NEW v \in Worker \ {w}, NEW m \in Node PROVE Cell(v, m)'
        BY <1>0, <2>2, <2>3, <2>5
  <2>8. \A v \in Worker, m \in Node : Cell(v, m)'
    <3> HIDE DEF Cell
    <3> QED BY <2>6, <2>7
  <2> HIDE DEF Cell
  <2> QED BY <1>1, <2>2, <2>5, <2>8
<1>6. ASSUME NEW p \in Worker, SetTops(p) PROVE TypeStacks'
  <2> DEFINE b == B(p)
  <2>0. PICK q \in Worker : q = partner[p]  BY <1>0 DEF TreeInv, TypeOK
  <2>1. /\ p # q /\ pc' = [pc EXCEPT ![p] = "forward"] /\ members' = members
        /\ b \in Node /\ \A n \in Stack(p) : AtOrUnder(b, n)
        /\ top_cp' \in [Worker -> Node] /\ top_cp'[p] = b /\ top_cp'[q] = b
        /\ \A v \in Worker \ {p, q} : top_cp'[v] = top_cp[v]
        /\ cp_ap' = [cp_ap EXCEPT ![q] = cp_ap[p]] /\ cp_ap' \in [Worker -> [Node -> Int]]
        /\ \A v \in Worker \ {q} : Stack(v)' = Stack(v)
        /\ \A n \in Stack(p) : cp_ap[p][n] = GETWORK
        BY <1>0, <1>6, <2>0, SetTopsFacts
  <2> HIDE DEF b
  <2>2. /\ cp_ap'[q] = cp_ap[p] /\ \A v \in Worker \ {q} : cp_ap'[v] = cp_ap[v]
        /\ \A v \in Worker \ {p} : pc'[v] = pc[v]
        BY <1>0, <2>1 DEF TypeStacks
  <2>3. Stack(q)' = Stack(p)  BY <2>2 DEF Stack
  <2>4. ASSUME NEW v \in {p, q}, NEW m \in Node PROVE Cell(v, m)'
    <3>1. cp_ap'[v] = cp_ap[p] /\ top_cp'[v] = b /\ Stack(v)' = Stack(p)
          BY <2>1, <2>2, <2>3
    <3> QED BY <1>0, <2>1, <3>1
  <2>5. ASSUME NEW v \in Worker \ {p, q}, NEW m \in Node PROVE Cell(v, m)'
        BY <1>0, <2>1, <2>2
  <2>6. \A v \in Worker, m \in Node : Cell(v, m)'
    <3> HIDE DEF Cell
    <3> QED BY <2>4, <2>5
  <2> HIDE DEF Cell
  <2> QED BY <1>0, <1>1, <2>1, <2>6 DEF TypeStacks
<1>7. ASSUME NEW p \in Worker, NEW q \in Worker, Share(p, q) PROVE TypeStacks'
  <2>1. /\ pc' = [pc EXCEPT ![p] = "share"] /\ members' \in [Node -> SUBSET Worker]
        /\ cp_ap' \in [Worker -> [Node -> Int]] /\ \A v \in Worker \ {p} : cp_ap'[v] = cp_ap[v]
        /\ \A n \in Stack(p) : cp_ap'[p][n] = GETWORK
        /\ \A v \in Worker : Stack(v)' = Stack(v)
        BY <1>7, ShareFacts
  <2>2. top_cp' = top_cp  BY <1>7 DEF Share
  <2>3. pc'[p] = "share" /\ \A v \in Worker \ {p} : pc'[v] = pc[v]  BY <1>0, <2>1
  <2>4. ASSUME NEW m \in Node PROVE Cell(p, m)'
    <3>1. CASE m \in Stack(p)  BY <2>1, <2>3, <3>1
    <3>2. CASE m \notin Stack(p)
      <4>1. m \notin Stack(p)'  BY <2>1, <3>2
      <4>2. cp_ap'[p][m] = NULL  BY <4>1 DEF Stack
      <4> QED BY <2>3, <4>2
    <3> QED BY <3>1, <3>2
  <2>5. ASSUME NEW v \in Worker \ {p}, NEW m \in Node PROVE Cell(v, m)'
    <3>1. Stack(v)' = Stack(v) /\ cp_ap'[v] = cp_ap[v] /\ top_cp'[v] = top_cp[v] /\ pc'[v] = pc[v]
          BY <2>1, <2>2, <2>3
    <3>2. Cell(v, m)
      <4> HIDE DEF Cell
      <4> QED BY <1>0
    <3> QED BY <3>1, <3>2
  <2>6. \A v \in Worker, m \in Node : Cell(v, m)'
    <3> HIDE DEF Cell
    <3> QED BY <2>4, <2>5
  <2> HIDE DEF Cell
  <2> QED BY <1>0, <1>1, <2>1, <2>2, <2>6 DEF TypeStacks
<1>8. ASSUME OtherStep PROVE TypeStacks'
  <2>1. UNCHANGED <<cp_ap, top_cp, members>>  BY <1>8, OtherSteps
  <2>2. \A v \in Worker : pc'[v] # "share" => pc[v] # "share"
    <3> SUFFICES ASSUME NEW v \in Worker, pc[v] = "share" PROVE pc'[v] = "share"
        OBVIOUS
    <3>1. ASSUME NEW w \in Worker, GetAlternative(w) \/ PutIdle(w) PROVE pc'[v] = "share"
          BY <1>0, <3>1 DEF GetAlternative, PutIdle, Goto
    <3>2. ASSUME NEW w \in Worker, NEW u \in Worker, Choosing(w, u) \/ Refuse(w, u)
          PROVE  pc'[v] = "share"
          BY <1>0, <3>2 DEF Choosing, Choose, TakeBranch, TakeIdleBranch, Refuse, Goto
    <3>3. ASSUME NEW w \in Worker, Forward(w) PROVE pc'[v] = "share"
      <4>1. pc[w] = "forward" /\ pc[partner[w]] = "ask"
            BY <1>0, <3>3 DEF Forward, TreeInv, ShapeInv, HandInv
      <4>2. pc' = [pc EXCEPT ![w] = "run", ![partner[w]] = "fail"]  BY <3>3 DEF Forward
      <4> QED BY <1>0, <4>1, <4>2
    <3> QED BY <1>8, <3>1, <3>2, <3>3 DEF OtherStep, Finish, vars
  <2> QED BY <1>2, <2>1, <2>2
<1> QED BY <1>3, <1>4, <1>5, <1>6, <1>7, <1>8, StepCases

LEMMA FramesStep ==
  ASSUME Inv, NEW w \in Worker, Step(w)
  PROVE  TypeFrames'
<1>0. TypeFrames /\ NULL = 0  BY TypeParts, NoneFacts DEF Inv, TreeInv
<1> DEFINE Set == SUBSET [alt : Nat, answer : Alternative]
<1>a. Leftnodes(w) \in [Node -> Node]
  <2>1. \E S : Leftnodes(w) = [n \in Node |-> IF n \in S THEN Leftmost(w) ELSE leftnode[n]]
        BY DEF Leftnodes
  <2>2. Leftmost(w) \in Node  BY LeftmostFacts DEF Inv
  <2> QED BY <1>0, <2>1, <2>2 DEF TypeFrames
<1>b. pc[w] \in {"answer", "put", "store"} => Stored(w) \in [Node -> Set]
  <2> SUFFICES ASSUME pc[w] \in {"answer", "put", "store"} PROVE Stored(w) \in [Node -> Set]
      OBVIOUS
  <2> DEFINE l == cut[w].left
             new == {[alt |-> branch[w][l].alt, answer |-> s] : s \in cut[w].sols}
  <2>1. l \in Node /\ cut[w].sols \subseteq Alternative
        BY DEF Inv, CutInv, CutAt, TreeInv, TypeOK, CutLocals
  <2>2. branch[w][l].alt \in Nat  BY <1>0, <2>1 DEF TypeFrames
  <2>3. new \in Set
    <3> HIDE DEF l
    <3> QED BY <2>1, <2>2
  <2>4. Stored(w) = [solutions EXCEPT ![l] = @ \cup new]  BY DEF Stored
  <2>5. solutions \in [Node -> Set]  BY <1>0 DEF TypeFrames
  <2>6. \A S \in Set : S \cup new \in Set
    <3> HIDE DEF new
    <3> QED BY <2>3
  <2> HIDE DEF Set, new, l
  <2> QED BY <2>1, <2>4, <2>5, <2>6
<1>c. ASSUME NEW n \in Node PROVE NextAlternative(n, alternative[n]) \in {NULL} \cup (2 .. Len(Tree[n])) \/ alternative[n] = NULL
      BY <1>0, ClauseFacts DEF TypeFrames
<1>d. top_cp[w] \in Node /\ Root \in Node  BY StackFacts DEF Inv, TreeInv, ShapeInv
<1>e. ASSUME NEW n \in Node, alternative' \in {alternative, [alternative EXCEPT ![n] = NULL]}
      PROVE  /\ alternative' \in [Node -> Nat]
             /\ \A m \in Node : alternative'[m] \in {NULL} \cup (2 .. Len(Tree[m]))
  <2>1. alternative \in [Node -> Nat] /\ NULL \in Nat  BY <1>0 DEF TypeFrames
  <2>2. alternative' \in [Node -> Nat]  BY <1>e, <2>1
  <2>3. ASSUME NEW m \in Node PROVE alternative'[m] = alternative[m] \/ alternative'[m] = NULL
        BY <1>e, <2>1
  <2>4. ASSUME NEW m \in Node PROVE alternative'[m] \in {NULL} \cup (2 .. Len(Tree[m]))
    <3>1. alternative[m] \in {NULL} \cup (2 .. Len(Tree[m]))  BY <1>0 DEF TypeFrames
    <3> QED BY <2>3, <3>1
  <2> QED BY <2>2, <2>4
<1> HIDE DEF Set
<1>1. CASE Try(w)
      BY <1>0, <1>1 DEF Try, TypeFrames, Goto, stacks, frames, locals, history
<1>2. CASE Call(w)
      BY <1>0, <1>2 DEF Call, TypeFrames, Goto, stacks, frames, locals, history
<1>3. CASE Exit(w)
      BY <1>0, <1>3 DEF Exit, TypeFrames, Goto, stacks, frames, locals, history
<1>4. CASE Cut(w)
      BY <1>0, <1>4 DEF Cut, TypeFrames, Goto, stacks, frames, locals, history
<1>5. CASE Retry(w)
      BY <1>0, <1>5 DEF Retry, TypeFrames, Goto, stacks, frames, locals, history
<1>6. CASE GetAlternative(w)
  <2> DEFINE n == top_cp[w]
  <2>1. alternative[n] \in 2 .. Len(Tree[n]) /\ alternative[n] \in Nat
        BY <1>0, <1>6, <1>d DEF TypeFrames, GetAlternative
  <2>2. /\ branch' = [branch EXCEPT ![w][n] = [alt |-> alternative[n], cut |-> <<n, alternative[n]>> \in HasCut]]
        /\ alternative' = [alternative EXCEPT ![n] = NextAlternative(n, @)]
        BY <1>6 DEF GetAlternative
  <2>3. NextAlternative(n, alternative[n]) \in {NULL} \cup (2 .. Len(Tree[n]))
    <3> HIDE DEF n
    <3> QED BY <1>c, <1>d, <2>1, <1>0, ClauseFacts DEF n
  <2>4. [alt |-> alternative[n], cut |-> <<n, alternative[n]>> \in HasCut] \in [alt : Nat, cut : BOOLEAN]
        BY <2>1
  <2>5. n \in Node  BY <1>d
  <2>6. branch' \in [Worker -> [Node -> [alt : Nat, cut : BOOLEAN]]]
    <3> DEFINE R == [alt : Nat, cut : BOOLEAN]
    <3>1. branch \in [Worker -> [Node -> R]]  BY <1>0 DEF TypeFrames
    <3> HIDE DEF R, n
    <3> QED BY <2>2, <2>4, <2>5, <3>1 DEF R
  <2>7. /\ alternative' \in [Node -> Nat]
        /\ \A m \in Node : alternative'[m] \in {NULL} \cup (2 .. Len(Tree[m]))
    <3> HIDE DEF n
    <3> QED BY <1>0, <2>2, <2>3, <2>5 DEF TypeFrames
  <2> QED BY <1>0, <1>6, <2>6, <2>7 DEF GetAlternative, TypeFrames, Goto, stacks, frames, locals, history
<1>7. CASE EnterScheduler(w)
      BY <1>0, <1>7 DEF EnterScheduler, TypeFrames, Goto, stacks, frames, locals, history
<1>8. CASE CheckPruneRequest(w)
      BY <1>0, <1>8 DEF CheckPruneRequest, TypeFrames, Goto, stacks, frames, locals, history
<1>9. CASE NewAnswer(w)
  <2> QED BY <1>0, <1>9, <1>a DEF NewAnswer, TypeFrames, Goto, stacks, frames, locals, history
<1>10. CASE StoreAnswer(w)
  <2>1. solutions' \in [Node -> Set]  BY <1>0, <1>b, <1>10 DEF StoreAnswer, Goto, TypeFrames, Set
  <2> QED BY <1>0, <1>10, <2>1 DEF StoreAnswer, TypeFrames, Goto, stacks, frames, locals, history, Set
<1>11. CASE BeginCut(w)
  <2> QED BY <1>0, <1>11, <1>a DEF BeginCut, TypeFrames, Goto, stacks, frames, locals, history
<1>12. CASE LockToSend(w)
      BY <1>0, <1>12 DEF LockToSend, TypeFrames, Goto, stacks, frames, locals, history, Released
<1>13. CASE Send(w)
      BY <1>0, <1>13 DEF Send, TypeFrames, Goto, stacks, frames, locals, history, Released
<1>14. CASE CutUp(w)
  <2>1. /\ alternative' \in [Node -> Nat]
        /\ \A m \in Node : alternative'[m] \in {NULL} \cup (2 .. Len(Tree[m]))
    <3>1. alternative' \in {alternative, [alternative EXCEPT ![top_cp[w]] = NULL]}
          BY <1>14 DEF CutUp
    <3> QED BY <1>d, <1>e, <3>1
  <2>2. pend' \in [Node -> {None} \cup [cp : Node, alt : Nat]]
        BY <1>0, <1>14 DEF CutUp, TypeFrames
  <2>3. leftnode' \in [Node -> Node]  BY <1>0, <1>d, <1>14 DEF CutUp, TypeFrames
  <2>4. solutions' \in [Node -> SUBSET [alt : Nat, answer : Alternative]]
        BY <1>0, <1>14 DEF CutUp, TypeFrames
  <2> QED BY <1>0, <1>14, <2>1, <2>2, <2>3, <2>4 DEF CutUp, TypeFrames, Goto, stacks, frames, locals, history, Released
<1>15. CASE CutStore(w)
  <2> DEFINE l == cut[w].left
             own == [cp |-> cut[w].to, alt |-> branch[w][l].alt]
  <2>1. l \in Node /\ cut[w].to \in Node /\ pc[w] = "store"
        BY <1>15, SendFacts DEF CutStore
  <2>2. own \in [cp : Node, alt : Nat]
    <3>1. branch[w][l].alt \in Nat  BY <1>0, <2>1 DEF TypeFrames
    <3> QED BY <2>1, <3>1
  <2>3. solutions' \in [Node -> Set]  BY <1>0, <1>b, <1>15, <2>1 DEF CutStore, TypeFrames, Set
  <2>4. pend' = pend \/ pend' = [pend EXCEPT ![l] = own]  BY <1>15 DEF CutStore
  <2>5. pend' \in [Node -> {None} \cup [cp : Node, alt : Nat]]
    <3> DEFINE R == {None} \cup [cp : Node, alt : Nat]
    <3>1. own \in R /\ pend \in [Node -> R]  BY <1>0, <2>2 DEF TypeFrames
    <3> HIDE DEF R, own, l
    <3>2. pend' \in [Node -> R]  BY <2>1, <2>4, <3>1
    <3> QED BY <3>2 DEF R
  <2>6. /\ alternative' \in [Node -> Nat]
        /\ \A m \in Node : alternative'[m] \in {NULL} \cup (2 .. Len(Tree[m]))
    <3>1. alternative' \in {alternative, [alternative EXCEPT ![l] = NULL]}
          BY <1>15 DEF CutStore
    <3> HIDE DEF l
    <3> QED BY <1>e, <2>1, <3>1
  <2>7. UNCHANGED <<branch, leftnode, holder>>  BY <1>15 DEF CutStore
  <2> HIDE DEF l, own
  <2> QED BY <1>0, <2>3, <2>5, <2>6, <2>7 DEF TypeFrames, Set
<1>16. CASE LookUp(w)
      BY <1>0, <1>16 DEF LookUp, TypeFrames, Goto, stacks, frames, locals, history
<1>17. CASE CutMore(w)
      BY <1>0, <1>17 DEF CutMore, TypeFrames, Goto, stacks, frames, locals, history
<1>18. CASE SendMore(w)
      BY <1>0, <1>18 DEF SendMore, TypeFrames, Goto, stacks, frames, locals, history
<1>19. CASE StopMore(w)
      BY <1>0, <1>19 DEF StopMore, TypeFrames, Goto, stacks, frames, locals, history
<1>20. CASE NextMore(w)
  <2>1. cut[w].frame \in Node  BY <1>20, SendFacts DEF NextMore, Goto
  <2>2. /\ alternative' \in [Node -> Nat]
        /\ \A m \in Node : alternative'[m] \in {NULL} \cup (2 .. Len(Tree[m]))
    <3>1. alternative' \in {alternative, [alternative EXCEPT ![cut[w].frame] = NULL]}
          BY <1>20 DEF NextMore
    <3> QED BY <1>e, <2>1, <3>1
  <2>3. holder' \in [Node -> Worker \cup {None}] /\ UNCHANGED <<branch, pend, leftnode, solutions>>
        BY <1>0, <1>20, <2>1 DEF NextMore, TypeFrames
  <2> QED BY <1>0, <2>2, <2>3 DEF TypeFrames
<1>21. CASE EndCut(w)
      BY <1>0, <1>21 DEF EndCut, TypeFrames, Goto, stacks, frames, locals, history
<1>22. CASE PruneUp(w)
  <2>1. /\ alternative' \in [Node -> Nat]
        /\ \A m \in Node : alternative'[m] \in {NULL} \cup (2 .. Len(Tree[m]))
    <3>1. alternative' \in {alternative, [alternative EXCEPT ![top_cp[w]] = NULL]}
          BY <1>22 DEF PruneUp
    <3> QED BY <1>d, <1>e, <3>1
  <2>2. pend' \in [Node -> {None} \cup [cp : Node, alt : Nat]]
        BY <1>0, <1>22 DEF PruneUp, TypeFrames
  <2>3. leftnode' \in [Node -> Node]  BY <1>0, <1>d, <1>22 DEF PruneUp, TypeFrames
  <2>4. solutions' \in [Node -> SUBSET [alt : Nat, answer : Alternative]]
        BY <1>0, <1>22 DEF PruneUp, TypeFrames
  <2> QED BY <1>0, <1>22, <2>1, <2>2, <2>3, <2>4 DEF PruneUp, TypeFrames, Goto, stacks, frames, locals, history
<1>23. CASE Scan(w)
      BY <1>0, <1>23 DEF Scan, TypeFrames, Goto, stacks, frames, locals, history
<1>24. CASE PutIdle(w)
      BY <1>0, <1>24 DEF PutIdle, TypeFrames, Goto, stacks, frames, locals, history
<1>25. CASE DoPending(w)
  <2> DEFINE n == top_cp[w]
  <2>1. pend[n] \in [cp : Node, alt : Nat]
        BY <1>0, <1>d, <1>25 DEF DoPending, ExecutesPending, TypeFrames
  <2>2. /\ branch' = [branch EXCEPT ![w][n] = [alt |-> pend[n].alt, cut |-> FALSE]]
        /\ pend' = [pend EXCEPT ![n] = None]
        /\ UNCHANGED <<alternative, leftnode, solutions, holder>>
        BY <1>25 DEF DoPending
  <2>3. [alt |-> pend[n].alt, cut |-> FALSE] \in [alt : Nat, cut : BOOLEAN]
    <3> HIDE DEF n
    <3> QED BY <2>1
  <2>4. branch' \in [Worker -> [Node -> [alt : Nat, cut : BOOLEAN]]]
    <3> DEFINE R == [alt : Nat, cut : BOOLEAN]
    <3>1. branch \in [Worker -> [Node -> R]] /\ n \in Node  BY <1>0, <1>d DEF TypeFrames
    <3> HIDE DEF R, n
    <3> QED BY <2>2, <2>3, <3>1 DEF R
  <2>5. pend' \in [Node -> {None} \cup [cp : Node, alt : Nat]]
    <3> HIDE DEF n
    <3> QED BY <1>0, <2>2 DEF TypeFrames
  <2> HIDE DEF n
  <2> QED BY <1>0, <2>2, <2>4, <2>5 DEF TypeFrames
<1>26. CASE MoveUp(w)
      BY <1>0, <1>26 DEF MoveUp, TypeFrames, Goto, stacks, frames, locals, history
<1>27. CASE MoveUpLast(w)
  <2>1. /\ alternative' \in [Node -> Nat]
        /\ \A m \in Node : alternative'[m] \in {NULL} \cup (2 .. Len(Tree[m]))
    <3>1. alternative' \in {alternative, [alternative EXCEPT ![top_cp[w]] = NULL]}
          BY <1>27 DEF MoveUpLast
    <3> QED BY <1>d, <1>e, <3>1
  <2>2. pend' \in [Node -> {None} \cup [cp : Node, alt : Nat]]
        BY <1>0, <1>27 DEF MoveUpLast, TypeFrames
  <2>3. leftnode' \in [Node -> Node]  BY <1>0, <1>d, <1>27 DEF MoveUpLast, TypeFrames
  <2>4. solutions' \in [Node -> SUBSET [alt : Nat, answer : Alternative]]
        BY <1>0, <1>27 DEF MoveUpLast, TypeFrames
  <2> QED BY <1>0, <1>27, <2>1, <2>2, <2>3, <2>4 DEF MoveUpLast, TypeFrames, Goto, stacks, frames, locals, history
<1>28. CASE FindLeftmost(w)
  <2> QED BY <1>0, <1>28, <1>a DEF FindLeftmost, TypeFrames, Goto, stacks, frames, locals, history
<1>29. CASE PutAnswers(w)
  <2>1. solutions' \in [Node -> Set]  BY <1>0, <1>b, <1>29 DEF PutAnswers, Goto, TypeFrames, Set
  <2> QED BY <1>0, <1>29, <2>1 DEF PutAnswers, TypeFrames, Goto, stacks, frames, locals, history, Set
<1>30. CASE GiveUp(w)
      BY <1>0, <1>30 DEF GiveUp, TypeFrames, Goto, stacks, frames, locals, history
<1>31. CASE SetTops(w)
      BY <1>0, <1>31 DEF SetTops, TypeFrames, Goto, stacks, frames, locals, history
<1>32. CASE Forward(w)
      BY <1>0, <1>32 DEF Forward, TypeFrames, Goto, stacks, frames, locals, history
<1>33. ASSUME NEW v \in Worker, Choosing(w, v) PROVE TypeFrames'
  <2> DEFINE n == top_cp[w]
             R == [alt : Nat, cut : BOOLEAN]
  <2>1. branch \in [Worker -> [Node -> R]] /\ n \in Node  BY <1>0, <1>d DEF TypeFrames
  <2>2. branch' = branch \/ \E b : b \in Read(partner[w], n) \cup {branch[v][n]}
                                     /\ branch' = [branch EXCEPT ![w][n] = b]
        BY <1>33 DEF Choosing, Choose, TakeBranch, TakeIdleBranch
  <2>3. ASSUME NEW b \in Read(partner[w], n) \cup {branch[v][n]} PROVE b \in R
    <3>1. partner[w] \in Worker  BY DEF Inv, TreeInv, TypeOK
    <3>2. \E u \in Worker, m \in Node : b = branch[u][m]
          BY <2>1, <2>3, <3>1 DEF Read
    <3> HIDE DEF R
    <3> QED BY <2>1, <3>2
  <2>4. branch' \in [Worker -> [Node -> R]]
    <3> HIDE DEF R, n
    <3> QED BY <2>1, <2>2, <2>3
  <2>5. UNCHANGED frames  BY <1>33 DEF Choosing, Choose, TakeBranch, TakeIdleBranch
  <2> QED BY <1>0, <2>4, <2>5 DEF TypeFrames, frames
<1>34. ASSUME NEW v \in Worker, Refuse(w, v) PROVE TypeFrames'
      BY <1>0, <1>34 DEF Refuse, TypeFrames, Goto, stacks, frames, locals, history
<1>35. ASSUME NEW v \in Worker, Share(w, v) PROVE TypeFrames'
  <2> DEFINE R == [alt : Nat, cut : BOOLEAN]
  <2>1. ASSUME NEW n \in Private(w) PROVE cp_ap[w][n] \in 2 .. Len(Tree[n]) /\ n \in Node
        BY <1>35, ShareFacts DEF Private, Stack
  <2>2. ASSUME NEW n \in Private(w) PROVE [alt |-> cp_ap[w][n] - 1, cut |-> TRUE] \in R
    <3>1. cp_ap[w][n] - 1 \in Nat  BY <2>1, ClauseFacts
    <3> QED BY <3>1
  <2>3. branch \in [Worker -> [Node -> R]]  BY <1>0 DEF TypeFrames
  <2>4. branch' = SharedBranches(w, v)  BY <1>35 DEF Share
  <2>5. branch' \in [Worker -> [Node -> R]]
    <3>1. ASSUME NEW u \in Worker, NEW n \in Node
          PROVE  (IF u \in {w, v} /\ n \in Private(w) THEN [alt |-> cp_ap[w][n] - 1, cut |-> TRUE]
                  ELSE IF u = v /\ n \in Stack(w) /\ Younger(n, top_cp[v]) THEN branch[w][n]
                  ELSE branch[u][n]) \in R
      <4>1. branch[w][n] \in R /\ branch[u][n] \in R
        <5> HIDE DEF R
        <5> QED BY <2>3
      <4> HIDE DEF R
      <4> QED BY <2>2, <4>1
    <3> HIDE DEF R
    <3> QED BY <2>4, <3>1 DEF SharedBranches
  <2>6. /\ alternative' \in [Node -> Nat]
        /\ \A m \in Node : alternative'[m] \in {NULL} \cup (2 .. Len(Tree[m]))
    <3>1. alternative' = [n \in Node |-> IF n \in Private(w) THEN cp_ap[w][n] ELSE alternative[n]]
          BY <1>35 DEF Share
    <3>2. \A n \in Private(w) : cp_ap[w][n] \in 2 .. Len(Tree[n]) /\ cp_ap[w][n] \in Nat
          BY <2>1, ClauseFacts
    <3> QED BY <1>0, <3>1, <3>2 DEF TypeFrames
  <2>7. leftnode' \in [Node -> Node]  BY <1>0, <1>d, <1>35 DEF Share, TypeFrames
  <2>8. UNCHANGED <<pend, solutions, holder>>  BY <1>35 DEF Share
  <2> QED BY <1>0, <2>5, <2>6, <2>7, <2>8 DEF TypeFrames
<1> QED BY <1>1, <1>2, <1>3, <1>4, <1>5, <1>6, <1>7, <1>8, <1>9, <1>10, <1>11, <1>12, <1>13, <1>14, <1>15, <1>16, <1>17, <1>18, <1>19, <1>20, <1>21, <1>22, <1>23, <1>24, <1>25, <1>26, <1>27, <1>28, <1>29, <1>30, <1>31, <1>32, <1>33, <1>34, <1>35 DEF Step, Choosing

\* The records of the local variables.
LEMMA CutLocalsFacts ==
  /\ NoCut \in CutLocals
  /\ \A c \in CutLocals :
       /\ \A n \in Node : /\ [c EXCEPT !.left = n] \in CutLocals
                          /\ [c EXCEPT !.left = n, !.more = TRUE] \in CutLocals
                          /\ [c EXCEPT !.frame = n] \in CutLocals
                          /\ \A S \in SUBSET Worker : [c EXCEPT !.frame = n, !.seen = S] \in CutLocals
       /\ \A S \in SUBSET Worker : [c EXCEPT !.todo = S] \in CutLocals
       /\ \A S \in SUBSET Worker, b \in BOOLEAN :
            [c EXCEPT !.todo = S, !.sent = S, !.more = b] \in CutLocals
       /\ \A A \in SUBSET Alternative : [c EXCEPT !.sols = A] \in CutLocals
       /\ \A A \in SUBSET Alternative, b \in BOOLEAN :
            [c EXCEPT !.more = b, !.sols = A] \in CutLocals
  /\ \A n \in Node : [NoCut EXCEPT !.to = n] \in CutLocals
  /\ \A n \in Node, A \in SUBSET Alternative : [NoCut EXCEPT !.left = n, !.sols = A] \in CutLocals
  /\ \A n, m \in Node, a \in Nat : [NoCut EXCEPT !.to = n, !.pend = m, !.at = a] \in CutLocals
<1>1. NoCut \in CutLocals  BY DEF CutLocals, NoCut
<1>2. ASSUME NEW c \in CutLocals
      PROVE  /\ \A n \in Node : /\ [c EXCEPT !.left = n] \in CutLocals
                                /\ [c EXCEPT !.left = n, !.more = TRUE] \in CutLocals
                                /\ [c EXCEPT !.frame = n] \in CutLocals
             /\ \A S \in SUBSET Worker : [c EXCEPT !.todo = S] \in CutLocals
             /\ \A A \in SUBSET Alternative : [c EXCEPT !.sols = A] \in CutLocals
      BY <1>2 DEF CutLocals
<1>3. ASSUME NEW c \in CutLocals, NEW S \in SUBSET Worker, NEW b \in BOOLEAN
      PROVE  [c EXCEPT !.todo = S, !.sent = S, !.more = b] \in CutLocals
      BY <1>3 DEF CutLocals
<1>4. ASSUME NEW c \in CutLocals, NEW A \in SUBSET Alternative, NEW b \in BOOLEAN
      PROVE  [c EXCEPT !.more = b, !.sols = A] \in CutLocals
      BY <1>4 DEF CutLocals
<1>5. ASSUME NEW c \in CutLocals, NEW n \in Node, NEW S \in SUBSET Worker
      PROVE  [c EXCEPT !.frame = n, !.seen = S] \in CutLocals
      BY <1>5 DEF CutLocals
<1>6. \A n \in Node : [NoCut EXCEPT !.to = n] \in CutLocals  BY DEF CutLocals, NoCut
<1>7. \A n \in Node, A \in SUBSET Alternative : [NoCut EXCEPT !.left = n, !.sols = A] \in CutLocals
      BY DEF CutLocals, NoCut
<1>8. \A n, m \in Node, a \in Nat : [NoCut EXCEPT !.to = n, !.pend = m, !.at = a] \in CutLocals
      BY DEF CutLocals, NoCut
<1> QED BY <1>1, <1>2, <1>3, <1>4, <1>5, <1>6, <1>7, <1>8, Zenon

LEMMA LocalsStep ==
  ASSUME Inv, NEW w \in Worker, Step(w)
  PROVE  TypeCut'
<1>0. TypeCut /\ TypeFrames /\ TypeControl  BY TypeParts DEF Inv, TreeInv
<1>a. cut[w] \in CutLocals  BY <1>0 DEF TypeCut
<1>b. cut[w].todo \in SUBSET Worker /\ cut[w].sols \in SUBSET Alternative /\ cut[w].more \in BOOLEAN
      BY <1>a DEF CutLocals
<1>c. ASSUME NEW r \in CutLocals, cut' = [cut EXCEPT ![w] = r] PROVE TypeCut'
      BY <1>0, <1>c DEF TypeCut
<1>d. top_cp[w] \in Node /\ Leftmost(w) \in Node
      BY StackFacts, LeftmostFacts DEF Inv, TreeInv, ShapeInv
<1>e. \A n \in Node : members[n] \in SUBSET Worker  BY DEF Inv, TreeInv, TypeOK
<1>f. \A n \in Node : {s.answer : s \in solutions[n]} \in SUBSET Alternative
  <2> SUFFICES ASSUME NEW n \in Node, NEW s \in solutions[n] PROVE s.answer \in Alternative
      OBVIOUS
  <2>1. solutions[n] \in SUBSET [alt : Nat, answer : Alternative]  BY <1>0 DEF TypeFrames
  <2> QED BY <2>1
<1>1. CASE Try(w)
      BY <1>0, <1>1 DEF Try, TypeCut, Goto, stacks, frames, locals, history
<1>2. CASE Call(w)
      BY <1>0, <1>2 DEF Call, TypeCut, Goto, stacks, frames, locals, history
<1>3. CASE Exit(w)
      BY <1>0, <1>3 DEF Exit, TypeCut, Goto, stacks, frames, locals, history
<1>4. CASE Cut(w)
  <2> DEFINE to == CpB(w, cur[w][1])
             r == [NoCut EXCEPT !.to = to]
  <2>1. cut' = [cut EXCEPT ![w] = r] \/ cut' = cut  BY <1>4 DEF Cut
  <2>2. to \in Node  BY <1>4, CutFacts DEF Inv
  <2>3. r \in CutLocals
    <3> HIDE DEF to
    <3> QED BY <2>2, CutLocalsFacts
  <2> HIDE DEF r
  <2> QED BY <1>0, <1>c, <2>1, <2>3 DEF TypeCut
<1>5. CASE Retry(w)
      BY <1>0, <1>5 DEF Retry, TypeCut, Goto, stacks, frames, locals, history
<1>6. CASE GetAlternative(w)
      BY <1>0, <1>6 DEF GetAlternative, TypeCut, Goto, stacks, frames, locals, history
<1>7. CASE EnterScheduler(w)
      BY <1>0, <1>7 DEF EnterScheduler, TypeCut, Goto, stacks, frames, locals, history
<1>8. CASE CheckPruneRequest(w)
      BY <1>0, <1>8 DEF CheckPruneRequest, TypeCut, Goto, stacks, frames, locals, history
<1>9. CASE NewAnswer(w)
  <2> DEFINE r == [NoCut EXCEPT !.left = Leftmost(w), !.sols = {answer[w]}]
  <2>3. {answer[w]} \in SUBSET Alternative  BY <1>0 DEF TypeControl
  <2>1. cut' = [cut EXCEPT ![w] = r]  BY <1>9 DEF NewAnswer
  <2>2. r \in CutLocals  BY <1>a, <1>b, <1>d, <2>3, CutLocalsFacts
  <2> HIDE DEF r
  <2> QED BY <1>c, <2>1, <2>2
<1>10. CASE StoreAnswer(w)
  <2>1. cut' = [cut EXCEPT ![w] = NoCut]  BY <1>10 DEF StoreAnswer
  <2> QED BY <1>c, <2>1, CutLocalsFacts
<1>11. CASE BeginCut(w)
  <2> DEFINE r == [cut[w] EXCEPT !.left = Leftmost(w), !.more = TRUE]
  <2>1. cut' = [cut EXCEPT ![w] = r] \/ cut' = [cut EXCEPT ![w] = NoCut]  BY <1>11 DEF BeginCut
  <2>2. r \in CutLocals /\ NoCut \in CutLocals  BY <1>a, <1>d, CutLocalsFacts
  <2> HIDE DEF r
  <2> QED BY <1>c, <2>1, <2>2
<1>12. CASE LockToSend(w)
  <2>1. PICK T, b : /\ T \subseteq members[SendFrame(w)] /\ b \in BOOLEAN
                    /\ cut' = [cut EXCEPT ![w].todo = T, ![w].sent = T, ![w].more = @ /\ b]
        BY <1>12 DEF LockToSend
  <2>2. T \in SUBSET Worker
    <3>1. SendFrame(w) \in Node  BY <1>12, SendFacts DEF LockToSend
    <3> QED BY <1>e, <2>1, <3>1
  <2> DEFINE m == cut[w].more /\ b
             r == [cut[w] EXCEPT !.todo = T, !.sent = T, !.more = m]
  <2>3. r \in CutLocals
    <3>1. m \in BOOLEAN  OBVIOUS
    <3> HIDE DEF m
    <3> QED BY <1>a, <2>2, <3>1, CutLocalsFacts
  <2>4. cut' = [cut EXCEPT ![w] = r]  BY <2>1
  <2> HIDE DEF r
  <2> QED BY <1>c, <2>3, <2>4
<1>13. CASE Send(w)
  <2>1. PICK i : cut' = [cut EXCEPT ![w].todo = cut[w].todo \ {i}]  BY <1>13 DEF Send
  <2> DEFINE r == [cut[w] EXCEPT !.todo = cut[w].todo \ {i}]
  <2>2. cut' = [cut EXCEPT ![w] = r]  BY <2>1
  <2>3. cut[w].todo \ {i} \in SUBSET Worker  BY <1>b
  <2>4. r \in CutLocals  BY <1>a, <2>3, CutLocalsFacts
  <2> HIDE DEF r
  <2> QED BY <1>c, <2>2, <2>4
<1>14. CASE CutUp(w)
  <2>1. PICK S, b : /\ b \in BOOLEAN /\ S \subseteq {s.answer : s \in solutions[top_cp[w]]}
                    /\ cut' = [cut EXCEPT ![w].more = @ /\ b, ![w].sols = @ \cup S]
    <3> DEFINE n == top_cp[w]
               S == {s.answer : s \in {t \in solutions[n] : t.alt <= branch[w][n].alt}}
               b == BeingLeftmost(w) \/ pend[n] = None
    <3>1. cut' = [cut EXCEPT ![w].more = @ /\ b, ![w].sols = @ \cup S]  BY <1>14 DEF CutUp
    <3>2. S \subseteq {s.answer : s \in solutions[n]} /\ b \in BOOLEAN  OBVIOUS
    <3> HIDE DEF S, b
    <3> QED BY <3>1, <3>2
  <2> DEFINE m == cut[w].more /\ b
             A == cut[w].sols \cup S
             r == [cut[w] EXCEPT !.more = m, !.sols = A]
  <2>2. r \in CutLocals
    <3>1. m \in BOOLEAN  OBVIOUS
    <3>2. A \in SUBSET Alternative  BY <1>b, <1>d, <1>f, <2>1
    <3> HIDE DEF m, A
    <3> QED BY <1>a, <3>1, <3>2, CutLocalsFacts
  <2>3. cut' = [cut EXCEPT ![w] = r]  BY <2>1
  <2> HIDE DEF r
  <2> QED BY <1>c, <2>2, <2>3
<1>15. CASE CutStore(w)
  <2> DEFINE r == [cut[w] EXCEPT !.frame = cut[w].left]
  <2>1. cut' = [cut EXCEPT ![w] = r] \/ cut' = cut  BY <1>15 DEF CutStore
  <2>2. cut[w].left \in Node  BY <1>15, SendFacts DEF CutStore
  <2>3. r \in CutLocals  BY <1>a, <2>2, CutLocalsFacts
  <2> HIDE DEF r
  <2> QED BY <1>0, <1>c, <2>1, <2>3 DEF TypeCut
<1>16. CASE LookUp(w)
  <2> DEFINE up == CpB(w, cut[w].frame)
             S == members[cut[w].frame]
             r == [cut[w] EXCEPT !.frame = up, !.seen = S]
  <2>1. cut' = [cut EXCEPT ![w] = r]  BY <1>16 DEF LookUp
  <2>2. up \in Node /\ S \in SUBSET Worker  BY <1>16, <1>e, SendFacts DEF LookUp, Goto
  <2>3. r \in CutLocals
    <3> HIDE DEF up, S
    <3> QED BY <1>a, <2>2, CutLocalsFacts
  <2> HIDE DEF r
  <2> QED BY <1>c, <2>1, <2>3
<1>17. CASE CutMore(w)
  <2>1. PICK T : T \subseteq members[cut[w].frame] /\ cut' = [cut EXCEPT ![w].todo = T]
        BY <1>17 DEF CutMore
  <2> DEFINE r == [cut[w] EXCEPT !.todo = T]
  <2>2. cut' = [cut EXCEPT ![w] = r]  BY <2>1
  <2>3. T \in SUBSET Worker  BY <1>17, <1>e, <2>1, SendFacts DEF CutMore
  <2>4. r \in CutLocals  BY <1>a, <2>3, CutLocalsFacts
  <2> HIDE DEF r
  <2> QED BY <1>c, <2>2, <2>4
<1>18. CASE SendMore(w)
  <2>1. PICK i : cut' = [cut EXCEPT ![w].todo = cut[w].todo \ {i}]  BY <1>18 DEF SendMore
  <2> DEFINE r == [cut[w] EXCEPT !.todo = cut[w].todo \ {i}]
  <2>2. cut' = [cut EXCEPT ![w] = r]  BY <2>1
  <2>3. cut[w].todo \ {i} \in SUBSET Worker  BY <1>b
  <2>4. r \in CutLocals  BY <1>a, <2>3, CutLocalsFacts
  <2> HIDE DEF r
  <2> QED BY <1>c, <2>2, <2>4
<1>19. CASE StopMore(w)
      BY <1>0, <1>19 DEF StopMore, TypeCut, Goto, stacks, frames, locals, history
<1>20. CASE NextMore(w)
      BY <1>0, <1>20 DEF NextMore, TypeCut, Goto, stacks, frames, locals, history
<1>21. CASE EndCut(w)
  <2>1. cut' = [cut EXCEPT ![w] = NoCut]  BY <1>21 DEF EndCut
  <2> QED BY <1>c, <2>1, CutLocalsFacts
<1>22. CASE PruneUp(w)
      BY <1>0, <1>22 DEF PruneUp, TypeCut, Goto, stacks, frames, locals, history
<1>23. CASE Scan(w)
      BY <1>0, <1>23 DEF Scan, TypeCut, Goto, stacks, frames, locals, history
<1>24. CASE PutIdle(w)
      BY <1>0, <1>24 DEF PutIdle, TypeCut, Goto, stacks, frames, locals, history
<1>25. CASE DoPending(w)
  <2> DEFINE n == top_cp[w]
             r == [NoCut EXCEPT !.to = pend[n].cp, !.pend = n, !.at = pend[n].alt]
  <2>1. cut' = [cut EXCEPT ![w] = r]  BY <1>25 DEF DoPending
  <2>2. pend[n].cp \in Node /\ pend[n].alt \in Nat /\ n \in Node
        BY <1>0, <1>d, <1>25 DEF DoPending, ExecutesPending, TypeFrames
  <2>3. r \in CutLocals
    <3> HIDE DEF n
    <3> QED BY <2>2, CutLocalsFacts
  <2> HIDE DEF r
  <2> QED BY <1>c, <2>1, <2>3
<1>26. CASE MoveUp(w)
      BY <1>0, <1>26 DEF MoveUp, TypeCut, Goto, stacks, frames, locals, history
<1>27. CASE MoveUpLast(w)
  <2> DEFINE S == IF prune_request[w] = None THEN {s.answer : s \in solutions[top_cp[w]]} ELSE {}
             r == [cut[w] EXCEPT !.sols = S]
  <2>1. cut' = [cut EXCEPT ![w] = r]  BY <1>27 DEF MoveUpLast
  <2>2. S \in SUBSET Alternative  BY <1>d, <1>f
  <2>3. r \in CutLocals
    <3> HIDE DEF S
    <3> QED BY <1>a, <2>2, CutLocalsFacts
  <2> HIDE DEF r
  <2> QED BY <1>c, <2>1, <2>3
<1>28. CASE FindLeftmost(w)
  <2> DEFINE r == [cut[w] EXCEPT !.left = Leftmost(w)]
  <2>1. cut' = [cut EXCEPT ![w] = r]  BY <1>28 DEF FindLeftmost
  <2>2. r \in CutLocals  BY <1>a, <1>b, <1>d, CutLocalsFacts
  <2> HIDE DEF r
  <2> QED BY <1>c, <2>1, <2>2
<1>29. CASE PutAnswers(w)
  <2>1. cut' = [cut EXCEPT ![w] = NoCut]  BY <1>29 DEF PutAnswers
  <2> QED BY <1>c, <2>1, CutLocalsFacts
<1>30. CASE GiveUp(w)
      BY <1>0, <1>30 DEF GiveUp, TypeCut, Goto, stacks, frames, locals, history
<1>31. CASE SetTops(w)
      BY <1>0, <1>31 DEF SetTops, TypeCut, Goto, stacks, frames, locals, history
<1>32. CASE Forward(w)
      BY <1>0, <1>32 DEF Forward, TypeCut, Goto, stacks, frames, locals, history
<1>33. ASSUME NEW v \in Worker, Choosing(w, v) PROVE TypeCut'
      BY <1>0, <1>33 DEF Choosing, Choose, TakeBranch, TakeIdleBranch, TypeCut, Goto, stacks,
         frames, locals, history
<1>34. ASSUME NEW v \in Worker, Refuse(w, v) PROVE TypeCut'
      BY <1>0, <1>34 DEF Refuse, TypeCut, Goto, stacks, frames, locals, history
<1>35. ASSUME NEW v \in Worker, Share(w, v) PROVE TypeCut'
      BY <1>0, <1>35 DEF Share, TypeCut, Goto, stacks, frames, locals, history
<1> QED BY <1>1, <1>2, <1>3, <1>4, <1>5, <1>6, <1>7, <1>8, <1>9, <1>10, <1>11, <1>12, <1>13, <1>14, <1>15, <1>16, <1>17, <1>18, <1>19, <1>20, <1>21, <1>22, <1>23, <1>24, <1>25, <1>26, <1>27, <1>28, <1>29, <1>30, <1>31, <1>32, <1>33, <1>34, <1>35 DEF Step, Choosing

LEMMA TypeStep ==
  ASSUME Inv, [Next]_vars
  PROVE  TypeOK'
<1>0. TypeControl /\ TypeFrames /\ TypeCut /\ TypeStacks'
      BY TypeParts, StacksStep DEF Inv, TreeInv
<1>1. ASSUME NEW w \in Worker, Step(w) PROVE TypeControl' /\ TypeFrames' /\ TypeCut'
      BY <1>1, ControlStep, FramesStep, LocalsStep
<1>2. ASSUME Finish PROVE TypeControl' /\ TypeFrames' /\ TypeCut'
  <2>1. \A v \in Worker : pc'[v] \in Locations  BY <1>2 DEF Finish, Locations
  <2>2. pc' \in [Worker -> Locations]  BY <1>2, <2>1 DEF Finish
  <2>3. UNCHANGED <<cur, answer, prune_request, branch, frames, locals, idle, astray>>
        BY <1>2 DEF Finish, stacks, history
  <2> QED BY <1>0, <2>2, <2>3 DEF TypeControl, TypeFrames, TypeCut, frames, locals
<1>3. ASSUME UNCHANGED vars PROVE TypeControl' /\ TypeFrames' /\ TypeCut'
  BY <1>0, <1>3 DEF vars, stacks, frames, locals, history, TypeControl, TypeFrames, TypeCut
<1>4. TypeControl' /\ TypeFrames' /\ TypeCut'  BY <1>1, <1>2, <1>3 DEF Next, Over
<1>5. TypeOK' <=> TypeControl' /\ TypeStacks' /\ TypeFrames' /\ TypeCut'
      BY DEF TypeOK, TypeControl, TypeStacks, TypeFrames, TypeCut
<1> QED BY <1>0, <1>4, <1>5

-----------------------------------------------------------------------------
(***************************************************************************)
(* Nothing is run twice.                                                   *)
(***************************************************************************)

\* Steps that start no alternative.
LEMMA FreshKept ==
  ASSUME Inv, \A v \in Worker : Stack(v)' \subseteq Stack(v),
         \A v \in Worker, n \in Node : cp_ap'[v][n] \in {NULL, cp_ap[v][n]},
         \A n \in Node : /\ members'[n] \subseteq members[n]
                         /\ members'[n] = {} => alternative'[n] = NULL
                         /\ alternative'[n] \in {NULL, alternative[n]},
         \A v \in Worker : Running(v)' => Running(v) /\ cur'[v] = cur[v]
  PROVE  FreshInv'
<1>1. ASSUME NEW w \in Worker, NEW n \in Stack(w)', cp_ap'[w][n] # GETWORK
      PROVE  members'[n] = {} /\ \A v \in Worker \ {w} : n \notin Stack(v)'
  <2>1. n \in Node /\ cp_ap'[w][n] # NULL  BY DEF Stack
  <2>2. n \in Stack(w) /\ cp_ap[w][n] # GETWORK  BY <1>1, <2>1
  <2>3. members[n] = {} /\ \A v \in Worker \ {w} : n \notin Stack(v)  BY <2>2 DEF Inv, FreshInv
  <2> QED BY <2>1, <2>3
<1>2. ASSUME NEW y \in Alternative, Pending(y)' PROVE Pending(y)
  <2>1. y[1] \in Node  BY AlternativeFacts
  <2>2. ASSUME NEW w \in Worker, cp_ap'[w][y[1]] > 0 PROVE cp_ap'[w][y[1]] = cp_ap[w][y[1]]
    <3>1. ~ (NULL > 0)  BY NoneFacts
    <3> QED BY <2>1, <2>2, <3>1
  <2> QED BY <1>2, <2>1, <2>2 DEF Pending
<1>3. \A y \in Alternative : Untouched(y) => Untouched(y)'  BY DEF Untouched
<1>4. \A y \in Alternative, v \in Worker : Inside(v, y)' => Inside(v, y)  BY DEF Inside
<1>5. ASSUME NEW y \in Alternative, Pending(y)'
      PROVE  Untouched(y)' /\ \A v \in Worker : ~ Inside(v, y)'
      BY <1>2, <1>3, <1>4, <1>5 DEF Inv, FreshInv
<1>6. ASSUME NEW w \in Worker, Running(w)'
      PROVE  Untouched(cur[w])' /\ \A v \in Worker \ {w} : ~ Inside(v, cur[w])'
  <2>1. Running(w) /\ cur'[w] = cur[w] /\ cur[w] \in Alternative  BY <1>6 DEF Inv, TreeInv, TypeOK
  <2>2. Untouched(cur[w]) /\ \A v \in Worker \ {w} : ~ Inside(v, cur[w])
        BY <2>1 DEF Inv, FreshInv
  <2>3. Created(cur[w])' = Created(cur[w])  BY <2>1 DEF Created
  <2>4. Untouched(cur[w])'  BY <2>1, <2>2, <2>3 DEF Untouched
  <2>5. ASSUME NEW v \in Worker \ {w} PROVE ~ Inside(v, cur[w])'
        BY <2>1, <2>2, <2>3 DEF Inside, Within
  <2> QED BY <2>4, <2>5
<1> QED BY <1>1, <1>5, <1>6 DEF FreshInv

\* Steps that start an alternative of a choice point on the stack.
LEMMA FreshTaken ==
  ASSUME Inv, NEW w \in Worker, NEW x \in Alternative, x[1] \in Stack(w), Pending(x),
         \A v \in Worker : Stack(v)' \subseteq Stack(v),
         \A v \in Worker, n \in Node : cp_ap'[v][n] # NULL =>
           (cp_ap'[v][n] = GETWORK <=> cp_ap[v][n] = GETWORK),
         members' = members, \A n \in Node : members[n] = {} => alternative'[n] = NULL,
         \A y \in Alternative : Pending(y)' => Pending(y) /\ y # x,
         cur' = [cur EXCEPT ![w] = x], \A v \in Worker \ {w} : Running(v)' => Running(v)
  PROVE  FreshInv'
<1>0. cur'[w] = x /\ \A v \in Worker \ {w} : cur'[v] = cur[v]  BY DEF Inv, TreeInv, TypeOK
<1>1. ASSUME NEW v \in Worker, NEW n \in Stack(v)', cp_ap'[v][n] # GETWORK
      PROVE  members'[n] = {} /\ \A u \in Worker \ {v} : n \notin Stack(u)'
  <2>1. n \in Node /\ cp_ap'[v][n] # NULL  BY DEF Stack
  <2>2. n \in Stack(v) /\ cp_ap[v][n] # GETWORK  BY <1>1, <2>1
  <2>3. members[n] = {} /\ \A u \in Worker \ {v} : n \notin Stack(u)  BY <2>2 DEF Inv, FreshInv
  <2> QED BY <2>3
<1>2. \A y \in Alternative : Untouched(y) => Untouched(y)'  BY DEF Untouched
<1>3. \A y \in Alternative, v \in Worker \ {w} : Inside(v, y)' => Inside(v, y)
      BY <1>0 DEF Inside
<1>4. \A y \in Alternative : Untouched(y) => ~ Within(x, y)  BY DEF Untouched, Within
<1>5. ASSUME NEW y \in Alternative, Pending(y)'
      PROVE  Untouched(y)' /\ \A v \in Worker : ~ Inside(v, y)'
  <2>1. y # x /\ Untouched(y) /\ \A v \in Worker : ~ Inside(v, y)  BY <1>5 DEF Inv, FreshInv
  <2>2. ~ Inside(w, y)'  BY <1>0, <1>4, <2>1 DEF Inside, Within
  <2> QED BY <1>2, <1>3, <2>1, <2>2
<1>6. Untouched(x)' /\ \A v \in Worker \ {w} : ~ Inside(v, x)'
      BY <1>2, <1>3 DEF Inv, FreshInv
<1>7. ASSUME NEW v \in Worker, Running(v)'
      PROVE  Untouched(cur[v])' /\ \A u \in Worker \ {v} : ~ Inside(u, cur[v])'
  <2>1. CASE v = w
    <3>1. Untouched(cur[v])'  BY <1>0, <1>6, <2>1 DEF Untouched, Created
    <3>2. ASSUME NEW u \in Worker \ {w} PROVE ~ Inside(u, cur[v])'
          BY <1>0, <1>6, <2>1 DEF Inside, Within, Created
    <3> QED BY <2>1, <3>1, <3>2
  <2>2. CASE v # w
    <3>1. Running(v) /\ cur'[v] = cur[v] /\ cur[v] \in Alternative
          BY <1>0, <1>7, <2>2 DEF Inv, TreeInv, TypeOK
    <3>2. Untouched(cur[v]) /\ \A u \in Worker \ {v} : ~ Inside(u, cur[v])
          BY <3>1 DEF Inv, FreshInv
    <3>3. Created(cur[v])' = Created(cur[v])  BY <3>1 DEF Created
    <3>4. Untouched(cur[v])'  BY <3>2, <3>3 DEF Untouched
    <3>5. ASSUME NEW u \in Worker \ {v}, u # w PROVE ~ Inside(u, cur[v])'
          BY <1>0, <3>1, <3>2, <3>3, <3>5 DEF Inside, Within
    <3>6. ~ Inside(w, cur[v])'
      <4>1. x # cur[v]
        <5>1. ~ Inside(v, x)  BY DEF Inv, FreshInv
        <5> QED BY <3>1, <5>1 DEF Inside
      <4>2. ~ Within(x, cur[v])  BY <1>4, <3>1, <3>2
      <4> QED BY <1>0, <3>1, <3>3, <4>1, <4>2 DEF Inside, Within
    <3> QED BY <3>4, <3>5, <3>6
  <2> QED BY <2>1, <2>2
<1> QED BY <1>1, <1>5, <1>7 DEF FreshInv

\* The first alternative of a new choice point.
LEMMA FreshTry ==
  ASSUME Inv, NEW w \in Worker, Try(w)
  PROVE  FreshInv'
<1>c. PICK c \in Node : c = Created(cur[w])  BY TryFacts
<1>0. /\ <<c, 1>> \in Alternative /\ cur[w] \in Alternative
      /\ \A n \in Node : Younger(c, n) <=> AtOrUnder(cur[w][1], n)
      /\ \A n \in Stack(w) : Younger(c, n)
      /\ \A v \in Worker : c \notin Stack(v)
      /\ members[c] = {}
      /\ cp_ap'[w][c] = 2 /\ \A n \in Node \ {c} : cp_ap'[w][n] = cp_ap[w][n]
      /\ \A v \in Worker \ {w} : cp_ap'[v] = cp_ap[v]
      /\ Stack(w)' = Stack(w) \cup {c} /\ \A v \in Worker \ {w} : Stack(v)' = Stack(v)
      /\ cur'[w] = <<c, 1>> /\ \A v \in Worker \ {w} : cur'[v] = cur[v]
      BY <1>c, TryFacts
<1>1. pc' = pc /\ members' = members /\ alternative' = alternative /\ Running(w) /\ c # Leaf
      BY <1>c DEF Try, frames, Running
<1>2. \A v \in Worker : Running(v)' = Running(v)  BY <1>1 DEF Running
<1>3. \A z \in Alternative : Created(z) = c => z = cur[w]  BY <1>0, <1>1, <1>c, TreeAssumption
<1>4. Untouched(cur[w]) /\ \A v \in Worker \ {w} : ~ Inside(v, cur[w])
      BY <1>1 DEF Inv, FreshInv
\* The new choice point is below no alternative that w is not in.
<1>5. ASSUME NEW z \in Alternative, ~ Inside(w, z), Created(z) # Leaf PROVE ~ AtOrUnder(c, Created(z))
  <2>1. Created(z) \in Node  BY <1>5, AlternativeFacts
  <2>2. cur[w] # z /\ ~ Within(cur[w], z)  BY <1>1, <1>5 DEF Inside
  <2>3. c # Created(z)  BY <1>3, <2>2
  <2>4. ~ Younger(c, Created(z))  BY <1>0, <1>c, <1>5, <2>1, <2>2 DEF Within
  <2> QED BY <2>3, <2>4 DEF AtOrUnder, Younger
<1>6. ASSUME NEW z \in Alternative, ~ Inside(w, z), Untouched(z) PROVE Untouched(z)'
  <2> SUFFICES ASSUME Created(z) # Leaf, NEW v \in Worker, NEW n \in Stack(v)'
               PROVE  ~ AtOrUnder(n, Created(z))
      BY DEF Untouched
  <2>1. n \in Stack(v) \/ n = c  BY <1>0
  <2> QED BY <1>5, <1>6, <2>1 DEF Untouched
\* The alternatives of the new choice point.
<1>7. ASSUME NEW a, <<c, a>> \in Alternative
      PROVE  /\ Untouched(<<c, a>>)' /\ \A v \in Worker \ {w} : ~ Inside(v, <<c, a>>)'
             /\ ~ Within(<<c, 1>>, <<c, a>>)
  <2> DEFINE z == <<c, a>>
             d == Created(z)
  <2>1. d # Leaf => d \in Node /\ Younger(d, c)
        BY <1>0, <1>7, AlternativeFacts, OrderAssumption DEF Younger, AtOrUnder
  <2>2. d # Leaf => ~ AtOrUnder(c, d)
        BY <1>0, <2>1, UnderFacts DEF AtOrUnder, Younger
  <2>3. ASSUME d # Leaf, NEW n \in Node, AtOrUnder(n, d) PROVE Younger(n, c)
        BY <1>0, <2>1, <2>3, UnderFacts DEF Younger
  <2>4. ASSUME d # Leaf, NEW v \in Worker, NEW n \in Stack(v)' PROVE ~ AtOrUnder(n, d)
    <3>1. CASE n = c  BY <2>2, <2>4, <3>1
    <3>2. CASE n # c
      <4>1. n \in Stack(v) /\ n \in Node  BY <1>0, <3>2 DEF Stack
      <4>2. ~ AtOrUnder(n, c)  BY <1>c, <1>1, <1>4, <4>1 DEF Untouched
      <4> QED BY <2>3, <2>4, <4>1, <4>2 DEF AtOrUnder, Younger
    <3> QED BY <3>1, <3>2
  <2>5. ASSUME NEW v \in Worker \ {w} PROVE ~ Inside(v, z)'
    <3> SUFFICES ASSUME Running(v), cur[v] = z \/ Within(cur[v], z) PROVE FALSE
        BY <1>0, <1>2 DEF Inside
    <3>1. cur[v] \in Alternative /\ cur[v][1] \in Node
          BY AlternativeFacts DEF Inv, TreeInv, TypeOK
    <3>2. AtOrUnder(cur[v][1], c)
      <4>1. CASE cur[v] = z  BY <4>1 DEF AtOrUnder
      <4>2. CASE Within(cur[v], z)
        <5>1. d # Leaf /\ AtOrUnder(cur[v][1], d)  BY <4>2 DEF Within
        <5> HIDE DEF d
        <5> QED BY <2>3, <3>1, <5>1 DEF AtOrUnder, Younger
      <4> QED BY <4>1, <4>2
    <3>3. Within(cur[v], cur[w])  BY <1>c, <1>1, <3>2 DEF Within
    <3> QED BY <1>4, <3>3 DEF Inside
  <2>6. Untouched(z)'  BY <2>4 DEF Untouched
  <2>7. ~ Within(<<c, 1>>, z)  BY <2>2 DEF Within
  <2> QED BY <2>5, <2>6, <2>7
<1>8. \A z \in Alternative, v \in Worker \ {w} : Inside(v, z)' => Inside(v, z)
      BY <1>0, <1>2 DEF Inside
<1>9. ASSUME NEW z \in Alternative, ~ Inside(w, z), z # <<c, 1>> PROVE ~ Inside(w, z)'
  <2>1. ~ Within(<<c, 1>>, z)  BY <1>5, <1>9 DEF Within
  <2> QED BY <1>0, <1>9, <2>1 DEF Inside
<1>10. ASSUME NEW y \in Alternative, Pending(y)'
       PROVE  Pending(y) \/ (\E a : y = <<c, a>> /\ a # 1)
  <2>1. y[1] \in Node /\ y = <<y[1], y[2]>>  BY AlternativeFacts
  <2>2. CASE y[1] = c /\ ~ Pending(y)
    <3>1. PICK v \in Worker : cp_ap'[v][c] > 0 /\ y[2] >= cp_ap'[v][c]
          BY <1>1, <1>10, <2>2 DEF Pending
    <3>2. v = w  BY <1>0, <2>1, <2>2, <3>1 DEF Pending
    <3>3. y[2] # 1  BY <1>0, <3>1, <3>2
    <3> QED BY <2>1, <2>2, <3>3
  <2>3. CASE y[1] # c
        BY <1>0, <1>1, <1>10, <2>1, <2>3 DEF Pending
  <2> QED BY <2>2, <2>3
<1>11. ~ Pending(<<c, 1>>)
  <2>1. \A v \in Worker : cp_ap[v][c] = NULL  BY <1>0 DEF Stack
  <2>2. alternative[c] = NULL  BY <1>0 DEF Inv, FreshInv
  <2> QED BY <2>1, <2>2, NoneFacts DEF Pending
<1>12. ASSUME NEW y \in Alternative, Pending(y)'
       PROVE  Untouched(y)' /\ \A v \in Worker : ~ Inside(v, y)'
  <2>1. CASE Pending(y)
    <3>1. Untouched(y) /\ (\A v \in Worker : ~ Inside(v, y)) /\ y # <<c, 1>>
          BY <1>11, <2>1 DEF Inv, FreshInv
    <3> QED BY <1>6, <1>8, <1>9, <3>1
  <2>2. ASSUME NEW a, y = <<c, a>>, a # 1 PROVE Untouched(y)' /\ \A v \in Worker : ~ Inside(v, y)'
    <3>1. <<c, 1>> # <<c, a>>  BY <2>2
    <3>2. /\ Untouched(<<c, a>>)' /\ \A v \in Worker \ {w} : ~ Inside(v, <<c, a>>)'
          /\ ~ Within(<<c, 1>>, <<c, a>>)
          BY <1>7, <2>2
    <3>3. ~ Inside(w, <<c, a>>)'  BY <1>0, <3>1, <3>2 DEF Inside
    <3>4. Untouched(y)'  BY <2>2, <3>2 DEF Untouched
    <3>5. ASSUME NEW v \in Worker PROVE ~ Inside(v, y)'
      <4>1. ~ Inside(v, <<c, a>>)'  BY <3>2, <3>3
      <4> QED BY <2>2, <4>1 DEF Inside
    <3> QED BY <3>4, <3>5
  <2> QED BY <1>10, <1>12, <2>1, <2>2
<1>13. ASSUME NEW v \in Worker, Running(v)'
       PROVE  Untouched(cur[v])' /\ \A u \in Worker \ {v} : ~ Inside(u, cur[v])'
  <2>1. CASE v = w
    <3>1. Untouched(<<c, 1>>)' /\ \A u \in Worker \ {w} : ~ Inside(u, <<c, 1>>)'  BY <1>0, <1>7
    <3>2. Untouched(cur[v])'  BY <1>0, <2>1, <3>1 DEF Untouched, Created
    <3>3. ASSUME NEW u \in Worker \ {w} PROVE ~ Inside(u, cur[v])'
          BY <1>0, <2>1, <3>1 DEF Inside, Within, Created
    <3> QED BY <2>1, <3>2, <3>3
  <2>2. CASE v # w
    <3>1. Running(v) /\ cur'[v] = cur[v] /\ cur[v] \in Alternative
          BY <1>0, <1>2, <1>13, <2>2 DEF Inv, TreeInv, TypeOK
    <3> DEFINE z == cur[v]
    <3>2. Untouched(z) /\ \A u \in Worker \ {v} : ~ Inside(u, z)  BY <3>1 DEF Inv, FreshInv
    <3>3. Created(z)' = Created(z)  BY <3>1 DEF Created
    <3>4. ~ Inside(w, z)  BY <2>2, <3>2
    <3>5. PICK k \in Alternative : k = z  BY <3>1
    <3>6. k # <<c, 1>>
      <4>1. ASSUME k = <<c, 1>> PROVE FALSE
        <5>1. cur[v] = <<c, 1>>  BY <3>5, <4>1
        <5>2. Within(cur[v], cur[w])  BY <1>c, <1>1, <5>1 DEF Within, AtOrUnder
        <5> QED BY <1>4, <2>2, <3>1, <5>2 DEF Inside
      <4> QED BY <4>1
    <3>7. Untouched(k) /\ \A u \in Worker \ {v} : ~ Inside(u, k)  BY <3>2, <3>5
    <3>8. Untouched(k)'  BY <1>6, <2>2, <3>7
    <3>9. ASSUME NEW u \in Worker \ {v} PROVE ~ Inside(u, k)'
          BY <1>8, <1>9, <2>2, <3>6, <3>7
    <3>10. Untouched(cur[v])'  BY <3>1, <3>5, <3>8 DEF Untouched, Created
    <3>11. ASSUME NEW u \in Worker \ {v} PROVE ~ Inside(u, cur[v])'
          BY <3>1, <3>5, <3>9 DEF Inside, Within, Created
    <3> QED BY <3>10, <3>11
  <2> QED BY <2>1, <2>2
<1>14. ASSUME NEW v \in Worker, NEW n \in Stack(v)', cp_ap'[v][n] # GETWORK
       PROVE  members'[n] = {} /\ \A u \in Worker \ {v} : n \notin Stack(u)'
  <2>1. CASE n = c  BY <1>0, <1>1, <2>1
  <2>2. CASE n # c
    <3>1. n \in Node /\ n \in Stack(v)  BY <1>0, <2>2 DEF Stack
    <3>2. cp_ap[v][n] # GETWORK  BY <1>0, <1>14, <2>2, <3>1
    <3>3. members[n] = {} /\ \A u \in Worker \ {v} : n \notin Stack(u)  BY <3>1, <3>2 DEF Inv, FreshInv
    <3> QED BY <1>0, <1>1, <2>2, <3>3
  <2> QED BY <2>1, <2>2
<1>15. \A n \in Node : members'[n] = {} => alternative'[n] = NULL  BY <1>1 DEF Inv, FreshInv
<1> QED BY <1>12, <1>13, <1>14, <1>15 DEF FreshInv

\* Steps that hand alternatives over: what is left and what runs is the same.
LEMMA FreshMoved ==
  ASSUME Inv, \A v \in Worker : \E u \in Worker : Stack(v)' \subseteq Stack(u),
         \A y \in Alternative : Pending(y)' => Pending(y),
         \A v \in Worker : Running(v)' => Running(v), cur' = cur,
         \A v \in Worker : \A n \in Stack(v)' : cp_ap'[v][n] # GETWORK =>
           members'[n] = {} /\ \A u \in Worker \ {v} : n \notin Stack(u)',
         \A n \in Node : members'[n] = {} => alternative'[n] = NULL
  PROVE  FreshInv'
<1>1. \A y \in Alternative : Untouched(y) => Untouched(y)'  BY DEF Untouched
<1>2. \A y \in Alternative, v \in Worker : Inside(v, y)' => Inside(v, y)  BY DEF Inside
<1>3. ASSUME NEW y \in Alternative, Pending(y)'
      PROVE  Untouched(y)' /\ \A v \in Worker : ~ Inside(v, y)'
      BY <1>1, <1>2, <1>3 DEF Inv, FreshInv
<1>4. ASSUME NEW v \in Worker, Running(v)'
      PROVE  Untouched(cur[v])' /\ \A u \in Worker \ {v} : ~ Inside(u, cur[v])'
  <2>1. cur[v] \in Alternative /\ Running(v)  BY <1>4 DEF Inv, TreeInv, TypeOK
  <2>2. PICK z \in Alternative : z = cur[v]  BY <2>1
  <2>3. Untouched(z) /\ \A u \in Worker \ {v} : ~ Inside(u, z)
        BY <2>1, <2>2 DEF Inv, FreshInv
  <2>4. Untouched(z)' /\ \A u \in Worker \ {v} : ~ Inside(u, z)'  BY <1>1, <1>2, <2>3
  <2>5. Untouched(cur[v])'  BY <2>2, <2>4 DEF Untouched, Created
  <2>6. ASSUME NEW u \in Worker \ {v} PROVE ~ Inside(u, cur[v])'
        BY <2>2, <2>4 DEF Inside, Within, Created
  <2> QED BY <2>5, <2>6
<1> QED BY <1>3, <1>4 DEF FreshInv

LEMMA FreshShare ==
  ASSUME Inv, NEW p \in Worker, NEW q \in Worker, Share(p, q)
  PROVE  FreshInv'
<1>1. /\ p # q /\ pc' = [pc EXCEPT ![p] = "share"] /\ pc[p] = "run"
      /\ Private(p) \in SUBSET Stack(p)
      /\ \A n \in Private(p) : /\ cp_ap[p][n] \in 2 .. Len(Tree[n])
                               /\ \A v \in Worker \ {p} : n \notin Stack(v)
      /\ \A n \in Private(p) : members'[n] = {p, q}
      /\ \A n \in Node \ Private(p) : members'[n] = members[n] \/ members'[n] = members[n] \cup {q}
      /\ \A n \in Node \ Private(p) : p \in members[n] /\ Younger(n, top_cp[q]) <=>
              members'[n] = members[n] \cup {q} /\ q \notin members[n]
      /\ \A v \in Worker \ {p} : cp_ap'[v] = cp_ap[v]
      /\ \A n \in Stack(p) : cp_ap'[p][n] = GETWORK
      /\ \A v \in Worker : Stack(v)' = Stack(v)
      BY ShareFacts
<1>2. cur' = cur /\ alternative' = [n \in Node |-> IF n \in Private(p) THEN cp_ap[p][n] ELSE alternative[n]]
      BY DEF Share
<1>3. \A v \in Worker : Running(v)' => Running(v)
      BY <1>1 DEF Running, Inv, TreeInv, TypeOK
<1>4. ASSUME NEW y \in Alternative, Pending(y)' PROVE Pending(y)
  <2>1. y[1] \in Node  BY AlternativeFacts
  <2>2. CASE \E v \in Worker : cp_ap'[v][y[1]] > 0 /\ y[2] >= cp_ap'[v][y[1]]
    <3>1. PICK v \in Worker : cp_ap'[v][y[1]] > 0 /\ y[2] >= cp_ap'[v][y[1]]  BY <2>2
    <3>2. v # p
      <4>1. ASSUME v = p PROVE FALSE
        <5>1. y[1] \in Stack(p)'  BY <2>1, <3>1, <4>1, NoneFacts DEF Stack
        <5>2. cp_ap'[p][y[1]] = GETWORK  BY <1>1, <5>1
        <5> QED BY <3>1, <4>1, <5>2, NoneFacts
      <4> QED BY <4>1
    <3> QED BY <1>1, <3>1, <3>2 DEF Pending
  <2>3. CASE alternative'[y[1]] # NULL /\ y[2] >= alternative'[y[1]]
    <3>1. CASE y[1] \in Private(p)
      <4>1. cp_ap[p][y[1]] = alternative'[y[1]] /\ cp_ap[p][y[1]] \in 2 .. Len(Tree[y[1]])
            BY <1>1, <1>2, <2>1, <3>1
      <4>2. cp_ap[p][y[1]] > 0
        <5>1. \A a \in 2 .. Len(Tree[y[1]]) : a > 0  OBVIOUS
        <5> QED BY <4>1, <5>1
      <4> QED BY <2>3, <4>1, <4>2 DEF Pending
    <3>2. CASE y[1] \notin Private(p)  BY <1>2, <2>1, <2>3, <3>2 DEF Pending
    <3> QED BY <3>1, <3>2
  <2> QED BY <1>4, <2>2, <2>3 DEF Pending
<1>5. ASSUME NEW v \in Worker, NEW n \in Stack(v)', cp_ap'[v][n] # GETWORK
      PROVE  members'[n] = {} /\ \A u \in Worker \ {v} : n \notin Stack(u)'
  <2>1. n \in Node /\ n \in Stack(v) /\ v # p  BY <1>1, <1>5 DEF Stack
  <2>2. members[n] = {} /\ \A u \in Worker \ {v} : n \notin Stack(u)
        BY <1>1, <1>5, <2>1 DEF Inv, FreshInv
  <2>3. n \notin Private(p)  BY <1>1, <2>1
  <2>4. members'[n] = members[n]  BY <1>1, <2>1, <2>2, <2>3
  <2> QED BY <1>1, <2>2, <2>4
<1>6. ASSUME NEW n \in Node, members'[n] = {} PROVE alternative'[n] = NULL
  <2>1. n \notin Private(p) /\ members[n] = {}  BY <1>1, <1>6
  <2> QED BY <1>2, <2>1 DEF Inv, FreshInv
<1> QED BY <1>1, <1>2, <1>3, <1>4, <1>5, <1>6, FreshMoved

LEMMA FreshSetTops ==
  ASSUME Inv, NEW p \in Worker, SetTops(p)
  PROVE  FreshInv'
<1>0. PICK q \in Worker : q = partner[p]  BY DEF Inv, TreeInv, TypeOK
<1>1. /\ p # q /\ pc' = [pc EXCEPT ![p] = "forward"] /\ pc[p] = "share" /\ members' = members
      /\ cp_ap' = [cp_ap EXCEPT ![q] = cp_ap[p]]
      /\ \A n \in Stack(p) : cp_ap[p][n] = GETWORK
      BY <1>0, SetTopsFacts DEF Inv
<1>2. cur' = cur /\ alternative' = alternative  BY DEF SetTops, frames
<1>3. cp_ap'[q] = cp_ap[p] /\ \A v \in Worker \ {q} : cp_ap'[v] = cp_ap[v]
      BY <1>1 DEF Inv, TreeInv, TypeOK
<1>4. Stack(q)' = Stack(p) /\ \A v \in Worker \ {q} : Stack(v)' = Stack(v)
      BY <1>3 DEF Stack
<1>5. \A v \in Worker : Running(v)' => Running(v)
      BY <1>1 DEF Running, Inv, TreeInv, TypeOK
<1>6. ASSUME NEW y \in Alternative, Pending(y)' PROVE Pending(y)
      BY <1>2, <1>3, <1>6 DEF Pending
<1>7. ASSUME NEW v \in Worker, NEW n \in Stack(v)', cp_ap'[v][n] # GETWORK
      PROVE  members'[n] = {} /\ \A u \in Worker \ {v} : n \notin Stack(u)'
  <2>1. v # q /\ v # p  BY <1>1, <1>3, <1>4, <1>7
  <2>2. n \in Stack(v) /\ cp_ap[v][n] # GETWORK  BY <1>3, <1>4, <1>7, <2>1
  <2>3. members[n] = {} /\ \A u \in Worker \ {v} : n \notin Stack(u)  BY <2>2 DEF Inv, FreshInv
  <2> QED BY <1>1, <1>4, <2>1, <2>3
<1>8. \A n \in Node : members'[n] = {} => alternative'[n] = NULL  BY <1>1, <1>2 DEF Inv, FreshInv
<1> QED BY <1>2, <1>4, <1>5, <1>6, <1>7, <1>8, FreshMoved

\* A step of a worker that leaves the stacks alone takes no alternative.
LEMMA PlainWork ==
  ASSUME Inv, NEW w \in Worker, PlainStep(w)
  PROVE  \A n \in Node : alternative'[n] \in {NULL, alternative[n]}
<1>1. CASE CutStore(w)
  <2>1. \E l : alternative' = alternative \/ alternative' = [alternative EXCEPT ![l] = NULL]
        BY <1>1 DEF CutStore
  <2> QED BY <2>1 DEF Inv, TreeInv, TypeOK
<1>2. CASE NextMore(w)
  <2>1. \E l : alternative' = [alternative EXCEPT ![l] = NULL]  BY <1>2 DEF NextMore
  <2> QED BY <2>1 DEF Inv, TreeInv, TypeOK
<1>3. CASE ~ CutStore(w) /\ ~ NextMore(w)
  <2>1. alternative' = alternative
        BY <1>3 DEF PlainStep, frames, Call, Exit, EnterScheduler, NewAnswer, StoreAnswer, BeginCut,
             LockToSend, Send, LookUp, CutMore, SendMore, StopMore, EndCut, Scan, DoPending,
             FindLeftmost, PutAnswers, GiveUp
  <2> QED BY <2>1
<1> QED BY <1>1, <1>2, <1>3

\* A worker that moves up leaves no work in a frame without members.
LEMMA MoveWork ==
  ASSUME Inv, NEW w \in Worker, MoveStep(w)
  PROVE  \A n \in Node : /\ members'[n] = {} => alternative'[n] = NULL
                         /\ alternative'[n] \in {NULL, alternative[n]}
<1> DEFINE t == top_cp[w]
<1>1. /\ t \in Node /\ members' = Without(w, t) /\ alternative \in [Node -> Nat]
      /\ members \in [Node -> SUBSET Worker] /\ \A n \in Node : members[n] = {} => alternative[n] = NULL
      BY MoveShape DEF Inv, FreshInv, TreeInv, TypeOK
<1>2. \/ alternative' = [alternative EXCEPT ![t] = NULL]
      \/ alternative' = alternative /\ members[t] # {w}
      BY DEF MoveStep, CutUp, PruneUp, MoveUp, MoveUpLast
<1>3. w \in members[t]  BY DEF Inv, TreeInv, TypeOK
<1> HIDE DEF t
<1>4. members'[t] = members[t] \ {w} /\ \A n \in Node \ {t} : members'[n] = members[n]
      BY <1>1 DEF Without
<1>5. CASE alternative' = [alternative EXCEPT ![t] = NULL]  BY <1>1, <1>4, <1>5
<1>6. CASE alternative' = alternative /\ members[t] # {w}
  <2>1. members'[t] # {}  BY <1>1, <1>3, <1>4, <1>6
  <2> QED BY <1>1, <1>4, <1>6, <2>1
<1> QED BY <1>2, <1>5, <1>6

LEMMA FreshStep ==
  ASSUME Inv, [Next]_vars
  PROVE  FreshInv'
<1>m. ASSUME NEW w \in Worker, MoveStep(w)
      PROVE  /\ pc[w] \in {"up", "prune", "work", "idle"} /\ top_cp[w] # Root
             /\ Pop(w, top_cp[w]) /\ members' = Without(w, top_cp[w])
             /\ cur' = cur /\ \A v \in Worker \ {w} : pc'[v] = pc[v]
             /\ pc'[w] \in {"store", "up", "scan", "prune", "fail", "carry", "work", "idle"}
      BY <1>m, MoveShape
<1> USE DEF Inv
<1>0. /\ pc \in [Worker -> Locations] /\ cur \in [Worker -> Alternative]
      /\ partner \in [Worker -> Worker] /\ alternative \in [Node -> Nat]
      /\ \A n \in Node : members[n] = {} => alternative[n] = NULL
      BY DEF TreeInv, TypeOK, FreshInv
<1>1. ASSUME NEW w \in Worker, PlainStep(w) PROVE FreshInv'
  <2>1. /\ cp_ap' = cp_ap /\ members' = members /\ pc'[w] \notin {"run", "share", "forward"}
        /\ \A v \in Worker \ {w} : pc'[v] = pc[v] /\ cur'[v] = cur[v]
        BY <1>1, PlainSteps
  <2>2. \A n \in Node : alternative'[n] \in {NULL, alternative[n]}  BY <1>1, PlainWork
  <2>3. \A v \in Worker : Running(v)' => Running(v) /\ cur'[v] = cur[v]
        BY <2>1 DEF Running
  <2>4. \A v \in Worker : Stack(v)' = Stack(v)  BY <2>1 DEF Stack
  <2> QED BY <1>0, <2>1, <2>2, <2>3, <2>4, FreshKept
<1>2. ASSUME NEW w \in Worker, MoveStep(w) PROVE FreshInv'
  <2>1. /\ pc[w] \notin InEngine /\ pc[w] # "ask" /\ top_cp[w] # Root
        /\ Pop(w, top_cp[w]) /\ members' = Without(w, top_cp[w])
        /\ cur' = cur /\ \A v \in Worker \ {w} : pc'[v] = pc[v]
        /\ pc'[w] \notin {"run", "share", "forward"}
    <3>1. pc[w] \notin InEngine /\ pc[w] # "ask"  BY <1>2, <1>m DEF InEngine
    <3>2. pc'[w] \notin {"run", "share", "forward"}  BY <1>2, <1>m
    <3> QED BY <1>2, <1>m, <3>1, <3>2
  <2>2. /\ \A v \in Worker : Stack(v)' \subseteq Stack(v)
        /\ \A v \in Worker, n \in Node : cp_ap'[v][n] \in {NULL, cp_ap[v][n]}
        /\ \A n \in Node : members'[n] \subseteq members[n]
        BY <2>1, PopFacts
  <2>3. \A n \in Node : /\ members'[n] = {} => alternative'[n] = NULL
                        /\ alternative'[n] \in {NULL, alternative[n]}
        BY <1>2, MoveWork
  <2>4. \A v \in Worker : Running(v)' => Running(v) /\ cur'[v] = cur[v]
        BY <2>1 DEF Running
  <2> QED BY <2>2, <2>3, <2>4, FreshKept
<1>3. ASSUME NEW w \in Worker, Cut(w) \/ CheckPruneRequest(w) PROVE FreshInv'
  <2>1. members' = members /\ alternative' = alternative
        BY <1>3 DEF Cut, CheckPruneRequest, frames
  <2>2. /\ pc'[w] \notin {"run", "share", "forward"} /\ pc[w] \in {"exit", "run"}
        /\ \A v \in Worker \ {w} : pc'[v] = pc[v] /\ cur'[v] = cur[v]
    <3>1. CASE Cut(w)
      <4>1. \A v \in Worker \ {w} : cur'[v] = cur[v]  BY <3>1, CutFacts
      <4>2. \E to \in {"cut", "exit", "fail"} : pc' = [pc EXCEPT ![w] = to]
            BY <3>1 DEF Cut
      <4> QED BY <1>0, <3>1, <4>1, <4>2 DEF Cut
    <3>2. CASE CheckPruneRequest(w)  BY <1>0, <3>2 DEF CheckPruneRequest, Goto
    <3> QED BY <1>3, <3>1, <3>2
  <2>3. \E r \in Stack(w) : AtOrUnder(r, top_cp[w]) /\ cp_ap' = [cp_ap EXCEPT ![w] = CutTo(w, r)]
    <3>1. CASE Cut(w)  BY <3>1, CutFacts
    <3>2. CASE CheckPruneRequest(w)
          BY <3>2, StackFacts DEF CheckPruneRequest, AtOrUnder, TreeInv, ShapeInv
    <3> QED BY <1>3, <3>1, <3>2
  <2>4. PICK r \in Stack(w) : AtOrUnder(r, top_cp[w]) /\ cp_ap' = [cp_ap EXCEPT ![w] = CutTo(w, r)]
        BY <2>3
  <2>5. /\ \A v \in Worker \ {w} : cp_ap'[v] = cp_ap[v] /\ Stack(v)' = Stack(v)
        /\ \A n \in Stack(w)' : n \in Stack(w)
        /\ \A n \in Node : cp_ap'[w][n] \in {NULL, cp_ap[w][n]}
        BY <2>2, <2>4, CutToFacts
  <2>6. /\ \A v \in Worker : Stack(v)' \subseteq Stack(v)
        /\ \A v \in Worker, n \in Node : cp_ap'[v][n] \in {NULL, cp_ap[v][n]}
        BY <2>5
  <2>7. \A v \in Worker : Running(v)' => Running(v) /\ cur'[v] = cur[v]
        BY <2>2 DEF Running
  <2> QED BY <1>0, <2>1, <2>6, <2>7, FreshKept
<1>4. ASSUME NEW w \in Worker, Retry(w) PROVE FreshInv'
  <2>0. PICK n \in Node : n = B(w)  BY <1>4, RetryFacts
  <2> DEFINE x == <<n, cp_ap[w][n]>>
  <2>1. /\ n \in Stack(w) /\ pc' = [pc EXCEPT ![w] = "run"] /\ cp_ap[w][n] \in 2 .. Len(Tree[n])
        /\ \A v \in Worker \ {w} : cp_ap'[v] = cp_ap[v] /\ Stack(v)' = Stack(v)
        /\ cp_ap'[w][n] = NextAlternative(n, cp_ap[w][n])
        /\ \A m \in Node \ {n} : cp_ap'[w][m] = cp_ap[w][m]
        /\ Stack(w)' \subseteq Stack(w) /\ x \in Alternative
        BY <1>4, <2>0, RetryFacts
  <2>2. /\ cur' = [cur EXCEPT ![w] = x] /\ members' = members /\ alternative' = alternative
        BY <1>4, <2>0 DEF Retry, frames
  <2>3. /\ cp_ap[w][n] \in Nat /\ cp_ap[w][n] > 0
        /\ cp_ap'[w][n] # NULL => cp_ap'[w][n] = cp_ap[w][n] + 1
    <3>1. \A a \in 2 .. Len(Tree[n]) : a \in Nat /\ a > 0  OBVIOUS
    <3> QED BY <2>1, <3>1, ClauseFacts
  <2>4. cp_ap[w][n] # GETWORK  BY <2>3, NoneFacts
  <2>5. members[n] = {} /\ \A v \in Worker \ {w} : n \notin Stack(v)
        BY <2>1, <2>4 DEF FreshInv
  <2>6. alternative[n] = NULL  BY <1>0, <2>5
  <2>7. ASSUME NEW y \in Alternative, Pending(y)' PROVE Pending(y) /\ y # x
    <3>1. y[1] \in Node /\ y[2] \in Nat  BY AlternativeFacts
    <3>2. CASE y[1] = n
      <4>1. PICK v \in Worker : cp_ap'[v][n] > 0 /\ y[2] >= cp_ap'[v][n]
            BY <2>2, <2>6, <2>7, <3>2 DEF Pending
      <4>2. v = w
        <5>1. \A u \in Worker \ {w} : cp_ap'[u][n] = NULL  BY <2>1, <2>5 DEF Stack
        <5> QED BY <4>1, <5>1, NoneFacts
      <4>3. y[2] >= cp_ap[w][n] + 1
        <5>1. cp_ap'[w][n] > 0 /\ y[2] >= cp_ap'[w][n]  BY <4>1, <4>2
        <5>2. cp_ap'[w][n] # NULL  BY <5>1, NoneFacts
        <5> QED BY <2>3, <5>1, <5>2
      <4>4. y[2] >= cp_ap[w][n] /\ y[2] # cp_ap[w][n]  BY <2>3, <3>1, <4>3
      <4>5. y # x  BY <4>4
      <4> QED BY <2>3, <3>2, <4>4, <4>5 DEF Pending
    <3>3. CASE y[1] # n
      <4>1. \A v \in Worker : cp_ap'[v][y[1]] = cp_ap[v][y[1]]  BY <2>1, <3>1, <3>3
      <4> QED BY <2>2, <2>7, <3>3, <4>1 DEF Pending
    <3> QED BY <3>2, <3>3
  <2>8. Pending(x)  BY <2>3 DEF Pending
  <2>9. \A v \in Worker, m \in Node : cp_ap'[v][m] # NULL =>
          (cp_ap'[v][m] = GETWORK <=> cp_ap[v][m] = GETWORK)
    <3>1. cp_ap'[w][n] # NULL => cp_ap'[w][n] # GETWORK  BY <2>3, NoneFacts
    <3> QED BY <2>1, <2>4, <3>1
  <2>10. \A v \in Worker \ {w} : Running(v)' => Running(v)  BY <1>0, <2>1 DEF Running
  <2>11. \A v \in Worker : Stack(v)' \subseteq Stack(v)  BY <2>1
  <2>12. x[1] \in Stack(w)  BY <2>1
  <2>13. \A m \in Node : members[m] = {} => alternative'[m] = NULL  BY <1>0, <2>2
  <2> HIDE DEF x
  <2> QED BY <2>1, <2>2, <2>7, <2>8, <2>9, <2>10, <2>11, <2>12, <2>13, FreshTaken
<1>5. ASSUME NEW w \in Worker, GetAlternative(w) PROVE FreshInv'
  <2>0. PICK n \in Node : n = top_cp[w]  BY StackFacts DEF TreeInv, ShapeInv
  <2> DEFINE x == <<n, alternative[n]>>
  <2>1. /\ n \in Stack(w) /\ w \in members[n]  BY <2>0, StackFacts DEF TreeInv, ShapeInv
  <2>2. /\ pc' = [pc EXCEPT ![w] = "run"] /\ cur' = [cur EXCEPT ![w] = x]
        /\ cp_ap' = cp_ap /\ members' = members
        /\ alternative' = [alternative EXCEPT ![n] = NextAlternative(n, alternative[n])]
        /\ alternative[n] # NULL
        BY <1>5, <2>0 DEF GetAlternative, Goto
  <2>3. alternative[n] \in 2 .. Len(Tree[n])  BY <2>2 DEF TreeInv, TypeOK
  <2>4. /\ alternative[n] \in Nat /\ x \in Alternative
        /\ alternative'[n] # NULL => alternative'[n] = alternative[n] + 1
        /\ \A m \in Node \ {n} : alternative'[m] = alternative[m]
        BY <1>0, <2>2, <2>3, ClauseFacts
  <2>5. \A v \in Worker : cp_ap[v][n] \in {NULL, GETWORK}
    <3> SUFFICES ASSUME NEW v \in Worker, cp_ap[v][n] \notin {NULL, GETWORK} PROVE FALSE
        OBVIOUS
    <3>1. n \in Stack(v)  BY DEF Stack
    <3> QED BY <2>1, <3>1 DEF FreshInv
  <2>6. ASSUME NEW y \in Alternative, Pending(y)' PROVE Pending(y) /\ y # x
    <3>1. y[1] \in Node /\ y[2] \in Nat  BY AlternativeFacts
    <3>2. CASE y[1] = n
      <4>1. alternative'[n] # NULL /\ y[2] >= alternative'[n]
            BY <2>2, <2>5, <2>6, <3>2, NoneFacts DEF Pending
      <4>2. y[2] >= alternative[n] /\ y[2] # alternative[n]  BY <2>4, <3>1, <4>1
      <4>3. y # x  BY <4>2
      <4> QED BY <2>2, <3>2, <4>2, <4>3 DEF Pending
    <3>3. CASE y[1] # n
      <4>1. alternative'[y[1]] = alternative[y[1]]  BY <2>4, <3>1, <3>3
      <4> QED BY <2>2, <2>6, <3>3, <4>1 DEF Pending
    <3> QED BY <3>2, <3>3
  <2>7. Pending(x)  BY <2>2, <2>4 DEF Pending
  <2>8. \A v \in Worker : Stack(v)' \subseteq Stack(v)  BY <2>2 DEF Stack
  <2>9. \A v \in Worker \ {w} : Running(v)' => Running(v)  BY <1>0, <2>2 DEF Running
  <2>10. x[1] \in Stack(w)  BY <2>1
  <2>11. \A m \in Node : members[m] = {} => alternative'[m] = NULL  BY <1>0, <2>1, <2>4
  <2>12. x \in Alternative  BY <2>4
  <2> HIDE DEF x
  <2> QED BY <2>2, <2>6, <2>7, <2>8, <2>9, <2>10, <2>11, <2>12, FreshTaken
<1>6. ASSUME \/ \E w, u \in Worker : PutIdle(w) \/ Choosing(w, u) \/ Refuse(w, u) \/ Forward(w)
             \/ Finish \/ UNCHANGED vars
      PROVE  FreshInv'
  <2>1. cp_ap' = cp_ap /\ members' = members /\ alternative' = alternative /\ cur' = cur
        BY <1>6 DEF PutIdle, Choosing, Choose, TakeBranch, TakeIdleBranch, Refuse, Forward,
           Finish, vars, stacks, frames
  <2>2. \A v \in Worker : Running(v)' => Running(v)
    <3>1. ASSUME NEW w \in Worker, NEW u \in Worker,
                 PutIdle(w) \/ Choosing(w, u) \/ Refuse(w, u) \/ Forward(w)
          PROVE  \A v \in Worker : Running(v)' => Running(v)
      <4>1. CASE PutIdle(w)  BY <1>0, <4>1 DEF PutIdle, Running
      <4>2. CASE Choosing(w, u)  BY <1>0, <4>2 DEF Choosing, Choose, TakeBranch, TakeIdleBranch,
          Goto, Running
      <4>3. CASE Refuse(w, u)  BY <1>0, <4>3 DEF Refuse, Goto, Running
      <4>4. CASE Forward(w)  BY <1>0, <4>4 DEF Forward, Running
      <4> QED BY <3>1, <4>1, <4>2, <4>3, <4>4
    <3>2. CASE Finish  BY <1>0, <3>2 DEF Finish, Running
    <3>3. CASE UNCHANGED vars  BY <3>3 DEF vars, Running
    <3> QED BY <1>6, <3>1, <3>2, <3>3
  <2>3. \A v \in Worker : Stack(v)' \subseteq Stack(v)  BY <2>1 DEF Stack
  <2> QED BY <1>0, <2>1, <2>2, <2>3, FreshKept
<1>7. ASSUME NEW w \in Worker, EngineStep(w) PROVE FreshInv'
      BY <1>3, <1>4, <1>7, FreshTry DEF EngineStep
<1>8. ASSUME OtherStep PROVE FreshInv'  BY <1>5, <1>6, <1>8 DEF OtherStep
<1> QED BY <1>1, <1>2, <1>7, <1>8, StepCases, FreshShare, FreshSetTops

-----------------------------------------------------------------------------
(***************************************************************************)
(* Links between frames.                                                   *)
(***************************************************************************)

\* A worker that leaves its top frame is a member of no frame below.
LEMMA LinkMove ==
  ASSUME Inv, NEW w \in Worker, MoveStep(w), NEW n \in Node, NEW m \in Node, Younger(n, m),
         members[n] \subseteq members[m]
  PROVE  members'[n] \subseteq members'[m]
<1>1. /\ pc[w] \in {"up", "prune", "work", "idle"} /\ top_cp[w] # Root
      /\ Pop(w, top_cp[w]) /\ members' = Without(w, top_cp[w])
      BY MoveShape
<1>2. pc[w] \notin InEngine /\ pc[w] # "ask"  BY <1>1 DEF InEngine
<1>3. PICK t \in Node : t = top_cp[w]  BY StackFacts DEF Inv, TreeInv, ShapeInv
<1>4. /\ members'[t] = members[t] \ {w} /\ \A k \in Node \ {t} : members'[k] = members[k]
      /\ \A k \in Node : w \in members[k] => AtOrUnder(t, k)
      BY <1>1, <1>2, <1>3, PopFacts DEF Inv
<1>5. CASE m = t
  <2>1. n # t /\ ~ AtOrUnder(t, n)  BY <1>5, UnderFacts DEF AtOrUnder, Younger
  <2> QED BY <1>4, <1>5, <2>1
<1>6. CASE m # t  BY <1>4, <1>6
<1> QED BY <1>5, <1>6

LEMMA LinkShare ==
  ASSUME Inv, NEW p \in Worker, NEW q \in Worker, Share(p, q),
         NEW n \in Node \ Private(p), NEW m \in Node, members[n] \subseteq members[m]
  PROVE  members'[n] \subseteq members'[m]
<1>1. /\ \A k \in Private(p) : members'[k] = {p, q} /\ members[k] = {}
      /\ \A k \in Node \ Private(p) : members'[k] = members[k] \/ members'[k] = members[k] \cup {q}
      /\ \A k \in Node \ Private(p) : p \in members[k] /\ Younger(k, top_cp[q]) <=>
              members'[k] = members[k] \cup {q} /\ q \notin members[k]
      /\ \A k \in Node : q \in members'[k] <=> p \in members'[k]
      BY ShareFacts
<1>2. members[m] \subseteq members'[m]  BY <1>1
<1>3. ASSUME members'[n] # members[n] PROVE q \in members'[m]
  <2>1. p \in members[n]  BY <1>1, <1>3
  <2> QED BY <1>1, <1>2, <2>1
<1> QED BY <1>1, <1>2, <1>3

LEMMA StepMembers ==
  ASSUME Inv, [Next]_vars
  PROVE  \/ members' = members
         \/ \E w \in Worker : MoveStep(w)
         \/ \E p, q \in Worker : Share(p, q)
<1>1. ASSUME NEW w \in Worker, PlainStep(w) PROVE members' = members  BY <1>1, PlainSteps
<1>2. ASSUME NEW w \in Worker, EngineStep(w) \/ SetTops(w) PROVE members' = members
      BY <1>2 DEF EngineStep, Try, Cut, Retry, CheckPruneRequest, SetTops, frames
<1>3. ASSUME OtherStep PROVE members' = members  BY <1>3, OtherSteps
<1> QED BY <1>1, <1>2, <1>3, StepCases

LEMMA LinkKept ==
  ASSUME Inv, [Next]_vars, NEW n \in Node, NEW m \in Node, Younger(n, m),
         members[n] \subseteq members[m], members[n] # {}
  PROVE  members'[n] \subseteq members'[m]
<1>1. ASSUME NEW p \in Worker, NEW q \in Worker, Share(p, q) PROVE n \notin Private(p)
      BY <1>1, ShareFacts
<1> QED BY <1>1, StepMembers, LinkMove, LinkShare

\* What a step may do to nearest_leftnode.
LEMMA LeftnodeCases ==
  ASSUME Inv, [Next]_vars
  PROVE  \/ leftnode' = leftnode
         \/ members' = members /\ \E w \in Worker : leftnode' = Leftnodes(w)
         \/ \E w \in Worker : /\ MoveStep(w) /\ members'[top_cp[w]] = {}
                              /\ leftnode' = [leftnode EXCEPT ![top_cp[w]] = Root]
         \/ \E p, q \in Worker : Share(p, q)
<1>1. ASSUME NEW w \in Worker, PlainStep(w)
      PROVE  leftnode' = leftnode \/ (members' = members /\ leftnode' = Leftnodes(w))
  <2>1. members' = members  BY <1>1, PlainSteps
  <2>2. leftnode' = leftnode \/ leftnode' = Leftnodes(w)
        BY <1>1 DEF PlainStep, frames, Call, Exit, EnterScheduler, NewAnswer, StoreAnswer, BeginCut,
             LockToSend, Send, CutStore, LookUp, CutMore, SendMore, StopMore, NextMore, EndCut, Scan,
             DoPending, FindLeftmost, PutAnswers, GiveUp
  <2> QED BY <2>1, <2>2
<1>2. ASSUME NEW w \in Worker, EngineStep(w) \/ SetTops(w) PROVE leftnode' = leftnode
      BY <1>2 DEF EngineStep, Try, Cut, Retry, CheckPruneRequest, SetTops, frames
<1>3. ASSUME NEW w \in Worker, MoveStep(w)
      PROVE  \/ leftnode' = leftnode
             \/ /\ members'[top_cp[w]] = {}
                /\ leftnode' = [leftnode EXCEPT ![top_cp[w]] = Root]
  <2>1. members' = Without(w, top_cp[w]) /\ top_cp[w] \in Node /\ members \in [Node -> SUBSET Worker]
        BY <1>3, MoveShape DEF Inv, TreeInv, TypeOK
  <2>2. members[top_cp[w]] = {w} => members'[top_cp[w]] = {}  BY <2>1 DEF Without
  <2>3. CASE CutUp(w)  BY <2>3 DEF CutUp
  <2>4. CASE PruneUp(w)  BY <2>2, <2>4 DEF PruneUp
  <2>5. CASE MoveUp(w)  BY <2>5 DEF MoveUp
  <2>6. CASE MoveUpLast(w)  BY <2>2, <2>6 DEF MoveUpLast
  <2> QED BY <1>3, <2>3, <2>4, <2>5, <2>6 DEF MoveStep
<1>4. ASSUME OtherStep PROVE leftnode' = leftnode
      BY <1>4 DEF OtherStep, GetAlternative, PutIdle, Choosing, Choose, TakeBranch,
         TakeIdleBranch, Refuse, Forward, Finish, vars, frames
<1> QED BY <1>1, <1>2, <1>3, <1>4, StepCases

LEMMA LeftStep ==
  ASSUME Inv, [Next]_vars
  PROVE  LeftInv'
<1>0. /\ leftnode \in [Node -> Node] /\ members \in [Node -> SUBSET Worker] /\ Root \in Node
      /\ leftnode[Root] = Root
      /\ \A n \in Node \ {Root} : Younger(n, leftnode[n]) /\ members[n] \subseteq members[leftnode[n]]
      BY TreeAssumption DEF Inv, TreeInv, TypeOK, LeftInv
\* Links that stay.
<1>1. ASSUME NEW n \in Node \ {Root}, \A p, q \in Worker : Share(p, q) => n \notin Private(p)
      PROVE  members'[n] \subseteq members'[leftnode[n]]
  <2>1. CASE members[n] # {}  BY <1>0, <2>1, LinkKept
  <2>2. CASE members[n] = {}
    <3>1. ASSUME NEW w \in Worker, MoveStep(w) PROVE members'[n] = {}
      <4>1. members' = Without(w, top_cp[w])  BY <3>1, MoveShape
      <4> QED BY <1>0, <2>2, <4>1 DEF Without
    <3>2. ASSUME NEW p \in Worker, NEW q \in Worker, Share(p, q)
          PROVE  members'[n] \subseteq members'[leftnode[n]]
          BY <1>0, <1>1, <3>2, LinkShare
    <3> QED BY <2>2, <3>1, <3>2, StepMembers
  <2> QED BY <2>1, <2>2
<1>2. CASE \E p, q \in Worker : Share(p, q)
  <2>1. PICK p \in Worker, q \in Worker : Share(p, q)  BY <1>2
  <2>2. /\ Private(p) \in SUBSET Stack(p) /\ \A n \in Stack(p) : n \in Private(p) <=> Younger(n, top_cp[p])
        /\ \A n \in Private(p) : members'[n] = {p, q}
        /\ \A n \in Node \ Private(p) : members'[n] = members[n] \/ members'[n] = members[n] \cup {q}
        /\ \A n \in Node : q \in members'[n] <=> p \in members'[n]
        BY <2>1, ShareFacts
  <2>3. leftnode' = [n \in Node |-> IF n \in Private(p) THEN top_cp[p] ELSE leftnode[n]]
        BY <2>1 DEF Share
  <2>4. top_cp[p] \in Node /\ p \in members[top_cp[p]]  BY DEF Inv, TreeInv, TypeOK
  <2>5. Root \notin Private(p) /\ top_cp[p] \notin Private(p)
        BY <1>0, <2>4, UnderFacts DEF Private, Younger
  <2>6. p \in members'[top_cp[p]] /\ q \in members'[top_cp[p]]  BY <2>2, <2>4, <2>5
  <2>7. ASSUME NEW n \in Node \ {Root}
        PROVE  Younger(n, leftnode'[n]) /\ members'[n] \subseteq members'[leftnode'[n]]
    <3>1. CASE n \in Private(p)
      <4>1. leftnode'[n] = top_cp[p] /\ Younger(n, top_cp[p]) /\ members'[n] = {p, q}
            BY <2>2, <2>3, <3>1
      <4> QED BY <2>6, <4>1
    <3>2. CASE n \notin Private(p)
      <4>1. leftnode'[n] = leftnode[n]  BY <2>3, <3>2
      <4>2. members'[n] \subseteq members'[leftnode[n]]  BY <1>0, <2>1, <3>2, LinkShare
      <4> QED BY <1>0, <4>1, <4>2
    <3> QED BY <3>1, <3>2
  <2>8. leftnode'[Root] = Root  BY <1>0, <2>3, <2>5
  <2> QED BY <2>7, <2>8 DEF LeftInv, Younger
<1>3. CASE ~ \E p, q \in Worker : Share(p, q)
  <2>0. \A n \in Node \ {Root} : members'[n] \subseteq members'[leftnode[n]]  BY <1>1, <1>3
  <2>1. CASE leftnode' = leftnode  BY <1>0, <2>0, <2>1 DEF LeftInv, Younger
  <2>2. ASSUME members' = members, NEW w \in Worker, leftnode' = Leftnodes(w) PROVE LeftInv'
    <3>1. Leftmost(w) \in Node /\ w \in members[Leftmost(w)]  BY LeftmostFacts DEF Inv
    <3>2. ASSUME NEW n \in Node
          PROVE  leftnode'[n] = leftnode[n] \/
                   /\ leftnode'[n] = Leftmost(w) /\ n # Root
                   /\ Younger(n, Leftmost(w)) /\ members[n] \subseteq members[Leftmost(w)]
      <4>1. \/ leftnode'[n] = leftnode[n]
            \/ /\ leftnode'[n] = Leftmost(w) /\ n # Root
               /\ w \in members[n] /\ Younger(n, Leftmost(w))
            BY <2>2, LeftnodesFacts DEF Inv
      <4>2. ASSUME w \in members[n], Younger(n, Leftmost(w)) PROVE members[n] \subseteq members[Leftmost(w)]
            BY <1>0, <3>1, <4>2 DEF Inv, TreeInv, ShapeInv, AgreeInv
      <4> QED BY <4>1, <4>2
    <3> QED BY <1>0, <2>2, <3>2 DEF LeftInv, Younger
  <2>3. ASSUME NEW t, members'[t] = {}, leftnode' = [leftnode EXCEPT ![t] = Root] PROVE LeftInv'
    <3>1. leftnode'[Root] = Root  BY <1>0, <2>3
    <3>2. ASSUME NEW n \in Node \ {Root}
          PROVE  Younger(n, leftnode'[n]) /\ members'[n] \subseteq members'[leftnode'[n]]
      <4>1. CASE n = t
        <5>1. leftnode'[n] = Root  BY <1>0, <2>3, <4>1
        <5> QED BY <1>0, <2>3, <4>1, <5>1, UnderFacts DEF Younger
      <4>2. CASE n # t
        <5>1. leftnode'[n] = leftnode[n]  BY <1>0, <2>3, <4>2
        <5> QED BY <1>0, <2>0, <5>1
      <4> QED BY <4>1, <4>2
    <3> QED BY <3>1, <3>2 DEF LeftInv, Younger
  <2> QED BY <1>3, <2>1, <2>2, <2>3, LeftnodeCases
<1> QED BY <1>2, <1>3

\* A cut in prune_shared_branch that is not the leftmost one is below its target.
LEMMA LeftFrame ==
  ASSUME Inv, NEW w \in Worker, pc[w] \in {"lock", "send", "up", "store"}, ~ BeingLeftmost(w)
  PROVE  /\ cut[w].left \in Node /\ cut[w].to \in Node /\ Younger(cut[w].left, cut[w].to)
         /\ w \in members[cut[w].left]
<1>1. /\ cut[w].to \in Node /\ cut[w].left \in Node
      /\ w \in members[cut[w].to] /\ w \in members[cut[w].left]
      BY DEF Inv, CutInv, CutAt, TreeInv, TypeOK, CutLocals
<1>2. cut[w].to \in Stack(w) /\ cut[w].left \in Stack(w)
      BY <1>1, MemberFacts DEF Inv
<1>3. AtOrUnder(cut[w].to, cut[w].left) \/ Younger(cut[w].left, cut[w].to)
      BY <1>2, StackFacts DEF Inv, TreeInv, ShapeInv
<1> QED BY <1>1, <1>3 DEF BeingLeftmost

\* What a step may do to a pending prune.
LEMMA PendCases ==
  ASSUME Inv, [Next]_vars, NEW n \in Node
  PROVE  \/ pend'[n] = None
         \/ pend'[n] = pend[n] /\ (members[n] # {} => members'[n] # {})
         \/ \E w \in Worker : /\ CutStore(w) /\ ~ BeingLeftmost(w) /\ pc[w] = "store"
                              /\ n = cut[w].left /\ pend'[n].cp = cut[w].to
<1>0. pend \in [Node -> {None} \cup [cp : Node, alt : Nat]] /\ members \in [Node -> SUBSET Worker]
      BY DEF Inv, TreeInv, TypeOK
<1>1. ASSUME NEW w \in Worker, PlainStep(w)
      PROVE  \/ pend'[n] = None
             \/ pend'[n] = pend[n] /\ members' = members
             \/ /\ CutStore(w) /\ ~ BeingLeftmost(w) /\ pc[w] = "store"
                /\ n = cut[w].left /\ pend'[n].cp = cut[w].to
  <2>1. members' = members  BY <1>1, PlainSteps
  <2>2. CASE CutStore(w)
    <3> DEFINE own == [cp |-> cut[w].to, alt |-> branch[w][cut[w].left].alt]
    <3>1. own.cp = cut[w].to  OBVIOUS
    <3>2. pend' = pend \/ (~ BeingLeftmost(w) /\ pend' = [pend EXCEPT ![cut[w].left] = own])
          BY <2>2 DEF CutStore
    <3>3. pc[w] = "store"  BY <2>2 DEF CutStore
    <3> HIDE DEF own
    <3> QED BY <1>0, <2>1, <2>2, <3>1, <3>2, <3>3
  <2>3. CASE DoPending(w)  BY <1>0, <2>1, <2>3 DEF DoPending
  <2>4. CASE ~ CutStore(w) /\ ~ DoPending(w)
    <3>1. pend' = pend
          BY <1>1, <2>4 DEF PlainStep, frames, Call, Exit, EnterScheduler, NewAnswer, StoreAnswer,
             BeginCut, LockToSend, Send, LookUp, CutMore, SendMore, StopMore, NextMore, EndCut, Scan,
             FindLeftmost, PutAnswers, GiveUp
    <3> QED BY <2>1, <3>1
  <2> QED BY <2>2, <2>3, <2>4
<1>2. ASSUME NEW w \in Worker, EngineStep(w) \/ SetTops(w) PROVE pend' = pend /\ members' = members
      BY <1>2 DEF EngineStep, Try, Cut, Retry, CheckPruneRequest, SetTops, frames
<1>3. ASSUME NEW w \in Worker, MoveStep(w)
      PROVE  pend'[n] = None \/ (pend'[n] = pend[n] /\ (members[n] # {} => members'[n] # {}))
  <2>0. top_cp[w] \in Node  BY DEF Inv, TreeInv, TypeOK
  <2>1. members' = Without(w, top_cp[w])  BY <1>3, MoveShape
  <2>2. \/ pend' = [pend EXCEPT ![top_cp[w]] = None]
        \/ pend' = pend /\ members[top_cp[w]] # {w}
        BY <1>3 DEF MoveStep, CutUp, PruneUp, MoveUp, MoveUpLast
  <2>3. CASE pend' = [pend EXCEPT ![top_cp[w]] = None]  BY <1>0, <2>0, <2>1, <2>3 DEF Without
  <2>4. CASE pend' = pend /\ members[top_cp[w]] # {w}
    <3>1. members'[n] = members[n] \/ (n = top_cp[w] /\ members'[n] = members[n] \ {w})
          BY <1>0, <2>0, <2>1 DEF Without
    <3>2. w \in members[top_cp[w]]  BY DEF Inv, TreeInv, TypeOK
    <3> QED BY <1>0, <2>4, <3>1, <3>2
  <2> QED BY <2>2, <2>3, <2>4
<1>4. ASSUME OtherStep PROVE pend' = pend /\ members' = members
  <2>1. members' = members  BY <1>4, OtherSteps
  <2> QED BY <1>4, <2>1 DEF OtherStep, GetAlternative, PutIdle, Choosing, Choose, TakeBranch,
      TakeIdleBranch, Refuse, Forward, Finish,
         vars, frames
<1>5. ASSUME NEW p \in Worker, NEW q \in Worker, Share(p, q)
      PROVE  pend' = pend /\ (members[n] # {} => members'[n] # {})
  <2>1. /\ \A k \in Private(p) : members'[k] = {p, q}
        /\ \A k \in Node \ Private(p) : members'[k] = members[k] \/ members'[k] = members[k] \cup {q}
        BY <1>5, ShareFacts
  <2> QED BY <1>5, <2>1 DEF Share
<1> QED BY <1>1, <1>2, <1>3, <1>4, <1>5, StepCases

LEMMA PendStep ==
  ASSUME Inv, [Next]_vars
  PROVE  PendInv'
<1> SUFFICES ASSUME NEW n \in Node, pend'[n] # None
             PROVE  /\ Younger(n, pend'[n].cp) /\ members'[n] # {}
                    /\ members'[n] \subseteq members'[pend'[n].cp]
    BY DEF PendInv, Younger
<1>0. pend \in [Node -> {None} \cup [cp : Node, alt : Nat]] /\ members \in [Node -> SUBSET Worker]
      BY DEF Inv, TreeInv, TypeOK
<1>1. CASE pend'[n] = pend[n] /\ (members[n] # {} => members'[n] # {})
  <2>1. /\ pend[n].cp \in Node /\ Younger(n, pend[n].cp) /\ members[n] # {}
        /\ members[n] \subseteq members[pend[n].cp]
        BY <1>0, <1>1 DEF Inv, PendInv
  <2>2. members'[n] \subseteq members'[pend[n].cp]  BY <2>1, LinkKept
  <2> QED BY <1>1, <2>1, <2>2
<1>2. ASSUME NEW w \in Worker, CutStore(w), ~ BeingLeftmost(w), pc[w] = "store",
             n = cut[w].left, pend'[n].cp = cut[w].to
      PROVE  /\ Younger(n, pend'[n].cp) /\ members'[n] # {}
             /\ members'[n] \subseteq members'[pend'[n].cp]
  <2>1. cut[w].to \in Node /\ Younger(n, cut[w].to) /\ w \in members[n]
        BY <1>2, LeftFrame
  <2>2. w \in members[cut[w].to]  BY <1>2 DEF Inv, CutInv, CutAt
  <2>3. members[n] \subseteq members[cut[w].to]
        BY <1>0, <2>1, <2>2 DEF Inv, TreeInv, ShapeInv, AgreeInv
  <2>4. members' = members  BY <1>2, PlainSteps DEF PlainStep
  <2> QED BY <1>2, <2>1, <2>3, <2>4
<1> QED BY <1>1, <1>2, PendCases

-----------------------------------------------------------------------------
(***************************************************************************)
(* The local variables of prune_shared_branch.                             *)
(***************************************************************************)

\* Only its holder unlocks a frame, or moves up from it.
LEMMA HolderKept ==
  ASSUME Inv, NEW w \in Worker, PlainStep(w) \/ MoveStep(w),
         NEW v \in Worker \ {w}, NEW n \in Node, holder[n] = v
  PROVE  holder'[n] = v /\ members[n] \subseteq members'[n]
<1>0. /\ holder \in [Node -> Worker \cup {None}] /\ members \in [Node -> SUBSET Worker]
      /\ None \notin Worker /\ ~ Free(n, w)
      BY NoneFacts DEF Inv, TreeInv, TypeOK, Free
<1>1. Released(w)[n] = v  BY <1>0 DEF Released
<1>2. CASE LockToSend(w)
  <2> DEFINE s == SendFrame(w)
             f == cut[w].pend
  <2>1. n # s /\ n # f
    <3>1. None \notin Node  BY NoneFacts
    <3>2. Free(s, w) /\ (f # None => Free(f, w))  BY <1>2 DEF LockToSend
    <3> QED BY <1>0, <3>1, <3>2
  <2>2. \/ holder' = Released(w)
        \/ \E b \in BOOLEAN : holder' = [m \in Node |-> IF m = f \/ (m = s /\ b) THEN w ELSE holder[m]]
        BY <1>2 DEF LockToSend
  <2>3. holder'[n] = v
    <3> HIDE DEF s, f
    <3> QED BY <1>1, <2>1, <2>2
  <2>4. members' = members  BY <1>2 DEF LockToSend
  <2> QED BY <2>3, <2>4
<1>3. CASE Send(w)
  <2>1. pc[w] = "send"  BY <1>3 DEF Send, Goto
  <2>2. n # cut[w].pend
    <3>1. cut[w].pend = n => holder[n] = w
          BY <2>1, NoneFacts DEF Inv, CutInv, CutAt
    <3> QED BY <3>1
  <2>3. \/ holder' = holder \/ holder' = Released(w)
        \/ holder' = [m \in Node |-> IF m = cut[w].pend THEN w ELSE Released(w)[m]]
        BY <1>3 DEF Send
  <2>4. members' = members  BY <1>3 DEF Send
  <2> QED BY <1>1, <2>2, <2>3, <2>4
<1>4. CASE StopMore(w) \/ NextMore(w)
  <2>1. pc[w] = "send_more"  BY <1>4 DEF StopMore, NextMore, Goto
  <2>2. n # cut[w].frame  BY <2>1 DEF Inv, CutInv, CutAt
  <2>3. holder' = [holder EXCEPT ![cut[w].frame] = None] /\ members' = members
        BY <1>4 DEF StopMore, NextMore
  <2> QED BY <1>0, <2>2, <2>3
<1>5. CASE CutMore(w)
  <2>1. Free(cut[w].frame, w) /\ holder' = [holder EXCEPT ![cut[w].frame] = w] /\ members' = members
        BY <1>5 DEF CutMore
  <2> QED BY <1>0, <2>1
<1>6. CASE MoveStep(w)
  <2>1. members' = Without(w, top_cp[w]) /\ top_cp[w] \in Node
        BY <1>6, MoveShape DEF Inv, TreeInv, TypeOK
  <2>2. Free(top_cp[w], w) /\ (holder' = holder \/ holder' = Released(w))
        BY <1>6 DEF MoveStep, CutUp, PruneUp, MoveUp, MoveUpLast, MayMove
  <2>3. n # top_cp[w]  BY <1>0, <2>2
  <2> QED BY <1>0, <1>1, <2>1, <2>2, <2>3 DEF Without
<1>7. CASE PlainStep(w) /\ ~ (LockToSend(w) \/ Send(w) \/ StopMore(w) \/ NextMore(w) \/ CutMore(w))
  <2>1. members' = members  BY <1>7, PlainSteps
  <2>2. holder' = holder
        BY <1>7 DEF PlainStep, frames, Call, Exit, EnterScheduler, NewAnswer, StoreAnswer, BeginCut,
             CutStore, LookUp, SendMore, EndCut, Scan, DoPending, FindLeftmost, PutAnswers, GiveUp
  <2> QED BY <2>1, <2>2
<1> QED BY <1>2, <1>3, <1>4, <1>5, <1>6, <1>7

\* Where the local variables matter.
CutPlaces == {"cut", "lock", "send", "up", "store", "look", "more", "send_more", "put", "answer"}

LEMMA CutKept ==
  ASSUME Inv, NEW v \in Worker, pc'[v] = pc[v], cut'[v] = cut[v], top_cp'[v] = top_cp[v],
         \A n \in Node : v \in members[n] => v \in members'[n],
         \A n \in Node : holder[n] = v => holder'[n] = v /\ members[n] \subseteq members'[n]
  PROVE  CutAt(v)'
<1>1. CutAt(v) /\ SendFrame(v)' = SendFrame(v)  BY DEF Inv, CutInv, SendFrame, BeingLeftmost
<1>2. cut[v] \in CutLocals  BY DEF Inv, TreeInv, TypeOK
<1>3. SendFrame(v) \in Node \cup {None} /\ cut[v].pend \in Node \cup {None}
      BY <1>2 DEF CutLocals, SendFrame
<1>4. pc[v] \in {"cut", "lock", "send", "up", "store", "look", "more", "send_more"} =>
        cut[v].to # None /\ v \in members'[cut[v].to]
      BY <1>1, <1>2 DEF CutAt, CutLocals
<1>5. pc[v] \in {"lock", "send", "up", "store"} => cut[v].left # None /\ v \in members'[cut[v].left]
      BY <1>1, <1>2 DEF CutAt, CutLocals
<1>6. pc[v] = "send" => SendFrame(v) \in Node
      BY SendFacts
<1>7. pc[v] = "send" => /\ cut[v].todo \subseteq members'[SendFrame(v)] /\ holder'[SendFrame(v)] = v
                        /\ cut[v].pend # None => holder'[cut[v].pend] = v
      BY <1>1, <1>3, <1>6 DEF CutAt
<1>8. pc[v] \in {"look", "more", "send_more"} =>
        /\ cut[v].frame # None /\ cut[v].frame \in Node /\ v \in members'[cut[v].frame]
        /\ Younger(cut[v].frame, cut[v].to)
      BY <1>1, <1>2 DEF CutAt, CutLocals
<1>9. pc[v] = "send_more" => /\ cut[v].todo \subseteq members'[cut[v].frame]
                             /\ holder'[cut[v].frame] = v
      BY <1>1, <1>8 DEF CutAt
<1>10. /\ pc[v] \in {"cut", "lock", "send"} => Younger(top_cp[v], cut[v].to)
       /\ pc[v] \in {"lock", "send"} => AtOrUnder(top_cp[v], cut[v].left)
       /\ pc[v] = "up" => Younger(top_cp[v], SendFrame(v))
       /\ pc[v] = "store" => top_cp[v] = SendFrame(v)
       /\ pc[v] \in {"put", "answer"} => cut[v].left # None
      BY <1>1 DEF CutAt
<1> QED BY <1>1, <1>4, <1>5, <1>7, <1>8, <1>9, <1>10 DEF CutAt, Younger, AtOrUnder

\* Places that are not of a cut.
LEMMA CutElsewhere ==
  ASSUME NEW v \in Worker, pc'[v] \notin CutPlaces
  PROVE  CutAt(v)'
BY DEF CutAt, CutPlaces

\* The target and the leftmost frame are on the stack.
LEMMA CutFrames ==
  ASSUME Inv, NEW w \in Worker, NEW n \in Node, w \in members[n], pc[w] \in Moved \cup {"cut", "lock", "send"}
  PROVE  n \in Stack(w) /\ AtOrUnder(top_cp[w], n)
<1>1. pc[w] # "ask" /\ pc[w] # "share"  BY DEF Moved
<1> QED BY <1>1, MemberFacts DEF Inv

LEMMA CutPlain ==
  ASSUME Inv, NEW w \in Worker, PlainStep(w)
  PROVE  CutAt(w)'
<1>0. /\ pc \in [Worker -> Locations] /\ cut \in [Worker -> CutLocals] /\ cut[w] \in CutLocals
      /\ holder \in [Node -> Worker \cup {None}] /\ members \in [Node -> SUBSET Worker]
      /\ top_cp[w] \in Node /\ CutAt(w) /\ None \notin Node
      /\ pend \in [Node -> {None} \cup [cp : Node, alt : Nat]]
      /\ back \in [Worker -> {"fail", "exit", "work", "idle"}]
      BY NoneFacts DEF Inv, TreeInv, TypeOK, CutInv
<1>1. members' = members /\ top_cp' = top_cp  BY PlainSteps
<1>2. Leftmost(w) \in Node /\ w \in members[Leftmost(w)] /\ AtOrUnder(top_cp[w], Leftmost(w))
      BY LeftmostFacts DEF Inv
<1>3. CASE NewAnswer(w) \/ FindLeftmost(w)
  <2>1. pc'[w] \in {"put", "answer"}  BY <1>0, <1>3 DEF NewAnswer, FindLeftmost, Goto
  <2>2. cut'[w].left = Leftmost(w)
    <3>1. CASE NewAnswer(w)
      <4>1. cut'[w] = [NoCut EXCEPT !.left = Leftmost(w), !.sols = {answer[w]}]
            BY <1>0, <3>1 DEF NewAnswer
      <4> QED BY <4>1 DEF NoCut
    <3>2. CASE FindLeftmost(w)
      <4>1. cut'[w] = [cut[w] EXCEPT !.left = Leftmost(w)]  BY <1>0, <3>2 DEF FindLeftmost
      <4> QED BY <1>0, <4>1 DEF CutLocals
    <3> QED BY <1>3, <3>1, <3>2
  <2> QED BY <1>0, <1>2, <2>1, <2>2 DEF CutAt
<1>4. CASE BeginCut(w)
  <2>0. pc[w] = "cut"  BY <1>4 DEF BeginCut
  <2>1. CASE prune_request[w] = None
    <3>1. pc'[w] = "lock" /\ cut'[w] = [cut[w] EXCEPT !.left = Leftmost(w), !.more = TRUE]
          BY <1>0, <1>4, <2>1 DEF BeginCut, Goto
    <3>2. cut'[w].left = Leftmost(w) /\ cut'[w].to = cut[w].to  BY <1>0, <3>1 DEF CutLocals
    <3> QED BY <1>0, <1>1, <1>2, <2>0, <3>1, <3>2 DEF CutAt, Younger, AtOrUnder
  <2>2. CASE prune_request[w] # None
    <3>1. pc'[w] = back[w]  BY <1>0, <1>4, <2>2 DEF BeginCut, Goto
    <3> QED BY <1>0, <3>1, CutElsewhere DEF CutPlaces
  <2> QED BY <2>1, <2>2
<1>5. CASE DoPending(w)
  <2> DEFINE t == top_cp[w]
  <2>1. pend[t] # None  BY <1>5 DEF DoPending, ExecutesPending
  <2>2. /\ pend[t].cp \in Node /\ Younger(t, pend[t].cp) /\ members[t] \subseteq members[pend[t].cp]
        BY <1>0, <2>1 DEF Inv, PendInv
  <2>3. w \in members[t]  BY DEF Inv, TreeInv, TypeOK
  <2>4. /\ pc'[w] = "cut"
        /\ cut'[w] = [NoCut EXCEPT !.to = pend[t].cp, !.pend = t, !.at = pend[t].alt]
        BY <1>0, <1>5 DEF DoPending
  <2>5. cut'[w].to = pend[t].cp  BY <2>4 DEF NoCut
  <2> QED BY <1>0, <1>1, <2>2, <2>3, <2>4, <2>5 DEF CutAt, Younger
<1>6. CASE LookUp(w)
  <2> DEFINE f == cut[w].frame
             up == CpB(w, f)
  <2>1. pc[w] = "look" /\ pc'[w] = IF up = cut[w].to THEN "done" ELSE "more"
        BY <1>0, <1>6 DEF LookUp, Goto
  <2>2. /\ f \in Node /\ f # Root /\ w \in members[f] /\ cut[w].to \in Node /\ Younger(f, cut[w].to)
        /\ w \in members[cut[w].to]
        BY <1>0, <2>1, SendFacts DEF CutAt
  <2>3. /\ up \in Node /\ up \in Stack(w) /\ Younger(f, up)
        /\ \A m \in Stack(w) : Younger(f, m) => AtOrUnder(up, m)
        BY <2>2, CpBFacts DEF Inv, TreeInv, ShapeInv
  <2>4. cut'[w] = [cut[w] EXCEPT !.frame = up, !.seen = members[f]]
        BY <1>0, <1>6 DEF LookUp
  <2> HIDE DEF f, up
  <2>5. cut'[w].frame = up /\ cut'[w].to = cut[w].to  BY <1>0, <2>4 DEF CutLocals
  <2>6. AtOrUnder(top_cp[w], f) /\ cut[w].to \in Stack(w)  BY <2>1, <2>2, CutFrames DEF Moved
  <2>7. AtOrUnder(top_cp[w], up)
        BY <1>0, <2>2, <2>3, <2>6, UnderFacts DEF AtOrUnder, Younger
  <2>8. w \in members[up]  BY <2>3, <2>7, MemberFacts DEF Inv
  <2>9. up # cut[w].to => Younger(up, cut[w].to)  BY <2>2, <2>3, <2>6 DEF AtOrUnder, Younger
  <2> QED BY <1>0, <1>1, <2>1, <2>2, <2>3, <2>5, <2>8, <2>9 DEF CutAt, Younger
<1>7. CASE CutMore(w)
  <2> DEFINE f == cut[w].frame
             todo == {i \in members[f] \ cut[w].seen :
                        branch[i][f].alt > branch[w][f].alt \/ branch[i][f].cut}
  <2>1. /\ pc[w] = "more" /\ pc'[w] = "send_more" /\ cut'[w] = [cut[w] EXCEPT !.todo = todo]
        /\ holder' = [holder EXCEPT ![f] = w]
        BY <1>0, <1>7 DEF CutMore, Goto
  <2>2. todo \subseteq members[f]  OBVIOUS
  <2> HIDE DEF f, todo
  <2>3. cut'[w].frame = cut[w].frame /\ cut'[w].to = cut[w].to /\ cut'[w].todo = todo
        BY <1>0, <2>1 DEF CutLocals
  <2>4. f \in Node  BY <2>1, SendFacts DEF f
  <2>5. holder'[f] = w  BY <1>0, <2>1, <2>4
  <2> QED BY <1>0, <1>1, <2>1, <2>2, <2>3, <2>5 DEF CutAt, Younger, f
<1>8. CASE SendMore(w)
  <2>1. PICK i \in cut[w].todo : cut' = [cut EXCEPT ![w].todo = @ \ {i}]
        BY <1>8 DEF SendMore
  <2>2. pc[w] = "send_more" /\ pc' = pc /\ holder' = holder  BY <1>8 DEF SendMore, frames
  <2>3. cut'[w] = [cut[w] EXCEPT !.todo = cut[w].todo \ {i}]  BY <1>0, <2>1
  <2>4. /\ cut'[w].frame = cut[w].frame /\ cut'[w].to = cut[w].to /\ cut'[w].todo = cut[w].todo \ {i}
        BY <1>0, <2>3 DEF CutLocals
  <2> QED BY <1>0, <1>1, <2>2, <2>4 DEF CutAt, Younger
<1>9. CASE NextMore(w)
  <2>1. pc[w] = "send_more" /\ pc'[w] = "look" /\ cut' = cut
        BY <1>0, <1>9 DEF NextMore, Goto, locals
  <2> QED BY <1>0, <1>1, <2>1 DEF CutAt, Younger
<1>10. CASE CutStore(w)
  <2>1. pc[w] = "store" /\ (pc'[w] = "done" \/ (pc'[w] = "look" /\ ~ BeingLeftmost(w)
          /\ cut' = [cut EXCEPT ![w].frame = cut[w].left]))
        BY <1>0, <1>10 DEF CutStore
  <2>2. CASE pc'[w] = "done"  BY <2>2, CutElsewhere DEF CutPlaces
  <2>3. CASE pc'[w] = "look" /\ ~ BeingLeftmost(w) /\ cut' = [cut EXCEPT ![w].frame = cut[w].left]
    <3>1. /\ cut[w].left \in Node /\ cut[w].to \in Node /\ Younger(cut[w].left, cut[w].to)
          /\ w \in members[cut[w].left]
          BY <2>1, <2>3, LeftFrame
    <3>2. cut'[w] = [cut[w] EXCEPT !.frame = cut[w].left]  BY <1>0, <2>3
    <3>3. cut'[w].frame = cut[w].left /\ cut'[w].to = cut[w].to  BY <1>0, <3>2 DEF CutLocals
    <3> QED BY <1>0, <1>1, <2>1, <2>3, <3>1, <3>3 DEF CutAt, Younger
  <2> QED BY <2>1, <2>2, <2>3
<1>11. CASE LockToSend(w)
  <2> DEFINE s == SendFrame(w)
             f == cut[w].pend
  <2>1. pc[w] = "lock"  BY <1>11 DEF LockToSend
  <2>2. PICK todo, more :
          /\ cut' = [cut EXCEPT ![w].todo = todo, ![w].sent = todo, ![w].more = more]
          /\ todo \subseteq members[s]
          /\ pc'[w] = IF todo = {} THEN NextUp(w) ELSE "send"
          /\ todo # {} => holder' = [n \in Node |-> IF n = f \/ n = s THEN w ELSE holder[n]]
    <3> DEFINE kept == IF f = None THEN {} ELSE {i \in members[f] : branch[i][f].alt = cut[w].at}
               cand == members[s] \ (kept \cup {w})
               own == branch[w][s].alt
               todo == {i \in cand : IF BeingLeftmost(w) THEN branch[i][s].alt = own
                                                          ELSE branch[i][s].alt >= own}
               cuts == \E i \in cand : branch[i][s].alt < own /\ branch[i][s].cut
               more == cut[w].more /\ (BeingLeftmost(w) \/ ~ cuts)
    <3>1. cut' = [cut EXCEPT ![w].todo = todo, ![w].sent = todo, ![w].more = more]
          BY <1>11 DEF LockToSend
    <3>2. todo \subseteq members[s]  OBVIOUS
    <3>3. pc'[w] = IF todo = {} THEN NextUp(w) ELSE "send"  BY <1>0, <1>11 DEF LockToSend, Goto
    <3>4. todo # {} => holder' = [n \in Node |-> IF n = f \/ n = s THEN w ELSE holder[n]]
          BY <1>11 DEF LockToSend
    <3> HIDE DEF todo, more, s, f
    <3> QED BY <3>1, <3>2, <3>3, <3>4
  <2>3. cut'[w] = [cut[w] EXCEPT !.todo = todo, !.sent = todo, !.more = more]  BY <1>0, <2>2
  <2>4. cut'[w].to = cut[w].to /\ cut'[w].left = cut[w].left /\ cut'[w].todo = todo /\ cut'[w].pend = f
        BY <1>0, <2>3 DEF CutLocals
  <2>5. SendFrame(w)' = s  BY <1>0, <2>4 DEF SendFrame, BeingLeftmost, AtOrUnder
  <2>6. s \in {cut[w].to, cut[w].left} /\ s \in Node /\ f \in Node \cup {None}
        BY <1>0, <2>1, SendFacts DEF SendFrame, CutLocals
  <2>7. AtOrUnder(top_cp[w], s)  BY <1>0, <2>1, <2>6 DEF CutAt, AtOrUnder, Younger
  <2>8. IF top_cp[w] = s THEN NextUp(w) = "store" ELSE NextUp(w) = "up" /\ Younger(top_cp[w], s)
        BY <2>7 DEF NextUp, AtOrUnder, Younger
  <2>9. todo # {} => holder'[s] = w /\ (f # None => holder'[f] = w)  BY <2>2, <2>6
  <2> HIDE DEF s, f
  <2>10. CASE todo # {}
    <3>1. pc'[w] = "send"  BY <2>2, <2>10
    <3> QED BY <1>0, <1>1, <2>1, <2>2, <2>4, <2>5, <2>9, <2>10, <3>1 DEF CutAt, Younger, AtOrUnder
  <2>11. CASE todo = {}
    <3>1. pc'[w] = NextUp(w)  BY <2>2, <2>11
    <3> QED BY <1>0, <1>1, <2>1, <2>4, <2>5, <2>8, <3>1 DEF CutAt, Younger, AtOrUnder
  <2> QED BY <2>10, <2>11
<1>12. CASE Send(w)
  <2> DEFINE s == SendFrame(w)
  <2>1. pc[w] = "send"  BY <1>12 DEF Send, Goto
  <2>2. PICK i \in cut[w].todo :
          /\ pc'[w] = IF cut[w].todo \ {i} = {} THEN NextUp(w) ELSE "send"
          /\ cut' = [cut EXCEPT ![w].todo = cut[w].todo \ {i}]
          /\ cut[w].todo \ {i} # {} => holder' = holder
        BY <1>0, <1>12 DEF Send, Goto
  <2>3. cut'[w] = [cut[w] EXCEPT !.todo = cut[w].todo \ {i}]  BY <1>0, <2>2
  <2>4. /\ cut'[w].to = cut[w].to /\ cut'[w].left = cut[w].left /\ cut'[w].pend = cut[w].pend
        /\ cut'[w].todo = cut[w].todo \ {i}
        BY <1>0, <2>3 DEF CutLocals
  <2>5. SendFrame(w)' = s  BY <1>0, <2>4 DEF SendFrame, BeingLeftmost, AtOrUnder
  <2>6. s \in {cut[w].to, cut[w].left} /\ s \in Node  BY <1>0, <2>1, SendFacts DEF SendFrame
  <2>7. AtOrUnder(top_cp[w], s)  BY <1>0, <2>1, <2>6 DEF CutAt, AtOrUnder, Younger
  <2>8. IF top_cp[w] = s THEN NextUp(w) = "store" ELSE NextUp(w) = "up" /\ Younger(top_cp[w], s)
        BY <2>7 DEF NextUp, AtOrUnder, Younger
  <2>9. cut[w].todo \subseteq members[s] /\ holder[s] = w /\ (cut[w].pend # None => holder[cut[w].pend] = w)
        BY <1>0, <2>1 DEF CutAt
  <2> HIDE DEF s
  <2>10. CASE cut[w].todo \ {i} # {}
    <3>1. pc'[w] = "send" /\ holder' = holder  BY <2>2, <2>10
    <3> QED BY <1>0, <1>1, <2>1, <2>4, <2>5, <2>9, <3>1 DEF CutAt, Younger, AtOrUnder
  <2>11. CASE cut[w].todo \ {i} = {}
    <3>1. pc'[w] = NextUp(w)  BY <2>2, <2>11
    <3> QED BY <1>0, <1>1, <2>1, <2>4, <2>5, <2>8, <3>1 DEF CutAt, Younger, AtOrUnder
  <2> QED BY <2>10, <2>11
<1>13. CASE Call(w) \/ Exit(w) \/ EnterScheduler(w) \/ StoreAnswer(w) \/ StopMore(w) \/ EndCut(w)
            \/ Scan(w) \/ PutAnswers(w) \/ GiveUp(w)
  <2>1. CASE Exit(w)  BY <2>1, CutElsewhere DEF Exit, CutPlaces
  <2>2. CASE EndCut(w) \/ PutAnswers(w)
    <3>1. pc'[w] = back[w]  BY <1>0, <2>2 DEF EndCut, PutAnswers, Goto
    <3> QED BY <1>0, <3>1, CutElsewhere DEF CutPlaces
  <2>3. CASE Call(w) \/ EnterScheduler(w) \/ StoreAnswer(w) \/ StopMore(w) \/ Scan(w) \/ GiveUp(w)
    <3>1. pc'[w] \notin CutPlaces
          BY <1>0, <2>3 DEF Call, EnterScheduler, StoreAnswer, StopMore, Scan, GiveUp, Goto, CutPlaces
    <3> QED BY <3>1, CutElsewhere
  <2> QED BY <1>13, <2>1, <2>2, <2>3
<1> QED BY <1>3, <1>4, <1>5, <1>6, <1>7, <1>8, <1>9, <1>10, <1>11, <1>12, <1>13 DEF PlainStep

LEMMA CutMove ==
  ASSUME Inv, NEW w \in Worker, MoveStep(w)
  PROVE  CutAt(w)'
<1>0. /\ pc \in [Worker -> Locations] /\ cut \in [Worker -> CutLocals] /\ cut[w] \in CutLocals
      /\ CutAt(w)
      BY DEF Inv, TreeInv, TypeOK, CutInv
<1>1. CASE CutUp(w)
  <2> DEFINE s == SendFrame(w)
  <2>0. PICK n \in Node, up \in Node : n = top_cp[w] /\ up = CpB(w, n)
    <3>1. top_cp[w] \in Node /\ top_cp[w] # Root /\ pc[w] = "up"
          BY <1>1, MoveShape DEF MoveStep, CutUp, Inv, TreeInv, TypeOK
    <3> QED BY <3>1, CpBFacts DEF Inv, TreeInv, ShapeInv
  <2>1. /\ pc[w] = "up" /\ pc'[w] = (IF up = s THEN "store" ELSE "up")
        /\ \E m, S : cut' = [cut EXCEPT ![w].more = m, ![w].sols = S]
        BY <1>0, <1>1, <2>0 DEF CutUp, Goto
  <2>2. PICK m, S : cut' = [cut EXCEPT ![w].more = m, ![w].sols = S]  BY <2>1
  <2>3. cut'[w] = [cut[w] EXCEPT !.more = m, !.sols = S]  BY <1>0, <2>2
  <2>4. cut'[w].to = cut[w].to /\ cut'[w].left = cut[w].left  BY <1>0, <2>3 DEF CutLocals
  <2>5. SendFrame(w)' = s  BY <1>0, <2>4 DEF SendFrame, BeingLeftmost, AtOrUnder
  <2>6. /\ top_cp' = [top_cp EXCEPT ![w] = up]
        /\ members'[n] = members[n] \ {w} /\ \A k \in Node \ {n} : members'[k] = members[k]
        /\ \A k \in Stack(w) : Younger(n, k) => AtOrUnder(up, k)
    <3>1. top_cp[w] # Root /\ Pop(w, top_cp[w]) /\ members' = Without(w, top_cp[w])
          BY <1>1, MoveShape DEF MoveStep
    <3>2. pc[w] \notin InEngine /\ pc[w] # "ask"  BY <2>1 DEF InEngine
    <3> QED BY <2>0, <3>1, <3>2, PopFacts DEF Inv
  <2>7. /\ cut[w].to \in Node /\ cut[w].left \in Node /\ s \in Node /\ w \in members[s]
        /\ w \in members[cut[w].to] /\ w \in members[cut[w].left] /\ Younger(n, s)
        BY <1>0, <2>0, <2>1, SendFacts DEF CutAt
  <2>8. s \in Stack(w) /\ cut[w].to \in Stack(w)  BY <2>1, <2>7, CutFrames DEF Moved
  <2>9. AtOrUnder(up, s)  BY <2>6, <2>7, <2>8
  <2>10. AtOrUnder(s, cut[w].to) /\ AtOrUnder(s, cut[w].left)
    <3>1. CASE BeingLeftmost(w)  BY <3>1 DEF BeingLeftmost, SendFrame, AtOrUnder
    <3>2. CASE ~ BeingLeftmost(w)
      <4>1. Younger(cut[w].left, cut[w].to)  BY <2>1, <3>2, LeftFrame
      <4> QED BY <3>2, <4>1 DEF SendFrame, AtOrUnder, Younger
    <3> QED BY <3>1, <3>2
  <2> HIDE DEF s
  <2>11. Younger(n, cut[w].to) /\ Younger(n, cut[w].left)
         BY <2>7, <2>10, UnderFacts DEF Younger
  <2>12. w \in members'[cut[w].to] /\ w \in members'[cut[w].left]
    <3>1. cut[w].to # n /\ cut[w].left # n  BY <2>11, UnderFacts DEF Younger
    <3> QED BY <2>6, <2>7, <3>1
  <2>13. top_cp'[w] = up  BY <2>6 DEF Inv, TreeInv, TypeOK
  <2>14. cut[w].to # None /\ cut[w].left # None  BY <2>7, NoneFacts
  <2> QED BY <2>1, <2>4, <2>5, <2>9, <2>12, <2>13, <2>14 DEF CutAt, AtOrUnder, Younger
<1>2. CASE PruneUp(w)
  <2>1. pc'[w] \in {"scan", "prune"}  BY <1>0, <1>2 DEF PruneUp, Goto
  <2> QED BY <2>1, CutElsewhere DEF CutPlaces
<1>3. CASE MoveUp(w) \/ MoveUpLast(w)
  <2>1. pc[w] \in {"work", "idle"}  BY <1>3 DEF MoveUp, MoveUpLast, MayMove
  <2>2. \A up : Arrived(w, up) \in {"fail", "work", "idle"}  BY <2>1 DEF Arrived
  <2>3. pc'[w] \in {"fail", "work", "idle", "carry"}  BY <1>0, <1>3, <2>2 DEF MoveUp, MoveUpLast
  <2> QED BY <2>3, CutElsewhere DEF CutPlaces
<1> QED BY <1>1, <1>2, <1>3 DEF MoveStep

LEMMA CutEngine ==
  ASSUME Inv, NEW w \in Worker, EngineStep(w)
  PROVE  CutAt(w)'
<1>0. /\ pc \in [Worker -> Locations] /\ cut \in [Worker -> CutLocals] /\ top_cp[w] \in Node
      BY DEF Inv, TreeInv, TypeOK
<1>1. CASE Cut(w)
  <2> DEFINE to == CpB(w, cur[w][1])
  <2>1. to \in Node /\ to \in Stack(w) /\ pc[w] = "exit"  BY <1>1, CutFacts DEF Inv
  <2>2. top_cp' = top_cp /\ members' = members  BY <1>1 DEF Cut, frames
  <2>3. \/ pc'[w] \in {"exit", "fail"}
        \/ /\ pc'[w] = "cut" /\ Younger(top_cp[w], to)
           /\ cut'[w] = [NoCut EXCEPT !.to = to]
        BY <1>0, <1>1 DEF Cut
  <2>4. CASE pc'[w] \in {"exit", "fail"}  BY <2>4, CutElsewhere DEF CutPlaces
  <2>5. CASE /\ pc'[w] = "cut" /\ Younger(top_cp[w], to)
             /\ cut'[w] = [NoCut EXCEPT !.to = to]
    <3> HIDE DEF to
    <3>1. cut'[w].to = to  BY <2>5 DEF NoCut
    <3>2. w \in members[to]  BY <2>1, <2>5, MemberFacts DEF Inv, AtOrUnder, Younger
    <3>3. to # None  BY <2>1, NoneFacts
    <3> QED BY <2>2, <2>5, <3>1, <3>2, <3>3 DEF CutAt, Younger
  <2> QED BY <2>3, <2>4, <2>5
<1>2. CASE Try(w) \/ Retry(w) \/ CheckPruneRequest(w)
  <2>1. pc'[w] \in {"run", "prune"}  BY <1>0, <1>2 DEF Try, Retry, CheckPruneRequest, Goto
  <2> QED BY <2>1, CutElsewhere DEF CutPlaces
<1> QED BY <1>1, <1>2 DEF EngineStep

LEMMA CutStep ==
  ASSUME Inv, [Next]_vars
  PROVE  CutInv'
<1>0. /\ pc \in [Worker -> Locations] /\ cut \in [Worker -> CutLocals]
      /\ top_cp \in [Worker -> Node] /\ members \in [Node -> SUBSET Worker]
      BY DEF Inv, TreeInv, TypeOK
\* One worker goes on.
<1>1. ASSUME NEW w \in Worker, PlainStep(w) \/ MoveStep(w) \/ EngineStep(w), NEW v \in Worker \ {w}
      PROVE  CutAt(v)'
  <2>1. \A n \in Node : holder[n] = v => holder'[n] = v /\ members[n] \subseteq members'[n]
    <3>1. CASE EngineStep(w)
          BY <3>1 DEF EngineStep, Try, Cut, Retry, CheckPruneRequest, frames
    <3> QED BY <1>1, <3>1, HolderKept
  <2>2. pc'[v] = pc[v] /\ top_cp'[v] = top_cp[v] /\ \A n \in Node : v \in members[n] => v \in members'[n]
    <3>1. CASE PlainStep(w)  BY <3>1, PlainSteps
    <3>2. CASE EngineStep(w)
      <4>1. top_cp' = top_cp /\ members' = members
            BY <3>2 DEF EngineStep, Try, Cut, Retry, CheckPruneRequest, frames
      <4>2. pc' = pc \/ \E to : pc' = [pc EXCEPT ![w] = to]
            BY <3>2 DEF EngineStep, Try, Cut, Retry, CheckPruneRequest, Goto
      <4> QED BY <1>0, <4>1, <4>2
    <3>3. CASE MoveStep(w)
      <4>1. Pop(w, top_cp[w]) /\ members' = Without(w, top_cp[w]) /\ pc'[v] = pc[v]
            BY <3>3, MoveShape
      <4>2. \A n \in Node : members'[n] = members[n] \/ members'[n] = members[n] \ {w}
            BY <1>0, <4>1 DEF Without
      <4> QED BY <1>0, <4>1, <4>2 DEF Pop
    <3> QED BY <1>1, <3>1, <3>2, <3>3
  <2>3. cut'[v] = cut[v]
    <3>1. CASE PlainStep(w)
          BY <1>0, <3>1 DEF PlainStep, locals, Call, Exit, EnterScheduler, NewAnswer, StoreAnswer,
            BeginCut, LockToSend, Send, CutStore, LookUp, CutMore, SendMore, StopMore, NextMore,
            EndCut, Scan, DoPending, FindLeftmost, PutAnswers, GiveUp
    <3>2. CASE EngineStep(w)
          BY <1>0, <3>2 DEF EngineStep, Try, Cut, Retry, CheckPruneRequest, locals
    <3>3. CASE MoveStep(w)
          BY <1>0, <3>3 DEF MoveStep, CutUp, PruneUp, MoveUp, MoveUpLast, locals
    <3> QED BY <1>1, <3>1, <3>2, <3>3
  <2> QED BY <2>1, <2>2, <2>3, CutKept
<1>2. ASSUME NEW w \in Worker, PlainStep(w) \/ MoveStep(w) \/ EngineStep(w)
      PROVE  CutInv'
      BY <1>1, <1>2, CutPlain, CutMove, CutEngine DEF CutInv
\* Workers that share, and what concerns all.
<1>3. ASSUME cut' = cut, holder' = holder, \A n \in Node : members[n] \subseteq members'[n],
             \A v \in Worker : pc'[v] \notin CutPlaces \/ (pc'[v] = pc[v] /\ top_cp'[v] = top_cp[v])
      PROVE  CutInv'
  <2> SUFFICES ASSUME NEW v \in Worker PROVE CutAt(v)'
      BY DEF CutInv
  <2>1. CASE pc'[v] \notin CutPlaces  BY <2>1, CutElsewhere
  <2>2. CASE pc'[v] = pc[v] /\ top_cp'[v] = top_cp[v]  BY <1>3, <2>2, CutKept
  <2> QED BY <1>3, <2>1, <2>2
<1>4. ASSUME NEW p \in Worker, NEW q \in Worker, Share(p, q) PROVE CutInv'
  <2>1. \A n \in Node : members[n] \subseteq members'[n]
    <3>1. /\ \A n \in Private(p) : members[n] = {}
          /\ \A n \in Node \ Private(p) : members'[n] = members[n] \/ members'[n] = members[n] \cup {q}
          BY <1>4, ShareFacts
    <3> QED BY <3>1
  <2>2. /\ cut' = cut /\ holder' = holder /\ top_cp' = top_cp /\ pc' = [pc EXCEPT ![p] = "share"]
        BY <1>4 DEF Share, Goto
  <2>3. \A v \in Worker : pc'[v] \notin CutPlaces \/ pc'[v] = pc[v]
        BY <1>0, <2>2 DEF CutPlaces
  <2> QED BY <1>3, <2>1, <2>2, <2>3
<1>5. ASSUME NEW p \in Worker, SetTops(p) PROVE CutInv'
  <2>0. PICK q \in Worker : q = partner[p]  BY DEF Inv, TreeInv, TypeOK
  <2>1. /\ p # q /\ pc[q] = "ask" /\ pc' = [pc EXCEPT ![p] = "forward"] /\ members' = members
        /\ \A v \in Worker \ {p, q} : top_cp'[v] = top_cp[v]
        BY <1>5, <2>0, SetTopsFacts DEF Inv
  <2>2. cut' = cut /\ holder' = holder  BY <1>5 DEF SetTops, frames, locals
  <2>3. pc'[p] = "forward" /\ pc'[q] = "ask" /\ \A v \in Worker : v # p => pc'[v] = pc[v]
        BY <1>0, <2>1
  <2>4. \A v \in Worker : pc'[v] \notin CutPlaces \/ (pc'[v] = pc[v] /\ top_cp'[v] = top_cp[v])
        BY <2>1, <2>3 DEF CutPlaces
  <2> QED BY <1>3, <2>1, <2>2, <2>4
<1>6. ASSUME OtherStep PROVE CutInv'
  <2>1. members' = members /\ top_cp' = top_cp  BY <1>6, OtherSteps
  <2>2. cut' = cut /\ holder' = holder
        BY <1>6 DEF OtherStep, GetAlternative, PutIdle, Choosing, Choose, TakeBranch,
           TakeIdleBranch, Refuse, Forward, Finish, vars,
          frames, locals
  <2>3. \A v \in Worker : pc'[v] \notin CutPlaces \/ pc'[v] = pc[v]
    <3>1. ASSUME NEW w \in Worker, NEW u \in Worker,
                 GetAlternative(w) \/ PutIdle(w) \/ Choosing(w, u) \/ Refuse(w, u) \/ Forward(w)
          PROVE  \A v \in Worker : pc'[v] \notin CutPlaces \/ pc'[v] = pc[v]
      <4>1. CASE GetAlternative(w)  BY <1>0, <4>1 DEF GetAlternative, Goto, CutPlaces
      <4>2. CASE PutIdle(w)  BY <1>0, <4>2 DEF PutIdle, CutPlaces
      <4>3. CASE Choosing(w, u)  BY <1>0, <4>3 DEF Choosing, Choose, TakeBranch, TakeIdleBranch,
          Goto, CutPlaces
      <4>4. CASE Refuse(w, u)  BY <1>0, <4>4 DEF Refuse, Goto, CutPlaces
      <4>5. CASE Forward(w)
        <5>1. pc' = [pc EXCEPT ![w] = "run", ![partner[w]] = "fail"]  BY <4>5 DEF Forward
        <5> QED BY <1>0, <5>1 DEF CutPlaces
      <4> QED BY <3>1, <4>1, <4>2, <4>3, <4>4, <4>5
    <3>2. CASE Finish  BY <1>0, <3>2 DEF Finish, CutPlaces
    <3>3. CASE UNCHANGED vars  BY <3>3 DEF vars
    <3> QED BY <1>6, <3>1, <3>2, <3>3 DEF OtherStep
  <2> QED BY <1>3, <2>1, <2>2, <2>3
<1> QED BY <1>2, <1>4, <1>5, <1>6, StepCases

-----------------------------------------------------------------------------
(***************************************************************************)
(* Prune requests.                                                         *)
(***************************************************************************)

LEMMA RequestKept ==
  ASSUME Inv, NEW v \in Worker, prune_request'[v] \in {None, prune_request[v]},
         top_cp'[v] = top_cp[v], \A n \in Node : v \in members[n] => v \in members'[n],
         pc[v] \in Moved => pc'[v] \in Moved,
         pc'[v] = "prune" => prune_request'[v] # None
  PROVE  RequestAt(v)'
<1>1. RequestAt(v) /\ prune_request[v] \in Node \cup {None}
      BY DEF Inv, RequestInv, TreeInv, TypeOK
<1> QED BY <1>1 DEF RequestAt, Younger, AtOrUnder

\* A request that is sent is for a choice point of its receiver.
LEMMA RequestSent ==
  ASSUME Inv, NEW i \in Worker, NEW cp \in Node, i \in members[cp], prune_request' = Sent(i, cp),
         members' = members, top_cp' = top_cp, NEW v \in Worker,
         pc[v] \in Moved => pc'[v] \in Moved,
         pc'[v] = "prune" => prune_request[v] # None
  PROVE  RequestAt(v)'
<1>1. RequestAt(v) /\ prune_request \in [Worker -> Node \cup {None}] /\ None \notin Node
      BY NoneFacts DEF Inv, RequestInv, TreeInv, TypeOK
<1>2. CASE prune_request' = prune_request  BY <1>1, <1>2, RequestKept
<1>3. CASE prune_request' # prune_request
  <2>1. Younger(top_cp[i], cp) /\ prune_request' = [prune_request EXCEPT ![i] = cp]
        BY <1>3 DEF Sent
  <2>2. CASE v = i
    <3>1. prune_request'[v] = cp /\ Younger(top_cp[v], cp) /\ v \in members[cp]
          BY <1>1, <2>1, <2>2
    <3> QED BY <1>1, <3>1 DEF RequestAt, Younger
  <2>3. CASE v # i
    <3>1. prune_request'[v] = prune_request[v]  BY <1>1, <2>1, <2>3
    <3> QED BY <1>1, <3>1, RequestKept
  <2> QED BY <2>2, <2>3
<1> QED BY <1>2, <1>3

LEMMA ResetFacts ==
  ASSUME TypeOK, NEW w \in Worker, NEW n \in Node, prune_request' = Reset(w, n)
  PROVE  /\ \A v \in Worker \ {w} : prune_request'[v] = prune_request[v]
         /\ prune_request'[w] \in {None, prune_request[w]}
         /\ prune_request'[w] # None => ~ AtOrUnder(prune_request[w], n)
BY DEF TypeOK, Reset

\* Members of the frame w cuts in are below the choice point it sends them.
LEMMA SendTarget ==
  ASSUME Inv, NEW w \in Worker, NEW s \in Node, w \in members[s], pc[w] \in {"send", "send_more"},
         NEW i \in members[s]
  PROVE  s # Root => CpB(w, s) \in Node /\ i \in members[CpB(w, s)]
<1> SUFFICES ASSUME s # Root PROVE CpB(w, s) \in Node /\ i \in members[CpB(w, s)]
    OBVIOUS
<1>0. i \in Worker /\ top_cp[w] \in Node  BY DEF Inv, TreeInv, TypeOK
<1>1. CpB(w, s) \in Node /\ CpB(w, s) \in Stack(w) /\ Younger(s, CpB(w, s))
      BY CpBFacts DEF Inv, TreeInv, ShapeInv
<1>2. AtOrUnder(top_cp[w], s)  BY CutFrames DEF Moved
<1>3. AtOrUnder(top_cp[w], CpB(w, s))
      BY <1>0, <1>1, <1>2, UnderFacts DEF Younger, AtOrUnder
<1>4. w \in members[CpB(w, s)]  BY <1>1, <1>3, MemberFacts DEF Inv
<1> QED BY <1>0, <1>1, <1>4 DEF Inv, TreeInv, ShapeInv, AgreeInv

LEMMA RequestPlain ==
  ASSUME Inv, NEW w \in Worker, PlainStep(w), NEW v \in Worker
  PROVE  RequestAt(v)'
<1>0. /\ pc \in [Worker -> Locations] /\ cut[w] \in CutLocals
      /\ back \in [Worker -> {"fail", "exit", "work", "idle"}]
      /\ RequestAt(v) /\ CutAt(w) /\ members \in [Node -> SUBSET Worker]
      /\ prune_request \in [Worker -> Node \cup {None}]
      BY DEF Inv, TreeInv, TypeOK, CutInv, RequestInv
<1>1. members' = members /\ top_cp' = top_cp /\ (v # w => pc'[v] = pc[v])  BY PlainSteps
<1>2. pc[v] = "prune" => prune_request[v] # None  BY <1>0 DEF RequestAt
<1>3. CASE EndCut(w)
  <2>1. top_cp[w] \in Node /\ prune_request' = Reset(w, top_cp[w]) /\ pc'[w] = back[w] /\ pc[w] = "done"
        BY <1>0, <1>3 DEF EndCut, Goto, Inv, TreeInv, TypeOK
  <2>2. /\ \A u \in Worker \ {w} : prune_request'[u] = prune_request[u]
        /\ prune_request'[w] \in {None, prune_request[w]}
        /\ prune_request'[w] # None => ~ AtOrUnder(prune_request[w], top_cp[w])
        BY <2>1, ResetFacts DEF Inv, TreeInv
  <2>3. CASE v # w  BY <1>1, <1>2, <2>2, <2>3, RequestKept
  <2>4. CASE v = w
    <3>1. pc'[w] # "prune"  BY <1>0, <2>1
    <3>2. prune_request'[w] # None => w \in members[prune_request[w]] /\ Younger(top_cp[w], prune_request[w])
          BY <1>0, <2>2, <2>4 DEF RequestAt
    <3> QED BY <1>1, <2>2, <2>4, <3>1, <3>2 DEF RequestAt, Younger
  <2> QED BY <2>3, <2>4
<1>4. CASE ~ EndCut(w)
  <2>1. pc[w] \in Moved => pc'[w] \in Moved
    <3>1. CASE CutStore(w)  BY <1>0, <3>1 DEF CutStore, Moved
    <3>2. CASE SendMore(w)  BY <3>2 DEF SendMore
    <3>3. CASE LookUp(w) \/ CutMore(w) \/ StopMore(w) \/ NextMore(w)
          BY <1>0, <3>3 DEF LookUp, CutMore, StopMore, NextMore, Goto, Moved
    <3>4. CASE Call(w) \/ Exit(w) \/ EnterScheduler(w) \/ NewAnswer(w) \/ StoreAnswer(w) \/ BeginCut(w)
               \/ LockToSend(w) \/ Send(w) \/ Scan(w) \/ FindLeftmost(w) \/ PutAnswers(w) \/ GiveUp(w)
          BY <3>4 DEF Call, Exit, EnterScheduler, NewAnswer, StoreAnswer, BeginCut, LockToSend, Send,
            Scan, FindLeftmost, PutAnswers, GiveUp, Goto, Moved
    <3>5. CASE DoPending(w)  BY <3>5 DEF DoPending, MayMove, Moved
    <3> QED BY <1>4, <3>1, <3>2, <3>3, <3>4, <3>5 DEF PlainStep
  <2>2. pc'[w] = "prune" => prune_request[w] # None
    <3>1. CASE BeginCut(w) \/ PutAnswers(w)  BY <1>0, <3>1 DEF BeginCut, PutAnswers, Goto
    <3>2. CASE Exit(w) \/ SendMore(w)  BY <3>2 DEF Exit, SendMore
    <3>3. CASE EnterScheduler(w)  BY <1>0, <3>3 DEF EnterScheduler, Goto
    <3>4. CASE LockToSend(w) \/ Send(w)
          BY <1>0, <3>4 DEF LockToSend, Send, Goto, NextUp
    <3>5. CASE CutStore(w)  BY <1>0, <3>5 DEF CutStore
    <3>6. CASE Call(w) \/ NewAnswer(w) \/ StoreAnswer(w) \/ LookUp(w) \/ CutMore(w) \/ StopMore(w)
               \/ NextMore(w) \/ Scan(w) \/ DoPending(w) \/ FindLeftmost(w) \/ GiveUp(w)
          BY <1>0, <3>6 DEF Goto, Call, NewAnswer, StoreAnswer, LookUp, CutMore, StopMore, NextMore,
            Scan, DoPending, FindLeftmost, GiveUp
    <3> QED BY <1>4, <3>1, <3>2, <3>3, <3>4, <3>5, <3>6 DEF PlainStep
  <2>3. (pc[v] \in Moved => pc'[v] \in Moved) /\ (pc'[v] = "prune" => prune_request[v] # None)
        BY <1>1, <1>2, <2>1, <2>2
  <2>4. CASE Send(w)
    <3> DEFINE s == SendFrame(w)
               cp == IF BeingLeftmost(w) THEN s ELSE CpB(w, s)
    <3>1. PICK i \in cut[w].todo : pc[w] = "send" /\ prune_request' = Sent(i, cp)
          BY <2>4 DEF Send, Goto
    <3>2. /\ s \in Node /\ w \in members[s]
          /\ ~ BeingLeftmost(w) => s # Root
          BY <3>1, SendFacts
    <3>3. i \in members[s] /\ i \in Worker
      <4>1. cut[w].todo \subseteq members[SendFrame(w)]  BY <1>0, <3>1 DEF CutAt
      <4> QED BY <1>0, <3>2, <4>1
    <3>4. cp \in Node /\ i \in members[cp]
      <4> HIDE DEF s
      <4> QED BY <3>1, <3>2, <3>3, SendTarget
    <3> HIDE DEF s, cp
    <3> QED BY <1>1, <2>3, <3>1, <3>3, <3>4, RequestSent
  <2>5. CASE SendMore(w)
    <3> DEFINE s == cut[w].frame
               cp == CpB(w, s)
    <3>1. PICK i \in cut[w].todo : pc[w] = "send_more" /\ prune_request' = Sent(i, cp)
          BY <2>5 DEF SendMore
    <3>2. s \in Node /\ s # Root /\ w \in members[s]
          BY <1>0, <3>1, SendFacts DEF CutAt
    <3>3. i \in members[s] /\ i \in Worker
      <4>1. cut[w].todo \subseteq members[cut[w].frame]  BY <1>0, <3>1 DEF CutAt
      <4> QED BY <1>0, <3>2, <4>1
    <3>4. cp \in Node /\ i \in members[cp]
      <4> HIDE DEF s
      <4> QED BY <3>1, <3>2, <3>3, SendTarget
    <3> HIDE DEF s, cp
    <3> QED BY <1>1, <2>3, <3>1, <3>3, <3>4, RequestSent
  <2>6. CASE ~ Send(w) /\ ~ SendMore(w)
    <3>1. prune_request' = prune_request
          BY <1>4, <2>6 DEF PlainStep, Call, Exit, EnterScheduler, NewAnswer, StoreAnswer, BeginCut,
            LockToSend, CutStore, LookUp, CutMore, StopMore, NextMore, Scan, DoPending, FindLeftmost,
            PutAnswers, GiveUp
    <3> QED BY <1>1, <2>3, <3>1, RequestKept
  <2> QED BY <2>4, <2>5, <2>6
<1> QED BY <1>3, <1>4

LEMMA RequestMove ==
  ASSUME Inv, NEW w \in Worker, MoveStep(w), NEW v \in Worker
  PROVE  RequestAt(v)'
<1>0. /\ pc \in [Worker -> Locations] /\ RequestAt(v) /\ members \in [Node -> SUBSET Worker]
      /\ prune_request \in [Worker -> Node \cup {None}] /\ top_cp \in [Worker -> Node]
      BY DEF Inv, TreeInv, TypeOK, RequestInv
<1>1. /\ pc[w] \in {"up", "prune", "work", "idle"} /\ top_cp[w] # Root
      /\ Pop(w, top_cp[w]) /\ members' = Without(w, top_cp[w])
      /\ \A u \in Worker \ {w} : pc'[u] = pc[u]
      BY MoveShape
<1>2. PICK n \in Node, up \in Node : n = top_cp[w] /\ up = CpB(w, n)
      BY <1>0, <1>1, CpBFacts DEF Inv, TreeInv, ShapeInv
<1>3. /\ top_cp'[w] = up /\ \A u \in Worker \ {w} : top_cp'[u] = top_cp[u]
      /\ \A m \in Node : members'[m] = members[m] \/ (m = n /\ members'[m] = members[m] \ {w})
      BY <1>0, <1>1, <1>2 DEF Pop, Without
<1>4. Younger(n, up) /\ \A m \in Stack(w) : Younger(n, m) => AtOrUnder(up, m)
      BY <1>1, <1>2, CpBFacts DEF Inv, TreeInv, ShapeInv
<1>5. /\ \A u \in Worker \ {w} : prune_request'[u] = prune_request[u]
      /\ prune_request'[w] \in {None, prune_request[w]}
      /\ prune_request' = prune_request \/ prune_request' = Reset(w, up)
  <2>1. prune_request' = prune_request \/ prune_request' = Reset(w, up)
        BY <1>2 DEF MoveStep, CutUp, PruneUp, MoveUp, MoveUpLast
  <2> QED BY <2>1, ResetFacts DEF Inv, TreeInv
<1>6. CASE v # w
  <2>1. pc'[v] = "prune" => prune_request[v] # None  BY <1>0, <1>1, <1>6 DEF RequestAt
  <2> QED BY <1>1, <1>3, <1>5, <1>6, <2>1, RequestKept
<1>7. CASE v = w
  <2> DEFINE r == prune_request[w]
  <2>1. ASSUME r # None, pc[w] # "up"
        PROVE  r \in Node /\ w \in members[r] /\ Younger(n, r) /\ AtOrUnder(up, r) /\ r # n
    <3>1. r \in Node /\ w \in members[r] /\ Younger(n, r)
          BY <1>0, <1>1, <1>2, <1>7, <2>1 DEF RequestAt, Moved
    <3>2. r \in Stack(w)  BY <1>1, <3>1, MemberFacts DEF Inv
    <3> QED BY <1>4, <3>1, <3>2, UnderFacts DEF Younger
  <2>2. CASE CutUp(w)
    <3>1. pc[w] = "up" /\ pc'[w] \in {"store", "up"} /\ prune_request' = prune_request
          BY <1>0, <2>2 DEF CutUp, Goto
    <3>2. CASE r = None  BY <1>7, <3>1, <3>2 DEF RequestAt
    <3>3. CASE r # None
      <4>1. r \in Node  BY <1>0, <3>3
      <4>2. CASE w \in members[r] /\ Younger(n, r)
        <5>1. r \in Stack(w)  BY <3>1, <4>1, <4>2, MemberFacts DEF Inv
        <5>2. AtOrUnder(up, r) /\ r # n  BY <1>4, <4>2, <5>1, UnderFacts DEF Younger
        <5>3. w \in members'[r]  BY <1>3, <4>1, <4>2, <5>2
        <5> QED BY <1>3, <1>7, <3>1, <5>2, <5>3 DEF RequestAt, Moved, AtOrUnder, Younger
      <4>3. CASE AtOrUnder(r, n)
        <5>1. AtOrUnder(r, up)  BY <1>4, <4>1, <4>3, UnderFacts DEF Younger, AtOrUnder
        <5> QED BY <1>3, <1>7, <3>1, <5>1 DEF RequestAt, Moved, AtOrUnder
      <4> QED BY <1>0, <1>2, <1>7, <3>3, <4>2, <4>3 DEF RequestAt
    <3> QED BY <3>2, <3>3
  <2>3. CASE PruneUp(w)
    <3>1. /\ pc[w] = "prune" /\ pc'[w] = (IF up = r THEN "scan" ELSE "prune")
          /\ prune_request' = IF up = r THEN Reset(w, up) ELSE prune_request
          BY <1>0, <1>2, <2>3 DEF PruneUp, Goto
    <3>2. r # None  BY <1>0, <1>7, <3>1 DEF RequestAt
    <3>3. CASE up = r
      <4>1. prune_request'[w] = None
            BY <1>5, <3>1, <3>3, ResetFacts DEF AtOrUnder, Inv, TreeInv
      <4> QED BY <1>7, <3>1, <3>3, <4>1 DEF RequestAt
    <3>4. CASE up # r
      <4>1. Younger(up, r) /\ w \in members'[r]
            BY <1>3, <2>1, <3>1, <3>2, <3>4 DEF AtOrUnder, Younger
      <4> QED BY <1>3, <1>7, <3>1, <3>2, <3>4, <4>1 DEF RequestAt, Younger
    <3> QED BY <3>3, <3>4
  <2>4. CASE MoveUp(w) \/ MoveUpLast(w)
    <3>1. pc[w] \in {"work", "idle"} /\ prune_request' = Reset(w, up)
          BY <1>2, <2>4 DEF MoveUp, MoveUpLast, MayMove
    <3>2. \A k : Arrived(w, k) \in {"fail", "work", "idle"}  BY <3>1 DEF Arrived
    <3>3. pc'[w] \in {"fail", "work", "idle", "carry"}  BY <1>0, <2>4, <3>2 DEF MoveUp, MoveUpLast
    <3>4. prune_request'[w] # None => prune_request'[w] = r /\ ~ AtOrUnder(r, up)
          BY <1>5, <3>1, ResetFacts DEF Inv, TreeInv
    <3>5. CASE prune_request'[w] = None  BY <1>7, <3>3, <3>5 DEF RequestAt
    <3>6. CASE prune_request'[w] # None
      <4>1. Younger(up, r) /\ w \in members'[r]
            BY <1>3, <2>1, <3>1, <3>4, <3>6 DEF AtOrUnder, Younger
      <4> QED BY <1>3, <1>7, <3>3, <3>4, <3>6, <4>1 DEF RequestAt, Younger
    <3> QED BY <3>5, <3>6
  <2> QED BY <2>2, <2>3, <2>4 DEF MoveStep
<1> QED BY <1>6, <1>7

\* A worker that gets the top choice point of p gets the request of p, if any.
LEMMA RequestSetTops ==
  ASSUME Inv, NEW p \in Worker, SetTops(p), NEW v \in Worker
  PROVE  RequestAt(v)'
<1>0. PICK q \in Worker : q = partner[p]  BY DEF Inv, TreeInv, TypeOK
<1>1. /\ p # q /\ pc[p] = "share" /\ pc[q] = "ask" /\ pc' = [pc EXCEPT ![p] = "forward"]
      /\ members' = members /\ B(p) \in Node
      /\ \A n \in Stack(p) : AtOrUnder(B(p), n)
      /\ top_cp'[p] = B(p) /\ top_cp'[q] = B(p)
      /\ \A u \in Worker \ {p, q} : top_cp'[u] = top_cp[u]
      /\ \A n \in Node : /\ p \in members[n] <=> n \in Stack(p)
                         /\ q \in members[n] <=> n \in Stack(p)
      /\ top_cp[p] \in Stack(p) /\ top_cp[q] \in Stack(p)
      BY <1>0, SetTopsFacts DEF Inv
<1>2. /\ pc \in [Worker -> Locations] /\ RequestAt(p) /\ RequestAt(q) /\ RequestAt(v)
      /\ prune_request \in [Worker -> Node \cup {None}] /\ None \notin Node
      /\ top_cp[p] \in Node /\ top_cp[q] \in Node
      BY NoneFacts DEF Inv, TreeInv, TypeOK, RequestInv
<1>3. pc'[p] = "forward" /\ pc'[q] = "ask" /\ \A u \in Worker : u # p => pc'[u] = pc[u]
      BY <1>1, <1>2
<1>4. \/ prune_request' = prune_request
      \/ /\ prune_request' = [prune_request EXCEPT ![q] = prune_request[p]]
         /\ prune_request[p] # None /\ Younger(B(p), prune_request[p])
      BY <1>0 DEF SetTops
\* Requests of p and of q are above B(p).
<1>5. ASSUME NEW u \in {p, q}, prune_request[u] # None
      PROVE  /\ prune_request[u] \in Node /\ u \in members[prune_request[u]]
             /\ Younger(B(p), prune_request[u])
  <2>1. /\ prune_request[u] \in Node /\ u \in members[prune_request[u]]
        /\ Younger(top_cp[u], prune_request[u]) /\ AtOrUnder(B(p), top_cp[u]) /\ top_cp[u] \in Node
        BY <1>1, <1>2, <1>5 DEF RequestAt, Moved
  <2> QED BY <1>1, <2>1, UnderFacts DEF Younger
<1>6. CASE v \notin {p, q}
  <2>1. prune_request'[v] = prune_request[v]  BY <1>2, <1>4, <1>6
  <2>2. pc'[v] = "prune" => prune_request[v] # None  BY <1>2, <1>3, <1>6 DEF RequestAt
  <2> QED BY <1>1, <1>3, <1>6, <2>1, <2>2, RequestKept
<1>7. CASE v \in {p, q}
  <2>1. prune_request'[v] \in {prune_request[p], prune_request[q]}  BY <1>2, <1>4, <1>7
  <2>2. prune_request'[v] # None => /\ v \in members'[prune_request'[v]]
                                    /\ Younger(B(p), prune_request'[v])
    <3>1. \A n \in Node : p \in members[n] <=> q \in members[n]  BY <1>1
    <3> QED BY <1>1, <1>5, <1>7, <2>1, <3>1
  <2>3. pc'[v] # "prune" /\ top_cp'[v] = B(p)  BY <1>1, <1>3, <1>7
  <2> QED BY <2>2, <2>3 DEF RequestAt, Younger
<1> QED BY <1>6, <1>7

LEMMA RequestForward ==
  ASSUME Inv, NEW p \in Worker, Forward(p), NEW v \in Worker
  PROVE  RequestAt(v)'
<1>0. PICK q \in Worker : q = partner[p]  BY DEF Inv, TreeInv, TypeOK
<1>1. /\ pc[p] = "forward" /\ pc' = [pc EXCEPT ![p] = "run", ![q] = "fail"]
      /\ prune_request' = IF prune_request[p] = None THEN prune_request ELSE Sent(q, prune_request[p])
      /\ members' = members /\ top_cp' = top_cp
      BY <1>0 DEF Forward, stacks, frames
<1>2. /\ pc \in [Worker -> Locations] /\ RequestAt(p) /\ RequestAt(v)
      /\ prune_request \in [Worker -> Node \cup {None}] /\ top_cp[p] \in Node
      /\ q \in members[top_cp[q]] /\ p \in members[top_cp[p]]
      BY DEF Inv, TreeInv, TypeOK, RequestInv
<1>3. pc[q] = "ask" /\ top_cp[q] = top_cp[p]
      BY <1>0, <1>1 DEF Inv, TreeInv, ShapeInv, HandInv
<1>4. (pc[v] \in Moved => pc'[v] \in Moved) /\ (pc'[v] = "prune" => prune_request[v] # None)
  <2>1. CASE v = q  BY <1>1, <1>2, <1>3, <2>1 DEF Moved
  <2>2. CASE v # q /\ v = p  BY <1>1, <1>2, <2>2 DEF Moved
  <2>3. CASE v # q /\ v # p
    <3>1. pc'[v] = pc[v]  BY <1>1, <1>2, <2>3
    <3> QED BY <1>2, <3>1 DEF RequestAt
  <2> QED BY <2>1, <2>2, <2>3
<1>5. CASE prune_request[p] = None
  <2>1. prune_request' = prune_request  BY <1>1, <1>5
  <2> QED BY <1>1, <1>4, <2>1, RequestKept
<1>6. CASE prune_request[p] # None
  <2> DEFINE r == prune_request[p]
  <2>1. r \in Node /\ p \in members[r] /\ Younger(top_cp[p], r)
        BY <1>1, <1>2, <1>6 DEF RequestAt, Moved
  <2>2. q \in members[r]
        BY <1>2, <1>3, <2>1 DEF Inv, TreeInv, ShapeInv, AgreeInv
  <2>3. prune_request' = Sent(q, r)  BY <1>1, <1>6
  <2> HIDE DEF r
  <2> QED BY <1>1, <1>4, <2>1, <2>2, <2>3, RequestSent
<1> QED BY <1>5, <1>6

LEMMA RequestStep ==
  ASSUME Inv, [Next]_vars
  PROVE  RequestInv'
<1> SUFFICES ASSUME NEW v \in Worker PROVE RequestAt(v)'
    BY DEF RequestInv
<1>0. /\ pc \in [Worker -> Locations] /\ RequestAt(v) /\ top_cp \in [Worker -> Node]
      /\ prune_request \in [Worker -> Node \cup {None}]
      BY DEF Inv, TreeInv, TypeOK, RequestInv
<1>1. pc[v] = "prune" => prune_request[v] # None  BY <1>0 DEF RequestAt
<1>2. ASSUME NEW w \in Worker, EngineStep(w) PROVE RequestAt(v)'
  <2>1. top_cp' = top_cp /\ members' = members /\ prune_request' = prune_request
        BY <1>2 DEF EngineStep, Try, Cut, Retry, CheckPruneRequest, frames
  <2>2. /\ pc[w] \in {"run", "exit", "fail"}
        /\ \A u \in Worker \ {w} : pc'[u] = pc[u]
        /\ pc'[w] = "prune" => prune_request[w] # None
    <3>1. CASE Try(w)  BY <1>0, <3>1 DEF Try
    <3>2. CASE Cut(w)
      <4>1. \E to \in {"cut", "exit", "fail"} : pc' = [pc EXCEPT ![w] = to]  BY <3>2 DEF Cut
      <4> QED BY <1>0, <3>2, <4>1 DEF Cut
    <3>3. CASE Retry(w)  BY <1>0, <3>3 DEF Retry, Goto
    <3>4. CASE CheckPruneRequest(w)  BY <1>0, <3>4 DEF CheckPruneRequest, Goto
    <3> QED BY <1>2, <3>1, <3>2, <3>3, <3>4 DEF EngineStep
  <2>3. (pc[v] \in Moved => pc'[v] \in Moved) /\ (pc'[v] = "prune" => prune_request[v] # None)
    <3>1. CASE v = w  BY <2>2, <3>1 DEF Moved
    <3>2. CASE v # w  BY <1>1, <2>2, <3>2
    <3> QED BY <3>1, <3>2
  <2> QED BY <2>1, <2>3, RequestKept
<1>3. ASSUME NEW p \in Worker, NEW q \in Worker, Share(p, q) PROVE RequestAt(v)'
  <2>1. /\ pc[p] = "run" /\ pc' = [pc EXCEPT ![p] = "share"] /\ top_cp' = top_cp
        /\ prune_request' = prune_request
        BY <1>3 DEF Share, Goto
  <2>2. \A n \in Node : members[n] \subseteq members'[n]
    <3>1. /\ \A n \in Private(p) : members[n] = {}
          /\ \A n \in Node \ Private(p) : members'[n] = members[n] \/ members'[n] = members[n] \cup {q}
          BY <1>3, ShareFacts
    <3> QED BY <3>1
  <2>3. (pc[v] \in Moved => pc'[v] \in Moved) /\ (pc'[v] = "prune" => prune_request[v] # None)
        BY <1>0, <1>1, <2>1 DEF Moved
  <2> QED BY <2>1, <2>2, <2>3, RequestKept
<1>4. ASSUME OtherStep, ~ \E w \in Worker : Forward(w) PROVE RequestAt(v)'
  <2>1. members' = members /\ top_cp' = top_cp  BY <1>4, OtherSteps
  <2>2. prune_request'[v] \in {None, prune_request[v]}
    <3>1. ASSUME NEW w \in Worker, NEW u \in Worker, Choosing(w, u)
          PROVE  prune_request'[v] \in {None, prune_request[v]}
      <4>1. prune_request' \in {prune_request, Reset(w, top_cp[w])}
            BY <3>1 DEF Choosing, Choose, TakeBranch, TakeIdleBranch
      <4> QED BY <1>0, <4>1, ResetFacts DEF Inv, TreeInv
    <3>2. ASSUME NEW w \in Worker, NEW u \in Worker,
                 GetAlternative(w) \/ PutIdle(w) \/ Refuse(w, u) \/ Finish \/ UNCHANGED vars
          PROVE  prune_request' = prune_request
          BY <3>2 DEF GetAlternative, PutIdle, Refuse, Finish, vars
    <3> QED BY <1>4, <3>1, <3>2 DEF OtherStep
  <2>3. (pc[v] \in Moved => pc'[v] \in Moved) /\ (pc'[v] = "prune" => prune_request'[v] # None)
    <3>1. ASSUME NEW w \in Worker, NEW u \in Worker, GetAlternative(w) \/ Refuse(w, u)
          PROVE  /\ prune_request' = prune_request
                 /\ pc[v] \in Moved => pc'[v] \in Moved
                 /\ pc'[v] = "prune" => pc[v] = "prune"
          BY <1>0, <3>1 DEF GetAlternative, Refuse, Goto, Moved
    <3>2. ASSUME NEW w \in Worker, PutIdle(w)
          PROVE  /\ prune_request' = prune_request
                 /\ pc[v] \in Moved => pc'[v] \in Moved
                 /\ pc'[v] = "prune" => pc[v] = "prune"
          BY <1>0, <3>2 DEF PutIdle, Moved
    <3>3. ASSUME NEW w \in Worker, NEW u \in Worker, Choosing(w, u)
          PROVE  /\ pc[v] \in Moved => pc'[v] \in Moved
                 /\ pc'[v] = "prune" => prune_request'[v] # None
      <4>1. /\ pc[w] \in {"idle", "request"}
            /\ \E to \in {"idle", "request", "ask"} : pc' = [pc EXCEPT ![w] = to]
            /\ prune_request' \in {prune_request, Reset(w, top_cp[w])}
            BY <3>3 DEF Choosing, Choose, TakeBranch, TakeIdleBranch, Goto
      <4>2. v # w => prune_request'[v] = prune_request[v]
            BY <1>0, <4>1, ResetFacts DEF Inv, TreeInv
      <4> QED BY <1>0, <1>1, <4>1, <4>2 DEF Moved
    <3>4. CASE Finish
      <4>1. pc[v] = "idle" /\ pc'[v] = "end"  BY <3>4 DEF Finish
      <4> QED BY <4>1 DEF Moved
    <3>5. CASE UNCHANGED vars  BY <1>1, <3>5 DEF vars
    <3> QED BY <1>1, <1>4, <3>1, <3>2, <3>3, <3>4, <3>5 DEF OtherStep
  <2> QED BY <2>1, <2>2, <2>3, RequestKept
<1> QED BY <1>2, <1>3, <1>4, RequestPlain, RequestMove, RequestSetTops, RequestForward, StepCases

-----------------------------------------------------------------------------
(***************************************************************************)
(* The branches of workers that share a choice point.                      *)
(***************************************************************************)

\* The history of the races is kept.
LEMMA AstrayKept ==
  ASSUME TypeOK, [Next]_vars, astray
  PROVE  astray'
<1>1. ASSUME NEW w \in Worker, Step(w) PROVE astray'
  <2>1. CASE \/ Try(w) \/ Call(w) \/ Exit(w) \/ Cut(w) \/ Retry(w) \/ GetAlternative(w)
             \/ EnterScheduler(w) \/ CheckPruneRequest(w) \/ NewAnswer(w)
    BY <2>1 DEF Try, Call, Exit, Cut, Retry, GetAlternative, EnterScheduler, CheckPruneRequest,
                NewAnswer, history
  <2>2. CASE StoreAnswer(w) \/ Send(w) \/ CutStore(w) \/ PutAnswers(w)
    BY <2>2 DEF StoreAnswer, Send, CutStore, PutAnswers
  <2>3. CASE \/ BeginCut(w) \/ LockToSend(w) \/ CutUp(w) \/ LookUp(w) \/ CutMore(w) \/ SendMore(w)
             \/ StopMore(w) \/ NextMore(w) \/ EndCut(w)
    BY <2>3 DEF BeginCut, LockToSend, CutUp, LookUp, CutMore, SendMore, StopMore, NextMore, EndCut,
                history
  <2>4. CASE \/ PruneUp(w) \/ Scan(w) \/ PutIdle(w) \/ DoPending(w) \/ MoveUp(w) \/ MoveUpLast(w)
             \/ FindLeftmost(w)
    BY <2>4 DEF PruneUp, Scan, PutIdle, DoPending, MoveUp, MoveUpLast, FindLeftmost, history
  <2>5. CASE \/ \E v \in Worker : Choose(w, v) \/ TakeIdleBranch(w, v) \/ Refuse(w, v) \/ Share(w, v)
             \/ TakeBranch(w) \/ GiveUp(w) \/ SetTops(w) \/ Forward(w)
    BY <2>5 DEF Choose, TakeBranch, TakeIdleBranch, Refuse, Share, GiveUp, SetTops, Forward, history
  <2>6. QED BY <1>1, <2>1, <2>2, <2>3, <2>4, <2>5 DEF Step
<1>2. CASE Finish BY <1>2 DEF Finish, history
<1>3. CASE UNCHANGED vars BY <1>3 DEF vars, history
<1>4. QED BY <1>1, <1>2, <1>3 DEF Next, Over

\* Outside of sharing, the branch of a worker changes in its top frame.
LEMMA BranchCases ==
  ASSUME Inv, [Next]_vars, ~ \E p, q \in Worker : Share(p, q)
  PROVE  \A v \in Worker, m \in Node :
           \/ branch'[v][m] = branch[v][m]
           \/ /\ m = top_cp[v] /\ pc[v] \in {"fail", "work", "idle", "request"}
              /\ alternative[m] # NULL \/ pend'[m] = None \/ pc'[v] \in {"idle", "ask"}
<1>. DEFINE Now(v, m) == /\ m = top_cp[v] /\ pc[v] \in {"fail", "work", "idle", "request"}
                         /\ alternative[m] # NULL \/ pend'[m] = None \/ pc'[v] \in {"idle", "ask"}
<1>0. /\ branch \in [Worker -> [Node -> [alt : Nat, cut : BOOLEAN]]]
      /\ top_cp \in [Worker -> Node] /\ pc \in [Worker -> Locations]
      /\ pend \in [Node -> {None} \cup [cp : Node, alt : Nat]]
  BY DEF Inv, TreeInv, TypeOK
<1>1. ASSUME NEW w \in Worker, Step(w)
      PROVE  branch' = branch \/ \E b : branch' = [branch EXCEPT ![w][top_cp[w]] = b] /\ Now(w, top_cp[w])
  <2>1. CASE GetAlternative(w)
    BY <2>1 DEF GetAlternative, Goto
  <2>2. CASE DoPending(w)
    <3>1. pend'[top_cp[w]] = None BY <1>0, <2>2 DEF DoPending
    <3>2. QED BY <2>2, <3>1 DEF DoPending, MayMove
  <2>3. CASE TakeBranch(w)
    <3>1. pc[w] = "request" /\ pc'[w] \in {"idle", "ask"} BY <1>0, <2>3 DEF TakeBranch, Goto
    <3>2. QED BY <2>3, <3>1 DEF TakeBranch
  <2>4. CASE \/ Try(w) \/ Call(w) \/ Exit(w) \/ Cut(w) \/ Retry(w)
             \/ EnterScheduler(w) \/ CheckPruneRequest(w) \/ NewAnswer(w) \/ StoreAnswer(w)
    BY <2>4 DEF Try, Call, Exit, Cut, Retry, EnterScheduler, CheckPruneRequest, NewAnswer, StoreAnswer
  <2>5. CASE \/ BeginCut(w) \/ LockToSend(w) \/ Send(w) \/ CutUp(w) \/ CutStore(w)
             \/ LookUp(w) \/ CutMore(w) \/ SendMore(w) \/ StopMore(w) \/ NextMore(w) \/ EndCut(w)
    BY <2>5 DEF BeginCut, LockToSend, Send, CutUp, CutStore, LookUp, CutMore, SendMore,
                StopMore, NextMore, EndCut
  <2>6. CASE \/ PruneUp(w) \/ Scan(w) \/ PutIdle(w) \/ MoveUp(w) \/ MoveUpLast(w)
             \/ FindLeftmost(w) \/ PutAnswers(w) \/ GiveUp(w) \/ SetTops(w) \/ Forward(w)
             \/ \E v \in Worker : Choose(w, v) \/ Refuse(w, v)
    BY <2>6 DEF PruneUp, Scan, PutIdle, MoveUp, MoveUpLast, FindLeftmost, PutAnswers,
                GiveUp, SetTops, Forward, Choose, Refuse
  <2>7. ASSUME NEW u \in Worker, TakeIdleBranch(w, u)
        PROVE  \E b : branch' = [branch EXCEPT ![w][top_cp[w]] = b] /\ Now(w, top_cp[w])
    <3>1. pc[w] = "idle" /\ pc'[w] = "idle" BY <1>0, <2>7 DEF TakeIdleBranch, Goto
    <3>2. QED BY <2>7, <3>1 DEF TakeIdleBranch
  <2>8. QED BY <1>1, <2>1, <2>2, <2>3, <2>4, <2>5, <2>6, <2>7 DEF Step
<1>2. CASE Finish BY <1>2 DEF Finish
<1>3. CASE UNCHANGED vars BY <1>3 DEF vars
<1>4. ASSUME NEW w \in Worker, NEW b, branch' = [branch EXCEPT ![w][top_cp[w]] = b],
             Now(w, top_cp[w]), NEW v \in Worker, NEW m \in Node
      PROVE  branch'[v][m] = branch[v][m] \/ Now(v, m)
  <2>. HIDE DEF Now
  <2>1. CASE v = w /\ m = top_cp[w] BY <1>4, <2>1
  <2>2. CASE v # w \/ m # top_cp[w] BY <1>0, <1>4, <2>2
  <2>3. QED BY <2>1, <2>2
<1>5. QED BY <1>1, <1>2, <1>3, <1>4 DEF Next, Over

LEMMA AgreeKept ==
  ASSUME Inv, BranchesAgree, [Next]_vars, ~ \E p, q \in Worker : Share(p, q)
  PROVE  BranchesAgree'
<1>. SUFFICES ASSUME ~ astray', NEW n \in Node, NEW m \in Node, Younger(n, m),
                     NEW i \in members'[n], NEW j \in members'[n], i \in members'[m]
              PROVE  j \in members'[m] /\ branch'[i][m].alt = branch'[j][m].alt
  BY DEF BranchesAgree, Younger
<1>1. ~ astray /\ members \in [Node -> SUBSET Worker] BY AstrayKept DEF Inv, TreeInv, TypeOK
<1>2. members'[n] \subseteq members[n] /\ members'[m] \subseteq members[m]
  <2>1. ASSUME NEW w \in Worker, MoveStep(w), NEW k \in Node PROVE members'[k] \subseteq members[k]
    BY <1>1, <2>1, MoveShape DEF Without
  <2>2. QED BY <2>1, StepMembers
<1>3. j \in members'[m]
  BY ShapeStep DEF ShapeInv, AgreeInv, Younger
<1>4. ASSUME NEW v \in members'[n] PROVE v \in Worker /\ branch'[v][m] = branch[v][m]
  <2>1. v \in Worker /\ v \in members[n] BY <1>1, <1>2
  <2>2. CASE m = top_cp[v] /\ pc[v] \in {"fail", "work", "idle", "request"} BY <2>1, <2>2, MemberFacts DEF Inv
  <2>3. QED BY <2>1, <2>2, BranchCases
<1>5. branch[i][m].alt = branch[j][m].alt BY <1>1, <1>2 DEF BranchesAgree
<1>6. QED BY <1>3, <1>4, <1>5

\* Sharing changes branches in the new frames and those of q; in the frames
\* that they share then, both are in the same branch.
LEMMA ShareBranches ==
  ASSUME Inv, BranchesAgree, NEW p \in Worker, NEW q \in Worker, Share(p, q)
  PROVE  /\ \A v \in Worker, k \in Node \ Private(p) : v # q => branch'[v][k] = branch[v][k]
         /\ \A k \in Node \ Private(p) : Younger(k, top_cp[q]) \/ branch'[q][k] = branch[q][k]
         /\ astray' \/ \A k \in Node : p \in members'[k] => branch'[p][k].alt = branch'[q][k].alt
<1>. DEFINE top == top_cp[q]
<1>1. ~ astray' => ~ astray /\ branch[q][top].alt = branch[p][top].alt BY DEF Share
<1>2. /\ p # q /\ members \in [Node -> SUBSET Worker] /\ members' \in [Node -> SUBSET Worker]
      /\ branch' = SharedBranches(p, q) /\ top \in Node /\ top_cp[p] \in Node
      /\ Stack(p) \in SUBSET Node
  <2>1. p # q /\ members' \in [Node -> SUBSET Worker] BY ShareFacts
  <2>2. branch' = SharedBranches(p, q) BY DEF Share
  <2>3. /\ members \in [Node -> SUBSET Worker] /\ top \in Node /\ top_cp[p] \in Node
        /\ Stack(p) \in SUBSET Node
    BY StackFacts DEF Inv, TreeInv, ShapeInv, TypeOK
  <2>4. QED BY <2>1, <2>2, <2>3
<1>3. ASSUME NEW v \in Worker, v # q, NEW k \in Node, k \notin Private(p)
      PROVE  branch'[v][k] = branch[v][k]
  BY <1>2, <1>3 DEF SharedBranches
<1>4. ASSUME NEW k \in Node, p \in members'[k], ~ astray'
      PROVE  branch'[p][k].alt = branch'[q][k].alt
  <2>1. k \in Stack(p) BY <1>4, ShareFacts
  <2>2. CASE k \in Private(p) BY <1>2, <2>2 DEF SharedBranches
  <2>3. CASE k \notin Private(p) /\ Younger(k, top)
    <3>1. branch'[q][k] = branch[p][k] BY <1>2, <2>1, <2>3 DEF SharedBranches
    <3>2. QED BY <1>2, <1>3, <2>3, <3>1
  <2>4. CASE k \notin Private(p) /\ ~ Younger(k, top)
    <3>1. branch'[q][k] = branch[q][k] BY <1>2, <2>4 DEF SharedBranches
    <3>2. top \in Stack(p) /\ p \in members[top] /\ q \in members[top] BY ShareFacts
    <3>3. k = top \/ Younger(top, k)
      BY <1>2, <2>1, <2>4, <3>2, StackFacts DEF Inv, TreeInv, ShapeInv, AtOrUnder, Younger
    <3>4. CASE k = top BY <1>1, <1>2, <1>3, <1>4, <2>4, <3>1, <3>4
    <3>5. CASE Younger(top, k)
      <4>1. AtOrUnder(top_cp[p], k)
        <5>1. ~ Younger(k, top_cp[p]) BY <2>1, <2>4, ShareFacts
        <5>2. QED BY <2>1, <5>1, StackFacts DEF Inv, TreeInv, ShapeInv
      <4>2. p \in members[k] BY <2>1, <4>1, MemberFacts DEF Inv
      <4>3. branch[p][k].alt = branch[q][k].alt BY <1>1, <1>2, <1>4, <3>2, <3>5, <4>2 DEF BranchesAgree
      <4>4. QED BY <1>2, <1>3, <2>4, <3>1, <4>3
    <3>6. QED BY <3>3, <3>4, <3>5
  <2>5. QED BY <2>2, <2>3, <2>4
<1>5. ASSUME NEW k \in Node \ Private(p) PROVE Younger(k, top) \/ branch'[q][k] = branch[q][k]
  BY <1>2 DEF SharedBranches
<1>6. QED BY <1>3, <1>4, <1>5

LEMMA AgreeShare ==
  ASSUME Inv, BranchesAgree, NEW p \in Worker, NEW q \in Worker, Share(p, q)
  PROVE  BranchesAgree'
<1>. SUFFICES ASSUME ~ astray', NEW n \in Node, NEW m \in Node, Younger(n, m),
                     NEW i \in members'[n], NEW j \in members'[n], i \in members'[m]
              PROVE  j \in members'[m] /\ branch'[i][m].alt = branch'[j][m].alt
  BY DEF BranchesAgree, Younger
<1>1. ~ astray /\ p # q BY ShareFacts DEF Share
<1>2. members \in [Node -> SUBSET Worker] /\ members' \in [Node -> SUBSET Worker]
  BY ShareFacts DEF Inv, TreeInv, TypeOK
<1>3. ASSUME NEW v \in Worker, v # q, NEW k \in Node, k \notin Private(p)
      PROVE  branch'[v][k] = branch[v][k]
  BY <1>3, ShareBranches
<1>4. ASSUME NEW k \in Node, p \in members'[k]
      PROVE  branch'[p][k].alt = branch'[q][k].alt
  BY <1>4, ShareBranches
<1>5. j \in members'[m] BY ShareShape DEF ShapeInv, AgreeInv, Younger
<1>6. ASSUME NEW v \in members'[n], v \in members'[m]
      PROVE  \E u \in members'[n] : /\ u \in Worker /\ u # q /\ u \in members'[m]
                                    /\ branch'[u][m].alt = branch'[v][m].alt
  <2>1. CASE v = q
    <3>1. p \in members'[n] /\ p \in members'[m] BY <1>6, <2>1, ShareFacts
    <3>2. branch'[p][m].alt = branch'[q][m].alt BY <1>4, <3>1
    <3>3. QED BY <1>1, <1>2, <2>1, <3>1, <3>2
  <2>2. CASE v # q BY <1>2, <1>6, <2>2
  <2>3. QED BY <2>1, <2>2
<1>7. ASSUME NEW x \in Worker, NEW y \in Worker, x # q, y # q,
             x \in members'[n], y \in members'[n], x \in members'[m], y \in members'[m]
      PROVE  branch'[x][m].alt = branch'[y][m].alt
  <2>1. CASE m \in Private(p) \/ n \in Private(p)
    BY <1>7, <2>1, ShareFacts
  <2>2. CASE m \notin Private(p) /\ n \notin Private(p)
    <3>0. \A k \in Node \ Private(p) : members'[k] = members[k] \/ members'[k] = members[k] \cup {q}
      BY ShareFacts, ZenonT(30)
    <3>1. x \in members[n] /\ y \in members[n] /\ x \in members[m]
      BY <1>7, <2>2, <3>0
    <3>2. branch[x][m].alt = branch[y][m].alt BY <1>1, <3>1 DEF BranchesAgree
    <3>3. QED BY <1>3, <1>7, <2>2, <3>2
  <2>3. QED BY <2>1, <2>2
<1>8. QED BY <1>5, <1>6, <1>7

\* Sharing copies the branches of the sharer, and a branch changes only in
\* the top frame: two workers in a frame are in the same branch above it.
LEMMA AgreeStep == Inv /\ BranchesAgree /\ [Next]_vars => BranchesAgree'
  BY AgreeKept, AgreeShare

-----------------------------------------------------------------------------
(***************************************************************************)
(* The pending prunes: what keeps an idle worker that moves to the branch  *)
(* of another from moving to the right of one.                             *)
(***************************************************************************)

Resting == {"idle", "request", "ask"}

\* In frame n worker i counts by the place it takes when it gets work: it
\* rests there, or is being given its share of it.
Excused(i, n) == \/ pc[i] \in Resting /\ n = top_cp[i]
                 \/ Given(i) /\ Younger(n, top_cp[i])

\* A frame with a pending prune has no alternatives left.
KeptInv == \A n \in Node : pend[n] # None => alternative[n] = NULL

IdleAt(w) ==
  /\ pc[w] \in Resting => w \in idle
  /\ pc[w] \in {"carry", "put"} /\ back[w] = "idle" => w \in idle
  /\ pc[w] \in Moved \cup {"cut", "lock", "send"} => back[w] \in {"exit", "fail"}
IdleInv == \A w \in Worker : IdleAt(w)

\* Until the copy is installed, the two that share are in the same branches,
\* and nobody else is in the new frames before the tops are set.
CopyInv == \A p \in Worker :
  /\ pc[p] = "share" => \A n \in Node :
       p \in members[n] /\ Younger(n, top_cp[p]) => members[n] = {p, partner[p]}
  /\ pc[p] \in {"share", "forward"} => astray \/ \A n \in Node :
       p \in members[n] => branch[p][n].alt = branch[partner[p]][n].alt

\* Who is to the right of a pending prune has a request to leave the frame.
Called(i, n) == prune_request[i] # None /\ Younger(n, prune_request[i])
Covered(i, n) == branch[i][n].alt <= pend[n].alt \/ Excused(i, n) \/ Called(i, n)
CoverInv == astray \/ \A n \in Node : pend[n] # None => \A i \in members[n] : Covered(i, n)

SafeInv == Inv /\ BranchesAgree /\ KeptInv /\ IdleInv /\ CopyInv /\ CoverInv

\* SafePosition is what they say of an idle worker and one that is not.
LEMMA CoverIsSafe == SafeInv => SafePosition
<1>. SUFFICES ASSUME SafeInv, ~ astray, NEW q \in Worker, NEW p \in Worker,
                     pc[q] \in {"idle", "request"},
                     p \in members[top_cp[q]] \ idle, prune_request[p] = None,
                     pend[top_cp[q]] # None
              PROVE  branch[p][top_cp[q]].alt <= pend[top_cp[q]].alt
  BY DEF SafePosition
<1>1. top_cp[q] \in Node BY DEF SafeInv, Inv, TreeInv, TypeOK
<1>2. Covered(p, top_cp[q]) BY <1>1 DEF SafeInv, CoverInv
<1>3. pc[p] \notin Resting BY DEF SafeInv, IdleInv, IdleAt
<1>4. ~ Given(p) BY <1>3 DEF Resting, SafeInv, Inv, TreeInv, ShapeInv, HandInv, Given
<1>5. QED BY <1>2, <1>3, <1>4 DEF Covered, Excused, Called

LEMMA KeptStep ==
  ASSUME Inv, KeptInv, [Next]_vars
  PROVE  KeptInv'
<1>. SUFFICES ASSUME NEW n \in Node, pend'[n] # None PROVE alternative'[n] = NULL
  BY DEF KeptInv
<1>0. /\ alternative \in [Node -> Nat] /\ pend \in [Node -> {None} \cup [cp : Node, alt : Nat]]
      /\ prune_request \in [Worker -> Node \cup {None}]
  BY DEF Inv, TreeInv, TypeOK
<1>1. ASSUME NEW w \in Worker, CutStore(w), ~ BeingLeftmost(w), pc[w] = "store", n = cut[w].left,
             pend'[n] # pend[n]
      PROVE  alternative'[n] = NULL
  BY <1>0, <1>1 DEF CutStore
<1>2. CASE pend[n] # None
  <2>1. alternative[n] = NULL BY <1>2 DEF KeptInv
  <2>2. ASSUME NEW w \in Worker, PlainStep(w) \/ MoveStep(w) PROVE alternative'[n] = NULL
    BY <2>1, <2>2, PlainWork, MoveWork
  <2>3. ASSUME NEW w \in Worker, EngineStep(w) \/ SetTops(w) PROVE alternative'[n] = NULL
    BY <2>1, <2>3 DEF EngineStep, Try, Cut, Retry, CheckPruneRequest, SetTops, frames
  <2>4. ASSUME NEW p \in Worker, NEW q \in Worker, Share(p, q) PROVE alternative'[n] = NULL
    <3>1. n \notin Private(p) BY <1>2, <2>4, ShareFacts DEF Inv, PendInv
    <3>2. alternative'[n] = alternative[n] BY <2>4, <3>1 DEF Share
    <3>3. QED BY <2>1, <3>2
  <2>5. CASE OtherStep
    <3>1. ASSUME NEW w \in Worker, GetAlternative(w) PROVE alternative'[n] = NULL
      BY <1>0, <2>1, <3>1 DEF GetAlternative
    <3>2. ASSUME NEW w \in Worker, NEW u \in Worker,
                 PutIdle(w) \/ Choosing(w, u) \/ Refuse(w, u) \/ Forward(w)
          PROVE  alternative'[n] = NULL
      BY <2>1, <3>2 DEF PutIdle, Choosing, Choose, TakeBranch, TakeIdleBranch, Refuse, Forward,
         frames
    <3>3. CASE Finish \/ UNCHANGED vars BY <2>1, <3>3 DEF Finish, vars, frames
    <3>4. QED BY <2>5, <3>1, <3>2, <3>3 DEF OtherStep
  <2>6. QED BY <2>2, <2>3, <2>4, <2>5, StepCases
<1>3. QED BY <1>1, <1>2, PendCases

LEMMA IdleKept ==
  ASSUME NEW v \in Worker, IdleAt(v), back'[v] = back[v], v \in idle => v \in idle',
         \/ pc'[v] = pc[v]
         \/ pc[v] \in Resting /\ pc'[v] \in Resting \cup {"fail", "end"}
         \/ pc'[v] \in {"run", "exit", "fail", "share", "forward", "answer", "scan", "prune", "work"}
         \/ pc'[v] \in Moved \cup {"cut", "lock", "send"} /\ pc[v] \in Moved \cup {"cut", "lock", "send"}
  PROVE  IdleAt(v)'
BY DEF IdleAt, Resting, Moved

\* The others keep what is said of them when w goes on.
LEMMA IdleOthers ==
  ASSUME Inv, IdleInv, NEW w \in Worker, Step(w), NEW v \in Worker \ {w}
  PROVE  IdleAt(v)'
<1>0. /\ pc \in [Worker -> Locations] /\ back \in [Worker -> {"fail", "exit", "work", "idle"}]
      /\ IdleAt(v)
  BY DEF Inv, TreeInv, TypeOK, IdleInv
<1>1. ASSUME back' = back \/ \E b : back' = [back EXCEPT ![w] = b],
             pc' = pc \/ \E l : pc' = [pc EXCEPT ![w] = l],
             idle \ {w} \subseteq idle'
      PROVE  IdleAt(v)'
  BY <1>0, <1>1, IdleKept
<1>2. CASE \/ Try(w) \/ Call(w) \/ Exit(w) \/ Retry(w) \/ GetAlternative(w)
           \/ EnterScheduler(w) \/ CheckPruneRequest(w) \/ NewAnswer(w) \/ StoreAnswer(w)
  BY <1>1, <1>2 DEF Try, Call, Exit, Retry, GetAlternative, EnterScheduler, CheckPruneRequest,
    NewAnswer, StoreAnswer, Goto, locals
<1>3. CASE Cut(w)
  <2>1. back' = back \/ \E b : back' = [back EXCEPT ![w] = b] BY <1>3 DEF Cut
  <2>2. \E l : pc' = [pc EXCEPT ![w] = l] BY <1>3 DEF Cut
  <2>3. idle' = idle BY <1>3 DEF Cut
  <2>4. QED BY <1>1, <2>1, <2>2, <2>3
<1>4. CASE \/ LockToSend(w) \/ Send(w) \/ CutUp(w)
           \/ LookUp(w) \/ CutMore(w) \/ SendMore(w) \/ StopMore(w) \/ NextMore(w) \/ EndCut(w)
  BY <1>1, <1>4 DEF LockToSend, Send, CutUp, LookUp, CutMore, SendMore, StopMore, NextMore,
    EndCut, Goto, locals
<1>5. CASE BeginCut(w) \/ CutStore(w)
  <2>1. back' = back /\ idle \ {w} \subseteq idle' BY <1>5 DEF BeginCut, CutStore
  <2>2. \E l : pc' = [pc EXCEPT ![w] = l] BY <1>5 DEF BeginCut, CutStore, Goto
  <2>3. QED BY <1>1, <2>1, <2>2
<1>6. CASE \/ PruneUp(w) \/ Scan(w) \/ DoPending(w) \/ MoveUp(w)
           \/ FindLeftmost(w) \/ PutAnswers(w) \/ GiveUp(w) \/ \E u \in Worker : Choosing(w, u)
  BY <1>1, <1>6 DEF PruneUp, Scan, DoPending, MoveUp, FindLeftmost, PutAnswers, GiveUp,
    Choosing, Choose, TakeBranch, TakeIdleBranch, Goto, locals
<1>7. CASE MoveUpLast(w)
  <2>1. /\ idle' = idle /\ \E b : back' = [back EXCEPT ![w] = b]
        /\ \E l : pc' = [pc EXCEPT ![w] = l]
    BY <1>7 DEF MoveUpLast
  <2>2. QED BY <1>1, <2>1
<1>8. CASE PutIdle(w)
  <2>1. pc'[v] = pc[v] \/ (pc[v] = "ask" /\ pc'[v] = "idle") BY <1>8 DEF PutIdle
  <2>2. back' = back /\ idle \subseteq idle' BY <1>8 DEF PutIdle, locals
  <2>3. QED BY <1>0, <2>1, <2>2, IdleKept DEF Resting
<1>9. ASSUME NEW u \in Worker, Refuse(w, u) PROVE IdleAt(v)'
  <2>1. pc'[v] = pc[v] \/ (pc[v] = "ask" /\ pc'[v] = "idle") BY <1>0, <1>9 DEF Refuse, Goto
  <2>2. back' = back /\ idle \subseteq idle' BY <1>9 DEF Refuse, locals
  <2>3. QED BY <1>0, <2>1, <2>2, IdleKept DEF Resting
<1>10. ASSUME NEW u \in Worker, Share(w, u) PROVE IdleAt(v)'
  BY <1>1, <1>10 DEF Share, Goto
<1>11. CASE SetTops(w) BY <1>1, <1>11 DEF SetTops, Goto, locals
<1>12. CASE Forward(w)
  <2>0. PICK q \in Worker : q = partner[w] BY DEF Inv, TreeInv, TypeOK
  <2>1. back' = back /\ idle' = idle \ {q} BY <1>12, <2>0 DEF Forward, locals
  <2>2. pc' = [pc EXCEPT ![w] = "run", ![q] = "fail"] BY <1>12, <2>0 DEF Forward
  <2>3. CASE v = q
    <3>1. pc'[v] = "fail" BY <1>0, <2>2, <2>3
    <3>2. QED BY <3>1 DEF IdleAt, Resting, Moved
  <2>4. CASE v # q
    <3>1. pc'[v] = pc[v] /\ (v \in idle => v \in idle') BY <1>0, <2>1, <2>2, <2>4
    <3>2. QED BY <1>0, <2>1, <3>1, IdleKept
  <2>5. QED BY <2>3, <2>4
<1>13. QED BY <1>2, <1>3, <1>4, <1>5, <1>6, <1>7, <1>8, <1>9, <1>10, <1>11, <1>12 DEF Step, Choosing

LEMMA IdleOwn ==
  ASSUME Inv, IdleInv, NEW w \in Worker, Step(w)
  PROVE  IdleAt(w)'
<1>0. /\ pc \in [Worker -> Locations] /\ back \in [Worker -> {"fail", "exit", "work", "idle"}]
      /\ IdleAt(w)
  BY DEF Inv, TreeInv, TypeOK, IdleInv
<1>1. ASSUME pc'[w] \in {"run", "exit", "fail", "share", "forward", "answer", "scan", "prune", "work"}
      PROVE  IdleAt(w)'
  BY <1>1 DEF IdleAt, Resting, Moved
<1>2. CASE \/ Try(w) \/ Call(w) \/ Exit(w) \/ Retry(w) \/ GetAlternative(w)
           \/ EnterScheduler(w) \/ CheckPruneRequest(w) \/ NewAnswer(w) \/ StoreAnswer(w)
  BY <1>0, <1>1, <1>2 DEF Try, Call, Exit, Retry, GetAlternative, EnterScheduler, CheckPruneRequest,
    NewAnswer, StoreAnswer, Goto
<1>3. CASE Cut(w)
  <2>1. \/ pc'[w] \in {"exit", "fail"}
        \/ pc'[w] = "cut" /\ back'[w] \in {"exit", "fail"}
    BY <1>0, <1>3 DEF Cut
  <2>2. QED BY <1>1, <2>1 DEF IdleAt, Resting, Moved
<1>4. CASE BeginCut(w)
  <2>1. back' = back /\ pc[w] = "cut" /\ back[w] \in {"exit", "fail"}
    BY <1>0, <1>4 DEF BeginCut, IdleAt
  <2>2. pc'[w] = "lock" \/ pc'[w] = back[w] BY <1>0, <1>4 DEF BeginCut, Goto
  <2>3. QED BY <1>1, <2>1, <2>2 DEF IdleAt, Resting, Moved
<1>5. CASE \/ LockToSend(w) \/ Send(w) \/ CutUp(w) \/ CutStore(w) \/ LookUp(w) \/ CutMore(w)
           \/ SendMore(w) \/ StopMore(w) \/ NextMore(w)
  <2>1. back' = back
    BY <1>5 DEF LockToSend, Send, CutUp, CutStore, LookUp, CutMore, SendMore, StopMore, NextMore, locals
  <2>2. pc[w] \in Moved \cup {"cut", "lock", "send"} /\ pc'[w] \in Moved \cup {"cut", "lock", "send"}
    BY <1>0, <1>5 DEF LockToSend, Send, CutUp, CutStore, LookUp, CutMore, SendMore, StopMore,
      NextMore, Goto, NextUp, Moved
  <2>3. back[w] \in {"exit", "fail"} BY <1>0, <2>2 DEF IdleAt
  <2>4. QED BY <2>1, <2>2, <2>3 DEF IdleAt, Resting, Moved
<1>6. CASE EndCut(w)
  <2>1. pc[w] = "done" /\ pc'[w] = back[w] BY <1>0, <1>6 DEF EndCut, Goto
  <2>2. QED BY <1>0, <1>1, <2>1 DEF IdleAt, Moved
<1>7. CASE PruneUp(w) \/ Scan(w)
  BY <1>0, <1>1, <1>7 DEF PruneUp, Scan, Goto
<1>8. CASE PutIdle(w)
  <2>1. pc'[w] = "idle" /\ w \in idle' BY <1>8 DEF PutIdle
  <2>2. QED BY <2>1 DEF IdleAt, Resting, Moved
<1>9. CASE DoPending(w)
  <2>1. pc'[w] = "cut" /\ back'[w] = "fail" BY <1>0, <1>9 DEF DoPending
  <2>2. QED BY <2>1 DEF IdleAt, Resting, Moved
<1>10. CASE MoveUp(w)
  <2>1. /\ pc[w] \in {"work", "idle"} /\ pc'[w] \in {"fail", pc[w]} /\ idle' = idle /\ back' = back
    BY <1>0, <1>10 DEF MoveUp, MayMove, Arrived, locals
  <2>2. QED BY <1>0, <1>1, <2>1 DEF IdleAt, Resting, Moved
<1>11. CASE MoveUpLast(w)
  <2>1. /\ pc[w] \in {"work", "idle"} /\ idle' = idle
        /\ \E a \in {"fail", pc[w]} : back'[w] = a /\ pc'[w] \in {a, "carry"}
    BY <1>0, <1>11 DEF MoveUpLast, MayMove, Arrived
  <2>2. QED BY <1>0, <1>1, <2>1 DEF IdleAt, Resting, Moved
<1>12. CASE FindLeftmost(w)
  <2>1. pc[w] = "carry" /\ pc'[w] = "put" /\ back' = back /\ idle' = idle
    BY <1>0, <1>12 DEF FindLeftmost, Goto
  <2>2. QED BY <1>0, <2>1 DEF IdleAt, Resting, Moved
<1>13. CASE PutAnswers(w)
  <2>1. pc[w] = "put" /\ pc'[w] = back[w] /\ back' = back /\ idle' = idle
    BY <1>0, <1>13 DEF PutAnswers, Goto
  <2>2. QED BY <1>0, <2>1 DEF IdleAt, Resting, Moved
<1>14. CASE GiveUp(w) \/ \E u \in Worker : Choosing(w, u)
  <2>1. pc[w] \in {"idle", "request"} /\ pc'[w] \in Resting /\ back' = back /\ idle' = idle
    BY <1>0, <1>14 DEF GiveUp, Choosing, Choose, TakeBranch, TakeIdleBranch, Goto, Resting, locals
  <2>2. QED BY <1>0, <2>1, IdleKept DEF Resting
<1>15. ASSUME NEW u \in Worker, Refuse(w, u) PROVE IdleAt(w)'
  <2>1. u # w BY <1>15 DEF Refuse, Goto
  <2>2. pc[w] = "run" /\ pc'[w] = "run" BY <1>0, <1>15, <2>1 DEF Refuse, Goto
  <2>3. QED BY <1>1, <2>2
<1>16. CASE SetTops(w) \/ Forward(w) \/ \E u \in Worker : Share(w, u)
  <2>1. CASE Forward(w)
    <3>0. PICK q \in Worker : q = partner[w] BY DEF Inv, TreeInv, TypeOK
    <3>1. pc' = [pc EXCEPT ![w] = "run", ![q] = "fail"] BY <2>1, <3>0 DEF Forward
    <3>2. pc'[w] \in {"run", "fail"} BY <1>0, <3>1
    <3>3. QED BY <1>1, <3>2
  <2>2. CASE SetTops(w) \/ \E u \in Worker : Share(w, u)
    BY <1>0, <1>1, <2>2 DEF SetTops, Share, Goto
  <2>3. QED BY <1>16, <2>1, <2>2
<1>17. QED BY <1>2, <1>3, <1>4, <1>5, <1>6, <1>7, <1>8, <1>9, <1>10, <1>11, <1>12, <1>13, <1>14,
              <1>15, <1>16 DEF Step, Choosing

LEMMA IdleStep ==
  ASSUME Inv, IdleInv, [Next]_vars
  PROVE  IdleInv'
<1>. SUFFICES ASSUME NEW v \in Worker PROVE IdleAt(v)'
  BY DEF IdleInv
<1>1. ASSUME NEW w \in Worker, Step(w) PROVE IdleAt(v)'
  BY <1>1, IdleOthers, IdleOwn
<1>2. CASE Finish
  <2>1. pc'[v] = "end" BY <1>2 DEF Finish
  <2>2. QED BY <2>1 DEF IdleAt, Resting, Moved
<1>3. CASE UNCHANGED vars
  <2>1. pc' = pc /\ back' = back /\ idle' = idle BY <1>3 DEF vars, locals
  <2>2. QED BY <2>1, IdleKept DEF IdleInv
<1>4. QED BY <1>1, <1>2, <1>3 DEF Next, Over

LEMMA CopyCases ==
  ASSUME Inv, [Next]_vars, NEW p \in Worker, pc'[p] \in {"share", "forward"}
  PROVE  \/ \E q \in Worker : Share(p, q)
         \/ SetTops(p)
         \/ pc[p] = pc'[p] /\ partner'[p] = partner[p] /\ top_cp'[p] = top_cp[p]
<1>0. /\ pc \in [Worker -> Locations] /\ partner \in [Worker -> Worker] /\ top_cp \in [Worker -> Node]
  BY DEF Inv, TreeInv, TypeOK
<1>1. ASSUME NEW w \in Worker, PlainStep(w)
      PROVE  pc[p] = pc'[p] /\ partner'[p] = partner[p] /\ top_cp'[p] = top_cp[p]
  BY <1>1, PlainSteps
<1>2. ASSUME NEW w \in Worker, EngineStep(w)
      PROVE  pc[p] = pc'[p] /\ partner'[p] = partner[p] /\ top_cp'[p] = top_cp[p]
  <2>1. CASE Try(w) BY <2>1 DEF Try, locals
  <2>2. CASE Cut(w)
    <3>1. \E l \in {"cut", "exit", "fail"} : pc' = [pc EXCEPT ![w] = l] BY <2>2 DEF Cut
    <3>2. QED BY <1>0, <2>2, <3>1 DEF Cut
  <2>3. CASE Retry(w) \/ CheckPruneRequest(w)
    BY <1>0, <2>3 DEF Retry, CheckPruneRequest, Goto, locals
  <2>4. QED BY <1>2, <2>1, <2>2, <2>3 DEF EngineStep
<1>3. ASSUME NEW w \in Worker, MoveStep(w)
      PROVE  pc[p] = pc'[p] /\ partner'[p] = partner[p] /\ top_cp'[p] = top_cp[p]
  <2>1. p # w BY <1>3, MoveShape
  <2>2. QED BY <1>0, <1>3, <2>1, MoveShape DEF Pop
<1>4. ASSUME NEW w \in Worker, SetTops(w), w # p
      PROVE  pc[p] = pc'[p] /\ partner'[p] = partner[p] /\ top_cp'[p] = top_cp[p]
  <2>0. PICK u \in Worker : u = partner[w] BY <1>0
  <2>1. /\ w # u /\ pc[u] = "ask" /\ pc' = [pc EXCEPT ![w] = "forward"] /\ partner' = partner
        /\ \A v \in Worker \ {w, u} : top_cp'[v] = top_cp[v]
    BY <1>4, <2>0, SetTopsFacts DEF Inv
  <2>2. p # u BY <1>0, <1>4, <2>1
  <2>3. QED BY <1>0, <1>4, <2>1, <2>2
<1>5. ASSUME NEW w \in Worker, NEW q \in Worker, Share(w, q), w # p
      PROVE  pc[p] = pc'[p] /\ partner'[p] = partner[p] /\ top_cp'[p] = top_cp[p]
  BY <1>0, <1>5 DEF Share, Goto
<1>6. CASE OtherStep
  <2>1. top_cp' = top_cp BY <1>6, OtherSteps
  <2>2. partner'[p] = partner[p] /\ pc'[p] = pc[p]
    <3>1. ASSUME NEW w \in Worker, NEW u \in Worker, GetAlternative(w) \/ Refuse(w, u)
          PROVE  partner'[p] = partner[p] /\ pc'[p] = pc[p]
      BY <1>0, <3>1 DEF GetAlternative, Refuse, Goto, locals
    <3>2. ASSUME NEW w \in Worker, PutIdle(w) PROVE partner'[p] = partner[p] /\ pc'[p] = pc[p]
      BY <1>0, <3>2 DEF PutIdle, locals
    <3>3. ASSUME NEW w \in Worker, NEW u \in Worker, Choosing(w, u)
          PROVE  partner'[p] = partner[p] /\ pc'[p] = pc[p]
      BY <1>0, <3>3 DEF Choosing, Choose, TakeBranch, TakeIdleBranch, Goto, locals
    <3>4. ASSUME NEW w \in Worker, Forward(w) PROVE partner'[p] = partner[p] /\ pc'[p] = pc[p]
      <4>0. PICK u \in Worker : u = partner[w] BY <1>0
      <4>1. pc' = [pc EXCEPT ![w] = "run", ![u] = "fail"] BY <3>4, <4>0 DEF Forward
      <4>2. QED BY <1>0, <3>4, <4>1 DEF Forward, locals
    <3>5. CASE Finish BY <1>0, <3>5 DEF Finish
    <3>6. CASE UNCHANGED vars BY <3>6 DEF vars, locals
    <3>7. QED BY <1>6, <3>1, <3>2, <3>3, <3>4, <3>5, <3>6 DEF OtherStep
  <2>3. QED BY <2>1, <2>2
<1>7. QED BY <1>1, <1>2, <1>3, <1>4, <1>5, <1>6, StepCases

LEMMA CopyStep ==
  ASSUME Inv, BranchesAgree, CopyInv, [Next]_vars
  PROVE  CopyInv'
<1>. SUFFICES ASSUME NEW p \in Worker, pc'[p] \in {"share", "forward"},
                     NEW n \in Node, p \in members'[n]
              PROVE  /\ pc'[p] = "share" /\ Younger(n, top_cp'[p]) => members'[n] = {p, partner'[p]}
                     /\ astray' \/ branch'[p][n].alt = branch'[partner'[p]][n].alt
  BY DEF CopyInv, Younger
<1>0. /\ pc \in [Worker -> Locations] /\ partner \in [Worker -> Worker] /\ top_cp \in [Worker -> Node]
      /\ members \in [Node -> SUBSET Worker]
  BY DEF Inv, TreeInv, TypeOK
<1>1. ASSUME NEW q \in Worker, Share(p, q)
      PROVE  /\ Younger(n, top_cp'[p]) => members'[n] = {p, partner'[p]}
             /\ astray' \/ branch'[p][n].alt = branch'[partner'[p]][n].alt
  <2>1. partner'[p] = q /\ top_cp' = top_cp BY <1>0, <1>1 DEF Share
  <2>2. n \in Stack(p) BY <1>1, ShareFacts
  <2>3. Younger(n, top_cp[p]) => members'[n] = {p, q} BY <1>1, <2>2, ShareFacts
  <2>4. astray' \/ branch'[p][n].alt = branch'[q][n].alt BY <1>1, ShareBranches
  <2>5. QED BY <2>1, <2>3, <2>4
<1>2. CASE SetTops(p)
  <2>1. /\ pc[p] = "share" /\ members' = members /\ partner' = partner
        /\ pc' = [pc EXCEPT ![p] = "forward"]
    BY <1>2, SetTopsFacts DEF Inv
  <2>2. branch' = branch /\ astray' = astray BY <1>2 DEF SetTops, history
  <2>3. pc'[p] = "forward" BY <1>0, <2>1
  <2>4. QED BY <2>1, <2>2, <2>3 DEF CopyInv
<1>3. CASE ~ SetTops(p) /\ ~ \E q \in Worker : Share(p, q)
  <2>0. PICK q \in Worker : q = partner[p] BY <1>0
  <2>1. pc[p] = pc'[p] /\ partner'[p] = q /\ top_cp'[p] = top_cp[p] BY <1>3, <2>0, CopyCases
  <2>2. pc[q] = "ask" /\ partner[q] = p
    BY <2>0, <2>1 DEF Inv, TreeInv, ShapeInv, HandInv
  <2>3. ASSUME NEW u \in Worker, NEW v \in Worker, Share(u, v)
        PROVE  /\ p \in members[n] /\ n \notin Private(u)
               /\ p # v /\ q # v /\ p # u /\ q # u
               /\ u \notin members[n] => members'[n] = members[n]
    <3>1. pc[u] = "run" /\ pc[v] = "ask" /\ partner[v] = u /\ p # u BY <1>3, <2>3, ShareFacts
    <3>2. p # v /\ q # v /\ q # u BY <2>1, <2>2, <3>1
    <3>3. n \notin Private(u) BY <2>3, <3>1, <3>2, ShareFacts
    <3>4. members'[n] = members[n] \/ members'[n] = members[n] \cup {v} BY <2>3, <3>3, ShareFacts
    <3>5. members'[n] = members[n] \cup {v} /\ v \notin members[n] => u \in members[n]
      BY <2>3, <3>3, ShareFacts
    <3>6. QED BY <3>1, <3>2, <3>3, <3>4, <3>5
  <2>4. ASSUME NEW w \in Worker, MoveStep(w)
        PROVE  p \in members[n] /\ (members[n] = {p, q} => members'[n] = members[n])
    <3>1. /\ pc[w] \in {"up", "prune", "work", "idle"}
          /\ members'[n] \in {members[n], members[n] \ {w}}
      BY <1>0, <2>4, MoveShape DEF Without
    <3>2. w # p /\ w # q BY <2>1, <2>2, <3>1
    <3>3. QED BY <3>1, <3>2
  <2>5. p \in members[n] BY <2>3, <2>4, StepMembers
  <2>6. pc[p] = "share" /\ Younger(n, top_cp[p]) => members'[n] = {p, q}
    <3>. SUFFICES ASSUME pc[p] = "share", Younger(n, top_cp[p]) PROVE members'[n] = {p, q}
      OBVIOUS
    <3>1. members[n] = {p, q} BY <2>0, <2>5 DEF CopyInv
    <3>2. QED BY <2>3, <2>4, <3>1, StepMembers
  <2>7. ASSUME NEW v \in {p, q} PROVE branch'[v][n] = branch[v][n]
    <3>1. CASE \E u, x \in Worker : Share(u, x)
      <4>1. PICK u \in Worker, x \in Worker : Share(u, x) BY <3>1
      <4>2. n \notin Private(u) /\ v # x BY <2>3, <4>1
      <4>3. QED BY <4>1, <4>2, ShareBranches
    <3>2. CASE ~ \E u, x \in Worker : Share(u, x)
      <4>1. v \in Worker /\ pc[v] \notin {"fail", "work", "idle", "request"} BY <2>1, <2>2
      <4>2. QED BY <3>2, <4>1, BranchCases
    <3>3. QED BY <3>1, <3>2
  <2>8. astray' \/ branch'[p][n].alt = branch'[q][n].alt
    BY <2>0, <2>1, <2>5, <2>7, AstrayKept DEF CopyInv, Inv, TreeInv
  <2>9. QED BY <2>1, <2>6, <2>8
<1>4. QED BY <1>1, <1>2, <1>3

LEMMA CalledSent ==
  ASSUME TypeOK, NEW j \in Worker, NEW cp \in Node, prune_request' = Sent(j, cp),
         NEW i \in Worker, NEW n \in Node, Called(i, n)
  PROVE  Called(i, n)'
<1>0. prune_request \in [Worker -> Node \cup {None}] BY DEF TypeOK
<1>1. CASE prune_request'[i] = prune_request[i] BY <1>1 DEF Called, Younger
<1>2. CASE prune_request'[i] # prune_request[i]
  <2>1. i = j /\ prune_request'[i] = cp /\ Younger(prune_request[i], cp)
    BY <1>0, <1>2 DEF Sent, Called
  <2>2. prune_request[i] \in Node BY <1>0 DEF Called
  <2>3. Younger(n, cp) BY <2>1, <2>2, UnderFacts DEF Called, Younger, AtOrUnder
  <2>4. QED BY <2>1, <2>3, NoneFacts DEF Called, Younger
<1>3. QED BY <1>1, <1>2

LEMMA CalledReset ==
  ASSUME TypeOK, NEW w \in Worker, NEW t \in Node, prune_request' = Reset(w, t),
         NEW i \in Worker, NEW n \in Node, Called(i, n), i = w => AtOrUnder(t, n)
  PROVE  Called(i, n)'
<1>1. prune_request[i] \in Node BY DEF TypeOK, Called
<1>2. ASSUME i = w, AtOrUnder(prune_request[w], t) PROVE FALSE
  <2>1. AtOrUnder(prune_request[i], n) BY <1>1, <1>2, UnderFacts
  <2>2. QED BY <1>1, <2>1, UnderFacts DEF Called, Younger, AtOrUnder
<1>3. prune_request'[i] = prune_request[i]
  BY <1>2 DEF TypeOK, Reset
<1>4. QED BY <1>3 DEF Called, Younger

\* A worker that stays in a frame keeps the request to leave it.
LEMMA CalledKept ==
  ASSUME Inv, [Next]_vars, NEW i \in Worker, NEW n \in Node,
         i \in members[n], i \in members'[n], Called(i, n)
  PROVE  Called(i, n)'
<1>0. /\ pc \in [Worker -> Locations] /\ partner \in [Worker -> Worker] /\ top_cp \in [Worker -> Node]
      /\ members \in [Node -> SUBSET Worker] /\ prune_request \in [Worker -> Node \cup {None}]
      /\ cut \in [Worker -> CutLocals] /\ TypeOK
  BY DEF Inv, TreeInv, TypeOK
<1>1. CASE prune_request' = prune_request BY <1>1 DEF Called, Younger
<1>2. ASSUME NEW w \in Worker, PlainStep(w) PROVE Called(i, n)'
  <2>1. CASE Send(w)
    <3>0. PICK j \in cut[w].todo :
            prune_request' = Sent(j, IF BeingLeftmost(w) THEN SendFrame(w) ELSE CpB(w, SendFrame(w)))
      BY <2>1 DEF Send
    <3>1. pc[w] = "send" BY <2>1 DEF Send, Goto
    <3>2. j \in Worker BY <1>0 DEF CutLocals
    <3>3. SendFrame(w) \in Node /\ (~ BeingLeftmost(w) => CpB(w, SendFrame(w)) \in Node)
      BY <3>1, SendFacts
    <3>4. PICK cp \in Node : prune_request' = Sent(j, cp) BY <3>0, <3>3
    <3>5. QED BY <1>0, <3>2, <3>4, CalledSent
  <2>2. CASE SendMore(w)
    <3>0. PICK j \in cut[w].todo : prune_request' = Sent(j, CpB(w, cut[w].frame))
      BY <2>2 DEF SendMore
    <3>1. pc[w] = "send_more" BY <2>2 DEF SendMore
    <3>2. j \in Worker BY <1>0 DEF CutLocals
    <3>3. CpB(w, cut[w].frame) \in Node BY <3>1, SendFacts
    <3>4. QED BY <1>0, <3>0, <3>2, <3>3, CalledSent
  <2>3. CASE EndCut(w)
    <3>1. pc[w] = "done" /\ prune_request' = Reset(w, top_cp[w]) BY <2>3 DEF EndCut, Goto
    <3>2. i = w => AtOrUnder(top_cp[w], n) BY <3>1, MemberFacts DEF Inv
    <3>3. QED BY <1>0, <3>1, <3>2, CalledReset
  <2>4. CASE \/ Call(w) \/ Exit(w) \/ EnterScheduler(w) \/ NewAnswer(w) \/ StoreAnswer(w)
             \/ BeginCut(w) \/ LockToSend(w) \/ CutStore(w) \/ LookUp(w) \/ CutMore(w)
             \/ StopMore(w) \/ NextMore(w) \/ Scan(w) \/ DoPending(w) \/ FindLeftmost(w)
             \/ PutAnswers(w) \/ GiveUp(w)
    BY <1>1, <2>4 DEF Call, Exit, EnterScheduler, NewAnswer, StoreAnswer, BeginCut, LockToSend,
      CutStore, LookUp, CutMore, StopMore, NextMore, Scan, DoPending, FindLeftmost, PutAnswers, GiveUp
  <2>5. QED BY <1>2, <2>1, <2>2, <2>3, <2>4 DEF PlainStep
<1>3. ASSUME NEW w \in Worker, MoveStep(w) PROVE Called(i, n)'
  <2>0. /\ top_cp[w] # Root /\ pc[w] \in {"up", "prune", "work", "idle"}
        /\ Pop(w, top_cp[w]) /\ members' = Without(w, top_cp[w])
    BY <1>3, MoveShape
  <2>1. CpB(w, top_cp[w]) \in Node BY <1>0, <2>0, CpBFacts DEF Inv, TreeInv, ShapeInv
  <2>2. i = w => AtOrUnder(CpB(w, top_cp[w]), n)
    <3>1. pc[w] \notin InEngine /\ pc[w] # "ask" BY <2>0 DEF InEngine
    <3>2. \A m \in Stack(w) : m # top_cp[w] => AtOrUnder(CpB(w, top_cp[w]), m)
      BY <2>0, <3>1, PopFacts DEF Inv
    <3>3. i = w => n # top_cp[w] BY <1>0, <2>0 DEF Without
    <3>4. i = w => n \in Stack(w) BY <2>0, <3>1, PopFacts DEF Inv
    <3>5. QED BY <3>2, <3>3, <3>4
  <2>3. prune_request' = prune_request \/ prune_request' = Reset(w, CpB(w, top_cp[w]))
    BY <1>3 DEF MoveStep, CutUp, PruneUp, MoveUp, MoveUpLast
  <2>4. QED BY <1>0, <1>1, <2>1, <2>2, <2>3, CalledReset
<1>4. ASSUME NEW w \in Worker, NEW u \in Worker, Choosing(w, u) PROVE Called(i, n)'
  <2>1. /\ pc[w] \in {"idle", "request"}
        /\ prune_request' = prune_request \/ prune_request' = Reset(w, top_cp[w])
    BY <1>4 DEF Choosing, Choose, TakeBranch, TakeIdleBranch, Goto
  <2>2. i = w => AtOrUnder(top_cp[w], n) BY <2>1, MemberFacts DEF Inv
  <2>3. QED BY <1>0, <1>1, <2>1, <2>2, CalledReset
<1>5. ASSUME NEW w \in Worker, SetTops(w) PROVE Called(i, n)'
  <2>0. PICK q \in Worker : q = partner[w] BY <1>0
  <2>1. CASE prune_request' = [prune_request EXCEPT ![q] = prune_request[w]]
             /\ prune_request[w] # None
             /\ (prune_request[q] # None => Younger(prune_request[q], prune_request[w]))
    <3>1. CASE i = q
      <4>1. /\ prune_request'[i] = prune_request[w] /\ prune_request[i] \in Node
            /\ prune_request[w] \in Node
        BY <1>0, <2>1, <3>1 DEF Called
      <4>2. Younger(n, prune_request[w])
        BY <2>1, <3>1, <4>1, UnderFacts DEF Called, Younger, AtOrUnder
      <4>3. QED BY <4>1, <4>2, NoneFacts DEF Called, Younger
    <3>2. CASE i # q BY <1>0, <2>1, <3>2 DEF Called, Younger
    <3>3. QED BY <3>1, <3>2
  <2>2. QED BY <1>1, <1>5, <2>0, <2>1 DEF SetTops
<1>6. ASSUME NEW w \in Worker, Forward(w) PROVE Called(i, n)'
  <2>0. PICK q \in Worker : q = partner[w] BY <1>0
  <2>1. CASE prune_request[w] # None
    <3>1. PICK r \in Node : r = prune_request[w] BY <1>0, <2>1
    <3>2. prune_request' = Sent(q, r) BY <1>6, <2>0, <2>1, <3>1 DEF Forward
    <3>3. QED BY <1>0, <3>2, CalledSent
  <2>2. QED BY <1>1, <1>6, <2>1 DEF Forward
<1>7. ASSUME NEW w \in Worker, NEW u \in Worker,
             \/ EngineStep(w) \/ Share(w, u) \/ GetAlternative(w) \/ PutIdle(w) \/ Refuse(w, u)
             \/ Finish \/ UNCHANGED vars
      PROVE  Called(i, n)'
  BY <1>1, <1>7 DEF EngineStep, Try, Cut, Retry, CheckPruneRequest, Share, GetAlternative, PutIdle,
    Refuse, Finish, vars
<1>8. QED BY <1>2, <1>3, <1>4, <1>5, <1>6, <1>7, StepCases DEF OtherStep

LEMMA TopCases ==
  ASSUME Inv, [Next]_vars, NEW i \in Worker
  PROVE  \/ top_cp'[i] = top_cp[i]
         \/ MoveStep(i)
         \/ \E p \in Worker : SetTops(p) /\ i \in {p, partner[p]}
<1>0. top_cp \in [Worker -> Node] /\ partner \in [Worker -> Worker] BY DEF Inv, TreeInv, TypeOK
<1>1. ASSUME NEW w \in Worker, PlainStep(w) PROVE top_cp'[i] = top_cp[i] BY <1>1, PlainSteps
<1>2. ASSUME NEW w \in Worker, EngineStep(w) PROVE top_cp'[i] = top_cp[i]
  BY <1>2 DEF EngineStep, Try, Cut, Retry, CheckPruneRequest
<1>3. ASSUME NEW w \in Worker, MoveStep(w), w # i PROVE top_cp'[i] = top_cp[i]
  BY <1>0, <1>3, MoveShape DEF Pop
<1>4. ASSUME NEW w \in Worker, SetTops(w), i \notin {w, partner[w]} PROVE top_cp'[i] = top_cp[i]
  BY <1>4, SetTopsFacts DEF Inv
<1>5. ASSUME NEW p \in Worker, NEW q \in Worker, Share(p, q) PROVE top_cp'[i] = top_cp[i]
  BY <1>5 DEF Share
<1>6. CASE OtherStep BY <1>6, OtherSteps
<1>7. QED BY <1>1, <1>2, <1>3, <1>4, <1>5, <1>6, StepCases

\* How a worker that rests in a frame stops to.
LEMMA RestCases ==
  ASSUME Inv, [Next]_vars, NEW i \in Worker, pc[i] \in Resting
  PROVE  \/ pc'[i] \in Resting
         \/ MoveStep(i) \/ pend'[top_cp[i]] = None \/ top_cp[i] = Root
         \/ \E p \in Worker : Forward(p) /\ i = partner[p]
<1>0. /\ pc \in [Worker -> Locations] /\ partner \in [Worker -> Worker] /\ top_cp \in [Worker -> Node]
      /\ pend \in [Node -> {None} \cup [cp : Node, alt : Nat]] /\ back \in [Worker -> {"fail", "exit", "work", "idle"}]
  BY DEF Inv, TreeInv, TypeOK
<1>1. ASSUME NEW w \in Worker, PlainStep(w) PROVE pc'[i] \in Resting \/ pend'[top_cp[i]] = None
  <2>1. CASE w # i BY <1>1, <2>1, PlainSteps
  <2>2. CASE w = i
    <3>1. CASE DoPending(w) BY <1>0, <2>2, <3>1 DEF DoPending
    <3>2. CASE GiveUp(w) BY <1>0, <2>2, <3>2 DEF GiveUp, Goto, Resting
    <3>3. CASE \/ Call(w) \/ Exit(w) \/ EnterScheduler(w) \/ NewAnswer(w) \/ StoreAnswer(w)
               \/ BeginCut(w) \/ LockToSend(w) \/ Send(w) \/ CutStore(w) \/ LookUp(w) \/ CutMore(w)
               \/ SendMore(w) \/ StopMore(w) \/ NextMore(w) \/ EndCut(w) \/ Scan(w)
               \/ FindLeftmost(w) \/ PutAnswers(w)
      <4>1. pc[w] \notin Resting
        BY <3>3 DEF Call, Exit, EnterScheduler, NewAnswer, StoreAnswer, BeginCut, LockToSend, Send,
          CutStore, LookUp, CutMore, SendMore, StopMore, NextMore, EndCut, Scan, FindLeftmost,
          PutAnswers, Goto, Resting
      <4>2. QED BY <2>2, <4>1
    <3>4. QED BY <1>1, <3>1, <3>2, <3>3 DEF PlainStep
  <2>3. QED BY <2>1, <2>2
<1>2. ASSUME NEW w \in Worker, EngineStep(w) PROVE pc'[i] = pc[i]
  <2>1. pc[w] \in {"run", "exit", "fail"}
    BY <1>2 DEF EngineStep, Try, Cut, Retry, CheckPruneRequest, Goto
  <2>2. pc' = pc \/ \E to : pc' = [pc EXCEPT ![w] = to]
    BY <1>2 DEF EngineStep, Try, Cut, Retry, CheckPruneRequest, Goto
  <2>3. QED BY <1>0, <2>1, <2>2 DEF Resting
<1>3. ASSUME NEW w \in Worker, MoveStep(w), w # i PROVE pc'[i] = pc[i]
  BY <1>3, MoveShape
<1>4. ASSUME NEW w \in Worker, NEW u \in Worker, SetTops(w) \/ Share(w, u) \/ GetAlternative(w)
      PROVE  pc'[i] = pc[i]
  BY <1>0, <1>4 DEF SetTops, Share, GetAlternative, Goto, Resting
<1>5. ASSUME NEW w \in Worker, NEW u \in Worker, PutIdle(w) \/ Choosing(w, u) \/ Refuse(w, u)
      PROVE  pc'[i] \in Resting
  BY <1>0, <1>5 DEF PutIdle, Choosing, Choose, TakeBranch, TakeIdleBranch, Refuse, Goto, Resting
<1>6. ASSUME NEW w \in Worker, Forward(w), i # partner[w] PROVE pc'[i] = pc[i]
  <2>0. PICK q \in Worker : q = partner[w] BY <1>0
  <2>1. pc[w] = "forward" /\ pc' = [pc EXCEPT ![w] = "run", ![q] = "fail"] BY <1>6, <2>0 DEF Forward
  <2>2. QED BY <1>0, <1>6, <2>0, <2>1 DEF Resting
<1>7. CASE Finish BY <1>7 DEF Finish
<1>8. CASE UNCHANGED vars BY <1>8 DEF vars
<1>9. QED BY <1>1, <1>2, <1>3, <1>4, <1>5, <1>6, <1>7, <1>8, StepCases DEF OtherStep

LEMMA GivenKept ==
  ASSUME Inv, [Next]_vars, NEW p \in Worker, pc[p] = "share", ~ SetTops(p)
  PROVE  pc'[p] = "share" /\ partner'[p] = partner[p]
<1>0. /\ pc \in [Worker -> Locations] /\ partner \in [Worker -> Worker]
  BY DEF Inv, TreeInv, TypeOK
<1>1. ASSUME NEW w \in Worker, PlainStep(w) PROVE pc'[p] = "share" /\ partner'[p] = partner[p]
  BY <1>1, PlainSteps
<1>2. ASSUME NEW w \in Worker, EngineStep(w) PROVE pc'[p] = "share" /\ partner'[p] = partner[p]
  <2>1. pc[w] \in {"run", "exit", "fail"}
    BY <1>2 DEF EngineStep, Try, Cut, Retry, CheckPruneRequest, Goto
  <2>2. pc' = pc \/ \E to : pc' = [pc EXCEPT ![w] = to]
    BY <1>2 DEF EngineStep, Try, Cut, Retry, CheckPruneRequest, Goto
  <2>3. partner' = partner BY <1>2 DEF EngineStep, Try, Cut, Retry, CheckPruneRequest, locals
  <2>4. QED BY <1>0, <2>1, <2>2, <2>3
<1>3. ASSUME NEW w \in Worker, MoveStep(w) PROVE pc'[p] = "share" /\ partner'[p] = partner[p]
  BY <1>3, MoveShape
<1>4. ASSUME NEW w \in Worker, SetTops(w) PROVE pc'[p] = "share" /\ partner'[p] = partner[p]
  BY <1>0, <1>4 DEF SetTops, Goto, locals
<1>5. ASSUME NEW w \in Worker, NEW u \in Worker, Share(w, u)
      PROVE  pc'[p] = "share" /\ partner'[p] = partner[p]
  BY <1>0, <1>5 DEF Share, Goto
<1>6. ASSUME NEW w \in Worker, NEW u \in Worker,
             GetAlternative(w) \/ PutIdle(w) \/ Choosing(w, u) \/ Refuse(w, u)
      PROVE  pc'[p] = "share" /\ partner'[p] = partner[p]
  BY <1>0, <1>6 DEF GetAlternative, PutIdle, Choosing, Choose, TakeBranch, TakeIdleBranch,
     Refuse, Goto, locals
<1>7. ASSUME NEW w \in Worker, Forward(w) PROVE pc'[p] = "share" /\ partner'[p] = partner[p]
  <2>0. PICK q \in Worker : q = partner[w] BY <1>0
  <2>1. pc[w] = "forward" /\ pc' = [pc EXCEPT ![w] = "run", ![q] = "fail"] BY <1>7, <2>0 DEF Forward
  <2>2. pc[q] = "ask" BY <2>0, <2>1 DEF Inv, TreeInv, ShapeInv, HandInv
  <2>3. partner' = partner BY <1>7 DEF Forward, locals
  <2>4. QED BY <1>0, <2>1, <2>2, <2>3
<1>8. CASE Finish BY <1>8 DEF Finish
<1>9. CASE UNCHANGED vars BY <1>9 DEF vars, locals
<1>10. QED BY <1>1, <1>2, <1>3, <1>4, <1>5, <1>6, <1>7, <1>8, <1>9, StepCases DEF OtherStep

\* A worker is excused until it gets the work it has asked for.
LEMMA ExcusedKept ==
  ASSUME Inv, [Next]_vars, NEW i \in Worker, NEW n \in Node, i \in members[n], i \in members'[n],
         Excused(i, n), pend[n] # None, pend'[n] # None,
         ~ \E p \in Worker : (SetTops(p) \/ Forward(p)) /\ i = partner[p]
  PROVE  Excused(i, n)'
<1>0. /\ pc \in [Worker -> Locations] /\ partner \in [Worker -> Worker] /\ top_cp \in [Worker -> Node]
      /\ members \in [Node -> SUBSET Worker]
  BY DEF Inv, TreeInv, TypeOK
<1>1. n # Root
  <2>1. pend[n].cp \in Node BY DEF Inv, TreeInv, TypeOK
  <2>2. Younger(n, pend[n].cp) BY DEF Inv, PendInv
  <2>3. QED BY <2>1, <2>2, UnderFacts DEF Younger
<1>2. CASE pc[i] \in Resting /\ n = top_cp[i]
  <2>1. ~ MoveStep(i) BY <1>0, <1>2, MoveShape DEF Without
  <2>2. pc'[i] \in Resting BY <1>1, <1>2, <2>1, RestCases
  <2>3. ~ SetTops(i) BY <1>2 DEF SetTops, Goto, Resting
  <2>4. top_cp'[i] = top_cp[i] BY <2>1, <2>3, TopCases
  <2>5. QED BY <1>2, <2>2, <2>4 DEF Excused
<1>3. CASE Given(i) /\ Younger(n, top_cp[i])
  <2>1. PICK p \in Worker : pc[p] = "share" /\ partner[p] = i BY <1>3 DEF Given
  <2>2. pc[i] = "ask" BY <2>1 DEF Inv, TreeInv, ShapeInv, HandInv
  <2>3. Given(i)' BY <2>1, GivenKept DEF Given
  <2>4. ~ MoveStep(i) /\ ~ SetTops(i) BY <2>2, MoveShape DEF SetTops, Goto
  <2>5. top_cp'[i] = top_cp[i] BY <2>4, TopCases
  <2>6. QED BY <1>3, <2>3, <2>5 DEF Excused, Younger
<1>4. QED BY <1>2, <1>3 DEF Excused

LEMMA CoverKept ==
  ASSUME SafeInv, [Next]_vars, ~ astray', NEW i \in Worker, NEW n \in Node,
         i \in members[n], i \in members'[n], pend[n] # None, pend'[n] = pend[n],
         ~ \E p, q \in Worker : Share(p, q),
         ~ \E p \in Worker : (SetTops(p) \/ Forward(p)) /\ i = partner[p]
  PROVE  Covered(i, n)'
<1>0. /\ Inv /\ top_cp \in [Worker -> Node] /\ members \in [Node -> SUBSET Worker]
      /\ partner \in [Worker -> Worker]
  BY DEF SafeInv, Inv, TreeInv, TypeOK
<1>1. Covered(i, n)
  <2>1. ~ astray BY <1>0, AstrayKept DEF Inv, TreeInv
  <2>2. QED BY <2>1 DEF SafeInv, CoverInv
<1>2. CASE Excused(i, n)
  <2>1. Excused(i, n)' BY <1>0, <1>2, ExcusedKept
  <2>2. QED BY <2>1 DEF Covered
<1>3. CASE Called(i, n)
  <2>1. Called(i, n)' BY <1>0, <1>3, CalledKept
  <2>2. QED BY <2>1 DEF Covered
<1>4. CASE branch[i][n].alt <= pend[n].alt
  <2>1. CASE branch'[i][n] = branch[i][n] BY <1>4, <2>1 DEF Covered
  <2>2. CASE branch'[i][n] # branch[i][n]
    <3>1. /\ n = top_cp[i] /\ pc[i] \in {"fail", "work", "idle", "request"}
          /\ alternative[n] # NULL \/ pend'[n] = None \/ pc'[i] \in {"idle", "ask"}
      BY <1>0, <2>2, BranchCases
    <3>2. alternative[n] = NULL BY DEF SafeInv, KeptInv
    <3>3. pc'[i] \in Resting BY <3>1, <3>2 DEF Resting
    <3>4. ~ MoveStep(i) BY <1>0, <3>1, MoveShape DEF Without
    <3>5. ASSUME NEW p \in Worker, SetTops(p) PROVE i \notin {p, partner[p]}
      BY <1>0, <3>1, <3>5, SetTopsFacts DEF Inv
    <3>6. top_cp'[i] = n BY <1>0, <3>1, <3>4, <3>5, TopCases
    <3>7. QED BY <3>3, <3>6 DEF Covered, Excused
  <2>3. QED BY <2>1, <2>2
<1>5. QED BY <1>1, <1>2, <1>3, <1>4 DEF Covered

\* A prune is left pending: who is to the right of it has got a request from
\* the worker that leaves it, unless a race has kept it from that.
LEMMA CoverStore ==
  ASSUME SafeInv, ~ astray', NEW w \in Worker, CutStore(w), ~ BeingLeftmost(w),
         NEW l \in Node, l = cut[w].left, pend'[l] # pend[l], NEW i \in members[l]
  PROVE  Covered(i, l)'
<1>. DEFINE up == CpB(w, l)
<1>0. /\ Inv /\ pc \in [Worker -> Locations] /\ top_cp \in [Worker -> Node]
      /\ members \in [Node -> SUBSET Worker] /\ prune_request \in [Worker -> Node \cup {None}]
      /\ branch \in [Worker -> [Node -> [alt : Nat, cut : BOOLEAN]]]
      /\ pend \in [Node -> {None} \cup [cp : Node, alt : Nat]] /\ partner \in [Worker -> Worker]
  BY DEF SafeInv, Inv, TreeInv, TypeOK
<1>1. pc[w] = "store" BY DEF CutStore
<1>2. l \in Node /\ l # Root /\ w \in members[l] /\ up \in Node /\ Younger(l, up)
  BY <1>0, <1>1, SendFacts, LeftFrame
<1>3. i \in Worker BY <1>0, <1>2
<1>4. /\ pend' = [pend EXCEPT ![l] = [cp |-> cut[w].to, alt |-> branch[w][l].alt]]
      /\ prune_request[w] = None /\ prune_request' = prune_request
  BY DEF CutStore
<1>5. pend'[l].alt = branch[w][l].alt BY <1>0, <1>2, <1>4
<1>6. branch' = branch /\ top_cp' = top_cp /\ partner' = partner BY DEF CutStore, stacks
<1>7. \A v \in Worker \ {w} : pc'[v] = pc[v]
  <2>1. \E to : pc' = [pc EXCEPT ![w] = to] BY <1>4 DEF CutStore
  <2>2. QED BY <1>0, <2>1
<1>8. SUFFICES ASSUME branch[i][l].alt > branch[w][l].alt PROVE Excused(i, l)' \/ Called(i, l)
  <2>1. Called(i, l)' <=> Called(i, l) BY <1>4, <1>6 DEF Called, Younger
  <2>2. branch[i][l].alt \in Nat /\ branch[w][l].alt \in Nat BY <1>0, <1>2, <1>3
  <2>3. QED BY <1>5, <1>6, <1>8, <2>1, <2>2 DEF Covered
<1>9. ~ Missed(i, prune_request[i], up)
  <2>1. ~ \E j \in members[l] : branch[j][l].alt > branch[w][l].alt /\ Missed(j, prune_request[j], up)
    BY <1>4 DEF CutStore
  <2>2. QED BY <1>8, <2>1
<1>10. CASE Younger(l, top_cp[i])
  <2>1. pc[i] \in {"share", "ask"} BY <1>0, <1>2, <1>3, <1>10, MemberFacts DEF Inv
  <2>2. pc[i] # "share"
    <3>1. pc[i] = "share" => members[l] = {i, partner[i]} /\ pc[partner[i]] = "ask"
      BY <1>2, <1>3, <1>10 DEF SafeInv, CopyInv, Inv, TreeInv, ShapeInv, HandInv
    <3>2. QED BY <1>1, <1>2, <3>1
  <2>3. Given(i)
    <3>1. AtOrUnder(top_cp[i], l) \/ Given(i) BY <1>0, <1>2, <1>3, <2>2, MemberFacts DEF Inv
    <3>2. ~ AtOrUnder(top_cp[i], l) BY <1>0, <1>2, <1>3, <1>10, UnderFacts DEF AtOrUnder, Younger
    <3>3. QED BY <3>1, <3>2
  <2>4. Given(i)' BY <1>1, <1>6, <1>7, <2>3 DEF Given
  <2>5. QED BY <1>6, <1>10, <2>4 DEF Excused, Younger
<1>11. CASE ~ Younger(l, top_cp[i])
  <2>1. AtOrUnder(top_cp[i], l)
    <3>1. cp_ap[i][l] = GETWORK /\ l \in Stack(i)
      BY <1>2, <1>3, <1>11 DEF SafeInv, Inv, TreeInv, ShapeInv, ExactInv, Stack, NULL, GETWORK
    <3>2. QED BY <1>3, <1>11, <3>1, StackFacts DEF SafeInv, Inv, TreeInv, ShapeInv
  <2>2. top_cp[i] \in Node /\ Younger(top_cp[i], up) BY <1>0, <1>2, <1>3, <2>1, UnderFacts DEF Younger
  <2>3. prune_request[i] \in Node /\ ~ Younger(prune_request[i], up)
    BY <1>0, <1>3, <1>9, <2>2 DEF Missed
  <2>4. CASE Younger(top_cp[i], prune_request[i])
    <3>1. AtOrUnder(up, prune_request[i])
      BY <1>2, <2>2, <2>3, <2>4, UnderLinear DEF Younger, AtOrUnder
    <3>2. Younger(l, prune_request[i]) BY <1>2, <2>3, <3>1, UnderFacts DEF Younger
    <3>3. QED BY <2>3, <3>2, NoneFacts DEF Called
  <2>5. CASE AtOrUnder(prune_request[i], top_cp[i])
    BY <1>2, <2>2, <2>3, <2>5, UnderFacts DEF Younger
  <2>6. RequestAt(i) BY <1>3 DEF SafeInv, Inv, RequestInv
  <2>7. QED BY <2>3, <2>4, <2>5, <2>6, NoneFacts DEF RequestAt
<1>12. QED BY <1>10, <1>11

LEMMA CoverShare ==
  ASSUME SafeInv, ~ astray', NEW p \in Worker, NEW q \in Worker, Share(p, q),
         NEW n \in Node, pend[n] # None, NEW i \in members'[n]
  PROVE  Covered(i, n)'
<1>0. /\ Inv /\ pc \in [Worker -> Locations] /\ top_cp \in [Worker -> Node]
      /\ members \in [Node -> SUBSET Worker] /\ partner \in [Worker -> Worker]
      /\ members' \in [Node -> SUBSET Worker]
  BY ShareFacts DEF SafeInv, Inv, TreeInv, TypeOK
<1>1. /\ pend' = pend /\ top_cp' = top_cp /\ prune_request' = prune_request /\ ~ astray
  BY DEF Share
<1>2. /\ pc[p] = "run" /\ pc[q] = "ask" /\ p # q
      /\ pc' = [pc EXCEPT ![p] = "share"] /\ partner' = [partner EXCEPT ![p] = q]
  BY <1>0, ShareFacts
<1>3. i \in Worker /\ n \notin Private(p)
  <2>1. members[n] # {} BY <1>0 DEF Inv, PendInv
  <2>2. n \notin Private(p) BY <1>0, <2>1, ShareFacts
  <2>3. QED BY <1>0, <2>2
<1>4. CASE i = q
  <2>1. CASE Younger(n, top_cp[q])
    <3>1. Given(q)' BY <1>0, <1>2 DEF Given
    <3>2. QED BY <1>1, <1>4, <2>1, <3>1 DEF Covered, Excused, Younger
  <2>2. CASE ~ Younger(n, top_cp[q])
    <3>1. q \in members[n]
      <4>1. members'[n] = members[n] \/ members'[n] = members[n] \cup {q} BY <1>0, <1>3, ShareFacts
      <4>2. ~ (members'[n] = members[n] \cup {q} /\ q \notin members[n])
        BY <1>0, <1>3, <2>2, ShareFacts
      <4>3. QED BY <1>4, <4>1, <4>2
    <3>2. Covered(q, n) BY <1>1, <3>1 DEF SafeInv, CoverInv
    <3>3. branch'[q][n] = branch[q][n] BY <1>0, <1>3, <2>2, ShareBranches DEF SafeInv
    <3>4. pc'[q] = pc[q] BY <1>0, <1>2
    <3>5. Excused(q, n) => Excused(q, n)' BY <1>1, <2>2, <3>4 DEF Excused
    <3>6. QED BY <1>1, <1>4, <3>2, <3>3, <3>5 DEF Covered, Called, Younger
  <2>3. QED BY <2>1, <2>2
<1>5. CASE i # q
  <2>1. i \in members[n]
    <3>1. members'[n] = members[n] \/ members'[n] = members[n] \cup {q} BY <1>0, <1>3, ShareFacts
    <3>2. QED BY <1>5, <3>1
  <2>2. Covered(i, n) BY <1>1, <2>1 DEF SafeInv, CoverInv
  <2>3. branch'[i][n] = branch[i][n] BY <1>0, <1>3, <1>5, ShareBranches DEF SafeInv
  <2>4. Given(i) => Given(i)'
    <3>1. ASSUME NEW u \in Worker, pc[u] = "share", partner[u] = i
          PROVE  pc'[u] = "share" /\ partner'[u] = i
      BY <1>0, <1>2, <3>1
    <3>2. QED BY <3>1 DEF Given
  <2>5. pc[i] \in Resting => pc'[i] \in Resting BY <1>0, <1>2, <1>3 DEF Resting
  <2>6. Excused(i, n) => Excused(i, n)' BY <1>1, <2>4, <2>5 DEF Excused, Younger
  <2>7. QED BY <1>1, <2>2, <2>3, <2>6 DEF Covered, Called, Younger
<1>6. QED BY <1>4, <1>5

\* The worker that shares is not excused: what covers it covers the other too.
LEMMA CoverSharer ==
  ASSUME SafeInv, ~ astray, NEW p \in Worker, NEW q \in Worker, q = partner[p],
         pc[p] \in {"share", "forward"},
         NEW n \in Node, p \in members[n], pend[n] # None
  PROVE  branch[q][n].alt <= pend[n].alt \/ Called(p, n)
<1>1. Covered(p, n) BY DEF SafeInv, CoverInv
<1>2. ~ Given(p) BY DEF SafeInv, Inv, TreeInv, ShapeInv, HandInv, Given
<1>3. ~ Excused(p, n) BY <1>2 DEF Excused, Resting
<1>4. branch[p][n].alt = branch[q][n].alt BY DEF SafeInv, CopyInv
<1>5. QED BY <1>1, <1>3, <1>4 DEF Covered

\* The request of the one counts for both, if that of the other is not for
\* an older choice point.
LEMMA CallPassed ==
  ASSUME NEW n \in Node, NEW r \in Node, NEW s \in Node, NEW t \in Node,
         Younger(n, r), Younger(t, r), Younger(t, s), ~ Younger(s, r)
  PROVE  Younger(n, s)
<1>1. AtOrUnder(r, s) BY UnderLinear DEF Younger, AtOrUnder
<1>2. QED BY <1>1, UnderFacts DEF Younger

LEMMA CoverSetTops ==
  ASSUME SafeInv, ~ astray', NEW p \in Worker, NEW q \in Worker, q = partner[p], SetTops(p),
         NEW n \in Node, pend[n] # None, q \in members[n]
  PROVE  Covered(q, n)'
<1>0. /\ Inv /\ prune_request \in [Worker -> Node \cup {None}] /\ top_cp \in [Worker -> Node]
      /\ members \in [Node -> SUBSET Worker]
  BY DEF SafeInv, Inv, TreeInv, TypeOK
<1>1. branch' = branch /\ pend' = pend /\ ~ astray BY DEF SetTops, frames, history
<1>2. /\ pc[p] = "share" /\ pc[q] = "ask" /\ p # q
      /\ p \in members[n] /\ n \in Stack(p)
      /\ B(p) \in Node /\ \A m \in Stack(p) : AtOrUnder(B(p), m)
      /\ \A m \in Node : (p \in members[m] \/ q \in members[m]) => m \in Stack(p)
  <2>1. TreeInv BY <1>0 DEF Inv
  <2>2. QED BY <2>1, SetTopsFacts
<1>3. CASE branch[q][n].alt <= pend[n].alt BY <1>1, <1>3 DEF Covered
<1>4. CASE Called(p, n)
  <2>1. PICK r \in Node : r = prune_request[p] BY <1>0, <1>4 DEF Called
  <2>2. Younger(n, r) BY <1>4, <2>1 DEF Called
  <2>3. Younger(B(p), r) BY <1>2, <2>1, <2>2, UnderFacts DEF Younger
  <2>4. CASE prune_request[q] # None /\ ~ Younger(prune_request[q], r)
    <3>1. PICK s \in Node : s = prune_request[q] BY <1>0, <2>4
    <3>2. q \in members[s]
      BY <1>2, <2>4, <3>1 DEF SafeInv, Inv, RequestInv, RequestAt, Moved
    <3>3. s \in Stack(p) BY <1>2, <3>2
    <3>4. p \in members[r] BY <1>2, <2>1, NoneFacts DEF SafeInv, Inv, RequestInv, RequestAt, Moved
    <3>5. r \in Stack(p) BY <1>2, <3>4
    <3>6. AtOrUnder(s, r) \/ Younger(r, s)
      BY <3>3, <3>5, StackFacts DEF SafeInv, Inv, TreeInv, ShapeInv
    <3>7. Younger(n, s) BY <2>2, <2>4, <3>1, <3>6, UnderFacts DEF Younger, AtOrUnder
    <3>8. prune_request' = prune_request BY <2>1, <2>4 DEF SetTops
    <3>9. QED BY <2>4, <3>1, <3>7, <3>8 DEF Covered, Called, Younger
  <2>5. CASE ~ (prune_request[q] # None /\ ~ Younger(prune_request[q], r))
    <3>1. prune_request' = [prune_request EXCEPT ![q] = r]
      BY <2>1, <2>3, <2>5, NoneFacts DEF SetTops
    <3>2. prune_request'[q] = r BY <1>0, <3>1
    <3>3. QED BY <2>2, <3>2, NoneFacts DEF Covered, Called, Younger
  <2>6. QED BY <2>4, <2>5
<1>5. QED BY <1>0, <1>1, <1>2, <1>3, <1>4, CoverSharer

LEMMA CoverForward ==
  ASSUME SafeInv, ~ astray', NEW p \in Worker, NEW q \in Worker, q = partner[p], Forward(p),
         NEW n \in Node, pend[n] # None, q \in members[n]
  PROVE  Covered(q, n)'
<1>0. /\ Inv /\ prune_request \in [Worker -> Node \cup {None}] /\ top_cp \in [Worker -> Node]
      /\ members \in [Node -> SUBSET Worker] /\ \A v \in Worker : v \in members[top_cp[v]]
  BY DEF SafeInv, Inv, TreeInv, TypeOK
<1>1. branch' = branch /\ pend' = pend /\ ~ astray BY DEF Forward, frames, stacks, history
<1>2. pc[p] = "forward" /\ pc[q] = "ask" /\ partner[q] = p /\ top_cp[q] = top_cp[p]
  BY DEF Forward, SafeInv, Inv, TreeInv, ShapeInv, HandInv
<1>3. AtOrUnder(top_cp[q], n)
  <2>1. ~ Given(q) BY <1>2 DEF SafeInv, Inv, TreeInv, ShapeInv, HandInv, Given
  <2>2. QED BY <1>0, <1>2, <2>1, MemberFacts DEF Inv
<1>4. p \in members[n]
  <2>1. CASE top_cp[q] = n BY <1>0, <1>2, <2>1
  <2>2. CASE Younger(top_cp[q], n)
    <3>1. p \in members[top_cp[q]] /\ q \in members[top_cp[q]] BY <1>0, <1>2
    <3>2. QED BY <1>0, <2>2, <3>1 DEF Inv, TreeInv, ShapeInv, AgreeInv
  <2>3. QED BY <1>3, <2>1, <2>2 DEF AtOrUnder, Younger
<1>5. CASE branch[q][n].alt <= pend[n].alt BY <1>1, <1>5 DEF Covered
<1>6. CASE Called(p, n)
  <2>1. PICK r \in Node : r = prune_request[p] BY <1>0, <1>6 DEF Called
  <2>2. prune_request' = Sent(q, r) BY <1>6, <2>1 DEF Forward, Called
  <2>3. Younger(n, r) BY <1>6, <2>1 DEF Called
  <2>4. Younger(top_cp[q], r) BY <1>0, <1>3, <2>3, UnderFacts DEF Younger
  <2>5. CASE prune_request[q] # None /\ ~ Younger(prune_request[q], r)
    <3>1. PICK s \in Node : s = prune_request[q] BY <1>0, <2>5
    <3>2. Younger(top_cp[q], s)
      BY <1>2, <2>5, <3>1 DEF SafeInv, Inv, RequestInv, RequestAt, Moved
    <3>3. Younger(n, s) BY <1>0, <2>3, <2>4, <2>5, <3>1, <3>2, CallPassed
    <3>4. prune_request' = prune_request BY <2>2, <2>5 DEF Sent
    <3>5. QED BY <2>5, <3>1, <3>3, <3>4 DEF Covered, Called, Younger
  <2>6. CASE ~ (prune_request[q] # None /\ ~ Younger(prune_request[q], r))
    <3>1. prune_request' = [prune_request EXCEPT ![q] = r] BY <2>2, <2>4, <2>6 DEF Sent
    <3>2. prune_request'[q] = r BY <1>0, <3>1
    <3>3. QED BY <2>3, <3>2, NoneFacts DEF Covered, Called, Younger
  <2>7. QED BY <2>5, <2>6
<1>7. QED BY <1>0, <1>1, <1>2, <1>4, <1>5, <1>6, CoverSharer

LEMMA CoverStep ==
  ASSUME SafeInv, [Next]_vars
  PROVE  CoverInv'
<1>. SUFFICES ASSUME ~ astray', NEW n \in Node, pend'[n] # None, NEW i \in members'[n]
              PROVE  Covered(i, n)'
  BY DEF CoverInv
<1>0. /\ Inv /\ members \in [Node -> SUBSET Worker] /\ partner \in [Worker -> Worker]
  BY DEF SafeInv, Inv, TreeInv, TypeOK
<1>1. ASSUME NEW p \in Worker, NEW q \in Worker, Share(p, q) PROVE Covered(i, n)'
  <2>1. pend' = pend BY <1>1 DEF Share
  <2>2. QED BY <1>1, <2>1, CoverShare
<1>2. ASSUME ~ \E p, q \in Worker : Share(p, q) PROVE i \in Worker /\ i \in members[n]
  <2>1. ASSUME NEW w \in Worker, MoveStep(w) PROVE members'[n] \subseteq members[n]
    BY <1>0, <2>1, MoveShape DEF Without
  <2>2. QED BY <1>0, <1>2, <2>1, StepMembers
<1>3. ASSUME NEW p \in Worker, i = partner[p], SetTops(p) \/ Forward(p),
             ~ \E u, v \in Worker : Share(u, v)
      PROVE  Covered(i, n)'
  <2>1. pend' = pend BY <1>3 DEF SetTops, Forward, frames
  <2>2. QED BY <1>2, <1>3, <2>1, CoverSetTops, CoverForward
<1>4. ASSUME NEW w \in Worker, CutStore(w), ~ BeingLeftmost(w), n = cut[w].left, pend'[n] # pend[n],
             ~ \E u, v \in Worker : Share(u, v)
      PROVE  Covered(i, n)'
  BY <1>2, <1>4, CoverStore
<1>5. ASSUME pend'[n] = pend[n], ~ \E u, v \in Worker : Share(u, v),
             ~ \E p \in Worker : (SetTops(p) \/ Forward(p)) /\ i = partner[p]
      PROVE  Covered(i, n)'
  BY <1>2, <1>5, CoverKept
<1>6. pend'[n] = pend[n] \/ \E w \in Worker : CutStore(w) /\ ~ BeingLeftmost(w) /\ n = cut[w].left
  BY <1>0, PendCases
<1>7. QED BY <1>1, <1>3, <1>4, <1>5, <1>6

-----------------------------------------------------------------------------
(***************************************************************************)
(* The theorems.                                                           *)
(***************************************************************************)

LEMMA InitInv == Init => Inv
<1> SUFFICES ASSUME Init PROVE Inv
    OBVIOUS
<1>0. /\ Root \in Node /\ Query \in Alternative /\ None \notin Node /\ NULL = 0 /\ GETWORK = -1
      /\ \A n \in Node : Len(Tree[n]) \in Nat
      BY ClauseFacts, NoneFacts, AlternativeFacts
<1>1. PICK first \in Worker :
        /\ pc = [w \in Worker |-> IF w = first THEN "run" ELSE "scan"]
        /\ cur = [w \in Worker |-> Query]
        /\ answer = [w \in Worker |-> Query]
        /\ cp_ap = [w \in Worker |-> [n \in Node |-> IF n = Root THEN GETWORK ELSE NULL]]
        /\ top_cp = [w \in Worker |-> Root]
        /\ prune_request = [w \in Worker |-> None]
        /\ branch = [w \in Worker |-> [n \in Node |-> [alt |-> 1, cut |-> FALSE]]]
        /\ alternative = [n \in Node |-> NULL]
        /\ members = [n \in Node |-> IF n = Root THEN Worker ELSE {}]
        /\ pend = [n \in Node |-> None]
        /\ leftnode = [n \in Node |-> Root]
        /\ solutions = [n \in Node |-> {}]
        /\ holder = [n \in Node |-> None]
        /\ cut = [w \in Worker |-> NoCut]
        /\ back = [w \in Worker |-> "fail"]
        /\ node = [w \in Worker |-> Root]
        /\ partner = [w \in Worker |-> w]
        /\ idle = {} /\ astray = FALSE
      BY DEF Init
<1>a. \A w \in Worker, n \in Node :
        (n = Root => cp_ap[w][n] = GETWORK) /\ (n # Root => cp_ap[w][n] = NULL)
      BY <1>1
<1>b. NULL # GETWORK  BY <1>0
<1>2. \A w \in Worker : Stack(w) = {Root}
  <2>1. \A w \in Worker, n \in Node : cp_ap[w][n] # NULL <=> n = Root  BY <1>a, <1>b
  <2> QED BY <1>0, <2>1 DEF Stack
<1>3. TypeControl  BY <1>0, <1>1 DEF TypeControl, Locations
<1>4. TypeStacks
  <2>1. \A w \in Worker, n \in Node : cp_ap[w][n] = IF n = Root THEN GETWORK ELSE NULL  BY <1>1
  <2>2. \A w \in Worker, n \in Node : n \in Stack(w) => (cp_ap[w][n] = GETWORK <=> AtOrUnder(top_cp[w], n))
        BY <1>0, <1>1, <1>2, <2>1 DEF AtOrUnder
  <2>3. cp_ap \in [Worker -> [Node -> Int]]  BY <1>0, <1>1
  <2>4. /\ top_cp \in [Worker -> Node] /\ \A w \in Worker : w \in members[top_cp[w]]
        /\ members \in [Node -> SUBSET Worker]
        BY <1>0, <1>1
  <2>5. \A w \in Worker, n \in Node : cp_ap[w][n] \in {NULL, GETWORK} \cup (2 .. Len(Tree[n]))  BY <2>1
  <2> QED BY <2>2, <2>3, <2>4, <2>5 DEF TypeStacks
<1>5. TypeFrames  BY <1>0, <1>1 DEF TypeFrames
<1>6. TypeCut  BY <1>1, CutLocalsFacts DEF TypeCut
<1>7. TypeOK  BY <1>3, <1>4, <1>5, <1>6, TypeParts
<1>8. ShapeInv
  <2>1. Path({Root})  BY <1>0 DEF Path, AtOrUnder
  <2>2. StackInv
    <3>1. \A w \in Worker : Path(Stack(w))  BY <1>2, <2>1
    <3>2. \A w \in Worker : cp_ap[w][Root] = GETWORK /\ top_cp[w] = Root /\ cur[w][1] = Root
          BY <1>0, <1>1 DEF Query
    <3> QED BY <1>2, <3>1, <3>2 DEF StackInv, AtOrUnder
  <2>3. ExactInv
    <3>1. \A w \in Worker, n \in Node : cp_ap[w][n] = GETWORK <=> n = Root  BY <1>a, <1>b
    <3>2. \A w \in Worker, n \in Node : w \in members[n] <=> n = Root  BY <1>0, <1>1
    <3>3. \A n \in Node : \A w \in members[n] : w \in Worker  BY <1>1
    <3> QED BY <3>1, <3>2, <3>3 DEF ExactInv
  <2>4. HandInv  BY <1>1 DEF HandInv
  <2>5. AgreeInv
    <3>1. ASSUME NEW n \in Node, NEW m \in Node, Younger(n, m) PROVE members[n] = {}
          BY <1>0, <1>1, <3>1, UnderFacts DEF Younger
    <3> QED BY <3>1 DEF AgreeInv
  <2> QED BY <2>2, <2>3, <2>4, <2>5 DEF ShapeInv
<1>9. FreshInv
  <2>1. \A w \in Worker : \A n \in Stack(w) : cp_ap[w][n] = GETWORK  BY <1>0, <1>1, <1>2
  <2>2. \A n \in Node : alternative[n] = NULL  BY <1>1
  <2>3. ASSUME NEW y \in Alternative PROVE ~ Pending(y)
    <3>1. y[1] \in Node  BY AlternativeFacts
    <3>2. \A w \in Worker : cp_ap[w][y[1]] \in {-1, 0}  BY <1>0, <1>1, <3>1
    <3> QED BY <2>2, <3>1, <3>2 DEF Pending
  <2>4. ASSUME NEW w \in Worker, Running(w)
        PROVE  Untouched(cur[w]) /\ \A v \in Worker \ {w} : ~ Inside(v, cur[w])
    <3>1. w = first /\ \A v \in Worker \ {w} : ~ Running(v)  BY <1>1, <2>4 DEF Running
    <3>2. cur[w] = Query  BY <1>1
    <3>3. Untouched(Query)
      <4>1. Created(Query) \in Node \cup {Leaf} /\ Created(Query) # Root
            BY <1>0, AlternativeFacts
      <4>2. Created(Query) # Leaf => ~ AtOrUnder(Root, Created(Query))
            BY <4>1, UnderFacts DEF AtOrUnder
      <4> QED BY <1>2, <4>2 DEF Untouched
    <3>4. Untouched(cur[w])  BY <3>2, <3>3
    <3> QED BY <3>1, <3>4 DEF Inside
  <2> QED BY <2>1, <2>2, <2>3, <2>4 DEF FreshInv
<1>10. LeftInv
  <2>1. \A n \in Node \ {Root} : Younger(n, Root) /\ members[n] = {}  BY <1>1, UnderFacts DEF Younger
  <2> QED BY <1>0, <1>1, <2>1 DEF LeftInv
<1>11. PendInv  BY <1>1 DEF PendInv
<1>12. CutInv
  <2>1. \A w \in Worker : pc[w] \in {"run", "scan"}  BY <1>1
  <2> QED BY <2>1 DEF CutInv, CutAt
<1>13. RequestInv
  <2>1. \A w \in Worker : pc[w] \in {"run", "scan"} /\ prune_request[w] = None  BY <1>1
  <2> QED BY <2>1 DEF RequestInv, RequestAt
<1> QED BY <1>7, <1>8, <1>9, <1>10, <1>11, <1>12, <1>13 DEF Inv, TreeInv

LEMMA InvStep == Inv /\ [Next]_vars => Inv'
<1> SUFFICES ASSUME Inv, [Next]_vars PROVE Inv'
    OBVIOUS
<1>1. TypeOK'  BY TypeStep
<1>2. ShapeInv'  BY ShapeStep
<1>3. FreshInv'  BY FreshStep
<1>4. LeftInv'  BY LeftStep
<1>5. PendInv'  BY PendStep
<1>6. CutInv'  BY CutStep
<1>7. RequestInv'  BY RequestStep
<1> QED BY <1>1, <1>2, <1>3, <1>4, <1>5, <1>6, <1>7 DEF Inv, TreeInv

LEMMA Invariant == Spec => []Inv
<1>1. Init => Inv  BY InitInv
<1>2. Inv /\ [Next]_vars => Inv'  BY InvStep
<1> QED BY <1>1, <1>2, PTL DEF Spec

\* The types, that a worker is a member of its top frame, and that its shared
\* choice points are those at and above the top one (getwork in cp_ap).
THEOREM TypeCorrect == Spec => []TypeOK
<1>1. Inv => TypeOK  BY DEF Inv, TreeInv
<1> QED BY <1>1, Invariant, PTL

\* The assertions of move_up_to_prune_request and move_up_one_node: a worker
\* that moves up has its prune request above its top choice point.
THEOREM RequestsAreAbove == Spec => []RequestsAbove
<1>1. Inv => RequestsAbove
  <2> SUFFICES ASSUME Inv, NEW w \in Worker, prune_request[w] # None,
                      pc[w] \in {"prune", "work", "idle"}
               PROVE  Younger(top_cp[w], prune_request[w])
      BY DEF RequestsAbove
  <2>1. RequestAt(w) /\ pc[w] \notin Moved  BY DEF Inv, RequestInv, Moved
  <2> QED BY <2>1 DEF RequestAt
<1> QED BY <1>1, Invariant, PTL

LEMMA SafeInit == Init => SafeInv
<1>. SUFFICES ASSUME Init PROVE SafeInv
  OBVIOUS
<1>1. Inv BY InitInv
<1>2. /\ pend = [n \in Node |-> None] /\ members = [n \in Node |-> IF n = Root THEN Worker ELSE {}]
      /\ \A w \in Worker : pc[w] \in {"run", "scan"}
  BY DEF Init
<1>3. BranchesAgree
  <2>1. ASSUME NEW n \in Node, NEW m \in Node, Younger(n, m) PROVE members[n] = {}
    BY <1>2, <2>1, UnderFacts DEF Younger
  <2>2. QED BY <2>1 DEF BranchesAgree
<1>4. KeptInv /\ CoverInv
  <2>1. \A n \in Node : pend[n] = None BY <1>2
  <2>2. QED BY <2>1 DEF KeptInv, CoverInv
<1>5. IdleInv /\ CopyInv BY <1>2 DEF IdleInv, IdleAt, CopyInv, Resting, Moved
<1>6. QED BY <1>1, <1>3, <1>4, <1>5 DEF SafeInv

LEMMA SafeStep == SafeInv /\ [Next]_vars => SafeInv'
<1>. SUFFICES ASSUME SafeInv, [Next]_vars PROVE SafeInv'
  OBVIOUS
<1>1. Inv' BY InvStep DEF SafeInv
<1>2. BranchesAgree' BY AgreeStep DEF SafeInv
<1>3. KeptInv' BY KeptStep DEF SafeInv
<1>4. IdleInv' BY IdleStep DEF SafeInv
<1>5. CopyInv' BY CopyStep DEF SafeInv
<1>6. CoverInv' BY CoverStep
<1>7. QED BY <1>1, <1>2, <1>3, <1>4, <1>5, <1>6 DEF SafeInv

LEMMA SafeInvariant == Spec => []SafeInv
<1>1. Init => SafeInv BY SafeInit
<1>2. SafeInv /\ [Next]_vars => SafeInv' BY SafeStep
<1>3. QED BY <1>1, <1>2, PTL DEF Spec

\* Two workers that share a choice point share those above it and, unless a
\* race has led the execution astray, are in the same alternative of each:
\* the branches that share_private_nodes copies and CUT_prune_to compares.
THEOREM BranchesDoAgree == Spec => []BranchesAgree
<1>1. SafeInv => BranchesAgree BY DEF SafeInv
<1>2. QED BY <1>1, SafeInvariant, PTL

\* The assertion of q_share_work: an idle worker that moves to the branch of a
\* worker without a prune request does not move to the right of a prune.
THEOREM PositionsAreSafe == Spec => []SafePosition
<1>1. SafeInv => SafePosition BY CoverIsSafe
<1>2. QED BY <1>1, SafeInvariant, PTL
=============================================================================
