-------------------------- MODULE OrSchedulerProofs --------------------------
(***************************************************************************)
(* Proofs about the or-tree and the scheduler, for any set of workers and  *)
(* any search tree, finite or not:                                         *)
(*                                                                         *)
(*   - the members of an or-frame are the workers that have its node as a  *)
(*     public choice point (MembersExact);                                 *)
(*   - nearest_livenode skips no node with work (LiveNodesReachable);      *)
(*   - the scheduler implements the exploration of the search tree         *)
(*     (ExploresTheTree).                                                  *)
(*                                                                         *)
(* All three need the same inductive invariant. It says that the stack of  *)
(* a worker is a path of the tree (with gaps, where the last alternative   *)
(* popped a node), that a private choice point is on one stack only and    *)
(* that stacks which share a node agree on what is above it (ShapeInv);    *)
(* that the alternatives of a node are taken up to the one that its owner  *)
(* or its or-frame names next (TakenInv); and what a worker in get_work    *)
(* knows of the nodes above it (SchedInv).                                 *)
(***************************************************************************)
EXTENDS OrScheduler, SearchTreeProofs

(***************************************************************************)
(* Stacks.                                                                 *)
(***************************************************************************)

\* A private choice point holds its next alternative, a public one refers to
\* the or-frame.
ApRight(w) ==
  /\ \A n \in Private(w) : cp_ap[w][n] \in 2 .. Len(Tree[n])
  /\ \A n \in Public(w) : cp_ap[w][n] = IF n \in Sequential THEN GETWORK_SEQ ELSE GETWORK

ShapeInv ==
  /\ \A w \in Worker : Path(Stack(w)) /\ top_cp[w] \in Stack(w) /\ ApRight(w)
  /\ \A w, v \in Worker : w # v => Private(w) \cap Stack(v) = {}
  /\ \A w, v \in Worker : \A n \in Stack(w), m \in Stack(v) :
       <<n, m>> \in Under => m \in Stack(w)

(***************************************************************************)
(* What has been taken, and who runs it.                                   *)
(***************************************************************************)
Running(w) == pc[w] = "run"

\* The running worker is below its stack, which lacks no node that it is below
\* and that anybody has; the choice point it creates is new.
RunInv ==
  \A w \in Worker : Running(w) =>
    /\ cur[w] \in taken
    /\ \A m \in Stack(w) : AtOrUnder(cur[w][1], m)
    /\ \A v \in Worker : \A m \in Stack(v) : AtOrUnder(cur[w][1], m) => m \in Stack(w)
    /\ <<Created(cur[w]), 1>> \notin taken
    /\ \A v \in Worker : Running(v) /\ cur[v] = cur[w] => v = w

\* A choice point that has been created has all above it created before.
BornInv ==
  /\ Query \in taken
  /\ \A w \in Worker : \A n \in Stack(w) : <<n, 1>> \in taken
  /\ \A y \in taken, m \in Node : AtOrUnder(y[1], m) => <<m, 1>> \in taken
  /\ \A x \in Alternative : Created(x) # Leaf /\ <<Created(x), 1>> \in taken => x \in taken
  /\ \A x \in taken : Created(x) # Leaf =>
       <<Created(x), 1>> \in taken \/ \E w \in Worker : Running(w) /\ cur[w] = x

\* The alternatives of n up to next, or all if there is none, are in T.
UpTo(T, n, next) ==
  \A a \in DOMAIN Tree[n] : <<n, a>> \in T <=> next = NULL \/ a < next

TakenInv ==
  /\ \A w \in Worker : \A n \in Private(w) : UpTo(taken, n, cp_ap[w][n])
  /\ \A w \in Worker : \A n \in Public(w) : UpTo(taken, n, alternative[n])
  /\ \A n \in Node : <<n, 1>> \in taken /\ (\A w \in Worker : n \notin Stack(w))
                      => UpTo(taken, n, NULL)

(***************************************************************************)
(* The or-frames and the scheduler.                                        *)
(***************************************************************************)

\* nearest_livenode leads up along the stacks of the members.
LinkInv ==
  /\ alternative[Root] = NULL
  /\ \A w \in Worker : \A n \in Public(w) : nearest_livenode[n] # None =>
       nearest_livenode[n] \in Stack(w) /\ <<n, nearest_livenode[n]>> \in Under

InEngine == {"run", "fail"}
Searching == {"scan", "to_work", "no_work"}
WithoutWork == {"no_work", "idle", "look", "above", "better", "ask", "end"}

\* Nothing is left to take in the parallel nodes of S.
NoneLive(S) == \A n \in S : n \notin Sequential => alternative[n] = NULL

\* What w knows of the nodes above it, and when it is in the root node for good.
SchedFor(w) ==
  /\ pc[w] \notin InEngine => \A n \in Stack(w) : AtOrUnder(top_cp[w], n)
  /\ pc[w] \in Searching => node[w] \in Stack(w)
  /\ pc[w] = "scan" => NoneLive({n \in Stack(w) : AtOrUnder(n, node[w])})
  /\ pc[w] = "to_work" => /\ <<top_cp[w], node[w]>> \in Under
                          /\ NoneLive({n \in Stack(w) : <<n, node[w]>> \in Under})
  /\ pc[w] \in WithoutWork => NoneLive(Stack(w))
  /\ pc[w] \in {"above", "better"} => top_cp[w] # Root
  /\ w \in root => top_cp[w] = Root /\ pc[w] \in {"idle", "look", "ask", "end"}

SchedInv == \A w \in Worker : SchedFor(w)

Inv ==
  /\ TypeOK /\ ShapeInv /\ RunInv /\ BornInv /\ TakenInv
  /\ MembersExact /\ LinkInv /\ LiveNodesReachable /\ SchedInv
-----------------------------------------------------------------------------
(***************************************************************************)
(* Stacks in a state of the invariant.                                     *)
(***************************************************************************)

\* Top, youngest and public choice points of a worker.
LEMMA StackFacts ==
  ASSUME TypeOK, ShapeInv, NEW w \in Worker
  PROVE  /\ Stack(w) \subseteq Node /\ Private(w) \subseteq Stack(w)
         /\ \A n \in Stack(w) : n \in Private(w) <=> <<n, top_cp[w]>> \in Under
         /\ \A n \in Stack(w) : n \in Public(w) <=> AtOrUnder(top_cp[w], n)
         /\ Public(w) \subseteq Stack(w) /\ Public(w) \cap Private(w) = {}
         /\ Root \in Public(w) /\ top_cp[w] \in Public(w)
         /\ B(w) \in Stack(w) /\ \A n \in Stack(w) : AtOrUnder(B(w), n)
         /\ B(w) # top_cp[w] => B(w) \in Private(w)
<1>1. Stack(w) \in SUBSET Node /\ Path(Stack(w)) /\ top_cp[w] \in Stack(w) /\ Root \in Stack(w)
      BY DEF ShapeInv, Stack, Path
<1>2. Private(w) \subseteq Stack(w) /\ Public(w) = Stack(w) \ Private(w)
      BY DEF Private, Public
<1>3. \A n \in Stack(w) : n \in Private(w) <=> <<n, top_cp[w]>> \in Under
      BY DEF Private
<1>4. \A n, m \in Stack(w) : AtOrUnder(n, m) \/ <<m, n>> \in Under
      BY <1>1, PathFacts
<1>5. \A n \in Stack(w) : n \in Public(w) <=> AtOrUnder(top_cp[w], n)
      BY <1>1, <1>2, <1>3, <1>4, UnderFacts DEF AtOrUnder
<1>6. B(w) \in Stack(w) /\ \A n \in Stack(w) : AtOrUnder(B(w), n)
      BY <1>1, PathFacts DEF B
<1>7. Root \in Public(w) /\ top_cp[w] \in Public(w)
      BY <1>1, <1>2, <1>3, UnderFacts
<1>8. B(w) # top_cp[w] => B(w) \in Private(w)
      BY <1>1, <1>3, <1>6 DEF AtOrUnder
<1> QED BY <1>1, <1>2, <1>3, <1>5, <1>6, <1>7, <1>8

-----------------------------------------------------------------------------
(***************************************************************************)
(* The engine keeps the invariant.                                         *)
(***************************************************************************)

\* What try does: a new private choice point.
LEMMA TryFacts ==
  ASSUME Inv, NEW w \in Worker, Try(w)
  PROVE  LET c == Created(cur[w]) IN
         /\ c \in Node \ {Root} /\ <<c, 1>> \in Alternative /\ <<c, 1>> \notin taken
         /\ 2 \in 2 .. Len(Tree[c])
         /\ \A n \in Node : <<c, n>> \in Under <=> AtOrUnder(cur[w][1], n)
         /\ \A x \in Alternative : Created(x) = c => x = cur[w]
         /\ \A v \in Worker : c \notin Stack(v)
         /\ Stack(w)' = Stack(w) \cup {c} /\ Private(w)' = Private(w) \cup {c}
         /\ Public(w)' = Public(w)
         /\ \A v \in Worker \ {w} : /\ Stack(v)' = Stack(v) /\ Private(v)' = Private(v)
                                     /\ Public(v)' = Public(v)
         /\ cp_ap'[w][c] = 2 /\ \A n \in Node \ {c} : cp_ap'[w][n] = cp_ap[w][n]
         /\ \A v \in Worker \ {w} : cp_ap'[v] = cp_ap[v]
         /\ cur'[w] = <<c, 1>> /\ \A v \in Worker \ {w} : cur'[v] = cur[v]
         /\ taken' = taken \cup {<<c, 1>>}
<1> DEFINE c == Created(cur[w])
<1>1. cur[w] \in Alternative /\ Running(w)  BY DEF Inv, TypeOK, Try, Running
<1>2. c \in Node \ {Root}  BY <1>1, AlternativeFacts DEF Try
<1>3. 2 \in 2 .. Len(Tree[c]) /\ <<c, 1>> \in Alternative
  <2>1. Len(Tree[c]) \in Nat  BY <1>2, AlternativeFacts
  <2>2. Len(Tree[c]) > 1  BY <1>2, TreeAssumption
  <2> QED BY <2>1, <2>2, <1>2, AlternativeFacts
<1>4. <<c, 1>> \notin taken  BY <1>1 DEF Inv, RunInv
<1>5. \A n \in Node : <<c, n>> \in Under <=> AtOrUnder(cur[w][1], n)
      BY <1>1, OrderAssumption DEF Try
<1>6. \A x \in Alternative : Created(x) = c => x = cur[w]
      BY <1>1, <1>2, TreeAssumption
<1>7. \A v \in Worker : c \notin Stack(v)  BY <1>4 DEF Inv, BornInv
<1>8. /\ cp_ap'[w][c] = 2 /\ \A n \in Node \ {c} : cp_ap'[w][n] = cp_ap[w][n]
      /\ \A v \in Worker \ {w} : cp_ap'[v] = cp_ap[v]
      /\ top_cp' = top_cp
      BY <1>2 DEF Inv, TypeOK, Try, Take
<1>9. Stack(w)' = Stack(w) \cup {c} /\ \A v \in Worker \ {w} : Stack(v)' = Stack(v)
      BY <1>2, <1>8 DEF Stack, NULL
<1>10. top_cp[w] \in Node /\ AtOrUnder(cur[w][1], top_cp[w])
      BY <1>1 DEF Inv, TypeOK, ShapeInv, RunInv
<1>11. <<c, top_cp[w]>> \in Under  BY <1>5, <1>10
<1>12. /\ Private(w)' = Private(w) \cup {c} /\ Public(w)' = Public(w)
       /\ \A v \in Worker \ {w} : Private(v)' = Private(v) /\ Public(v)' = Public(v)
      BY <1>7, <1>8, <1>9, <1>11 DEF Private, Public
<1>13. /\ cur'[w] = <<c, 1>> /\ \A v \in Worker \ {w} : cur'[v] = cur[v]
       /\ taken' = taken \cup {<<c, 1>>}
      BY DEF Inv, TypeOK, Try, Take
<1> QED BY <1>2, <1>3, <1>4, <1>5, <1>6, <1>7, <1>8, <1>9, <1>12, <1>13

LEMMA TryShape ==
  ASSUME Inv, NEW w \in Worker, Try(w)
  PROVE  ShapeInv'
<1> DEFINE c == Created(cur[w])
<1>1. /\ c \in Node \ {Root} /\ \A v \in Worker : c \notin Stack(v)
      /\ \A n \in Node : <<c, n>> \in Under <=> AtOrUnder(cur[w][1], n)
      /\ Stack(w)' = Stack(w) \cup {c} /\ Private(w)' = Private(w) \cup {c}
      /\ Public(w)' = Public(w)
      /\ \A v \in Worker \ {w} : Stack(v)' = Stack(v) /\ Private(v)' = Private(v)
                                  /\ Public(v)' = Public(v)
      /\ cp_ap'[w][c] = 2 /\ \A n \in Node \ {c} : cp_ap'[w][n] = cp_ap[w][n]
      /\ \A v \in Worker \ {w} : cp_ap'[v] = cp_ap[v]
      /\ 2 \in 2 .. Len(Tree[c])
      BY TryFacts
<1>2. top_cp' = top_cp /\ Running(w)  BY DEF Try, Running
<1>3. \A v \in Worker : Stack(v) \in SUBSET Node /\ Private(v) \subseteq Stack(v)
                         /\ Public(v) \subseteq Stack(v)
      BY DEF Stack, Private, Public
<1>4. \A m \in Stack(w) : <<c, m>> \in Under
      BY <1>1, <1>2, <1>3 DEF Inv, RunInv
<1>5. \A v \in Worker : \A n \in Stack(v) : <<n, c>> \notin Under
  <2> SUFFICES ASSUME NEW v \in Worker, NEW n \in Stack(v), <<n, c>> \in Under PROVE FALSE
      OBVIOUS
  <2>1. <<c, 1>> \notin taken  BY TryFacts
  <2>2. <<n, 1>> \in taken /\ <<n, 1>>[1] = n /\ n \in Node  BY <1>3 DEF Inv, BornInv
  <2>3. AtOrUnder(<<n, 1>>[1], c)  BY <2>2 DEF AtOrUnder
  <2> QED BY <1>1, <2>1, <2>2, <2>3 DEF Inv, BornInv
<1>6. \A v \in Worker : \A m \in Stack(v) : <<c, m>> \in Under => m \in Stack(w)
      BY <1>1, <1>2, <1>3 DEF Inv, RunInv
<1> HIDE DEF c
<1>7. \A v \in Worker : Path(Stack(v))' /\ (top_cp[v] \in Stack(v))' /\ ApRight(v)'
  <2>1. Path(Stack(w) \cup {c})  BY <1>1, <1>3, <1>4, PathPush DEF Inv, ShapeInv
  <2>2. Path(Stack(w)') /\ top_cp'[w] \in Stack(w)'
        BY <1>1, <1>2, <2>1 DEF Inv, ShapeInv
  <2>3. ApRight(w)'
        BY <1>1, <1>3 DEF Inv, ShapeInv, ApRight
  <2>4. ASSUME NEW v \in Worker \ {w}
        PROVE  Path(Stack(v)') /\ top_cp'[v] \in Stack(v)' /\ ApRight(v)'
        BY <1>1, <1>2 DEF Inv, ShapeInv, ApRight
  <2> QED BY <2>2, <2>3, <2>4 DEF Path
<1>8. \A u, v \in Worker : u # v => Private(u)' \cap Stack(v)' = {}
      BY <1>1, <1>3 DEF Inv, ShapeInv
<1>9. \A u, v \in Worker : \A n \in Stack(u)', m \in Stack(v)' :
        <<n, m>> \in Under => m \in Stack(u)'
      BY <1>1, <1>3, <1>5, <1>6, UnderFacts DEF Inv, ShapeInv
<1> QED BY <1>7, <1>8, <1>9 DEF ShapeInv

LEMMA TryInv ==
  ASSUME Inv, NEW w \in Worker, Try(w)
  PROVE  Inv'
<1> DEFINE c == Created(cur[w])
<1>1. /\ c \in Node \ {Root} /\ \A v \in Worker : c \notin Stack(v)
      /\ <<c, 1>> \in Alternative /\ <<c, 1>> \notin taken
      /\ \A n \in Node : <<c, n>> \in Under <=> AtOrUnder(cur[w][1], n)
      /\ \A x \in Alternative : Created(x) = c => x = cur[w]
      /\ Stack(w)' = Stack(w) \cup {c} /\ Private(w)' = Private(w) \cup {c}
      /\ Public(w)' = Public(w)
      /\ \A v \in Worker \ {w} : Stack(v)' = Stack(v) /\ Private(v)' = Private(v)
                                  /\ Public(v)' = Public(v)
      /\ cp_ap'[w][c] = 2 /\ \A n \in Node \ {c} : cp_ap'[w][n] = cp_ap[w][n]
      /\ \A v \in Worker \ {w} : cp_ap'[v] = cp_ap[v]
      /\ cur'[w] = <<c, 1>> /\ \A v \in Worker \ {w} : cur'[v] = cur[v]
      /\ taken' = taken \cup {<<c, 1>>}
      BY TryFacts
<1>2. /\ Running(w) /\ pc[w] = "run" /\ cur[w] \in taken /\ c # Leaf
      /\ UNCHANGED <<pc, top_cp, alternative, members, nearest_livenode, node, target,
                     idle, root, invisible>>
      /\ \A v \in Worker : Running(v)' <=> Running(v)
      BY DEF Try, Running, Inv, RunInv, frames, locals, bitmaps
<1>3. \A v \in Worker : Stack(v) \in SUBSET Node /\ Private(v) \subseteq Stack(v)
                         /\ Public(v) \subseteq Stack(v)
      BY DEF Stack, Private, Public
<1>4. \A v \in Worker : cur[v] \in Alternative /\ taken \subseteq Alternative
      BY DEF Inv, TypeOK
<1>5. <<c, 1>>[1] = c /\ <<c, 1>>[2] = 1  OBVIOUS
<1>6. TypeOK'
  <2>1. 2 \in 2 .. Len(Tree[c])  BY TryFacts
  <2>2. cp_ap' \in [Worker -> [Node -> Int]]  BY <1>1 DEF Inv, TypeOK, Try
  <2>3. \A v \in Worker, n \in Node :
          cp_ap'[v][n] \in {NULL, GETWORK, GETWORK_SEQ} \cup (2 .. Len(Tree[n]))
        BY <1>1, <2>1 DEF Inv, TypeOK
  <2>4. cur' \in [Worker -> Alternative] /\ taken' \subseteq Alternative
        BY <1>1 DEF Inv, TypeOK, Try, Take
  <2> QED BY <1>2, <2>2, <2>3, <2>4 DEF Inv, TypeOK
<1>7. ShapeInv'  BY TryShape
<1> HIDE DEF c
<1>8. RunInv'
  <2> SUFFICES ASSUME NEW v \in Worker, Running(v)
      PROVE  /\ cur'[v] \in taken' /\ <<Created(cur'[v]), 1>> \notin taken'
             /\ \A m \in Stack(v)' : AtOrUnder(cur'[v][1], m)
             /\ \A u \in Worker : \A m \in Stack(u)' :
                  AtOrUnder(cur'[v][1], m) => m \in Stack(v)'
             /\ \A u \in Worker : Running(u) /\ cur'[u] = cur'[v] => u = v
      BY <1>2 DEF RunInv, Created
  <2>1. CASE v = w
    <3>1. cur'[v] = <<c, 1>> /\ cur'[v][1] = c  BY <2>1, <1>1
    <3>2. <<Created(<<c, 1>>), 1>> \notin taken'
      <4>1. Created(<<c, 1>>) \in Node => <<Created(<<c, 1>>), c>> \in Under
            BY <1>1, OrderAssumption, TreeAssumption, ZenonT(60) DEF AtOrUnder
      <4>2. Created(<<c, 1>>) # c  BY <4>1, <1>1, UnderFacts
      <4>3. ASSUME <<Created(<<c, 1>>), 1>> \in taken PROVE FALSE
        <5>1. Created(<<c, 1>>) \in Node  BY <4>3, <1>4, AlternativeFacts
        <5>2. <<Created(<<c, 1>>), 1>>[1] = Created(<<c, 1>>)  OBVIOUS
        <5>3. AtOrUnder(<<Created(<<c, 1>>), 1>>[1], c)  BY <4>1, <5>1, <5>2 DEF AtOrUnder
        <5> QED BY <4>3, <5>3, <1>1 DEF Inv, BornInv
      <4> QED BY <4>2, <4>3, <1>1
    <3>3. \A m \in Stack(w) : <<c, m>> \in Under
          BY <1>1, <1>2, <1>3 DEF Inv, RunInv
    <3>4. \A u \in Worker : \A m \in Stack(u) : <<c, m>> \in Under => m \in Stack(w)
          BY <1>1, <1>2, <1>3 DEF Inv, RunInv
    <3>5. \A u \in Worker : Running(u) /\ cur'[u] = <<c, 1>> => u = w
      <4>1. \A u \in Worker : Running(u) => cur[u] # <<c, 1>>
            BY <1>1, ZenonT(60) DEF Inv, RunInv
      <4> QED BY <4>1, <1>1
    <3> QED BY <2>1, <3>1, <3>2, <3>3, <3>4, <3>5, <1>1 DEF AtOrUnder
  <2>2. CASE v # w
    <3>1. cur'[v] = cur[v]  BY <2>2, <1>1
    <3>2. <<Created(cur[v]), 1>> \notin taken'
          BY <2>2, <1>1, <1>2, <1>4 DEF Inv, RunInv
    <3>3. ~ AtOrUnder(cur[v][1], c)
          BY <1>1 DEF Inv, BornInv, RunInv
    <3>4. \A u \in Worker : Running(u) /\ cur'[u] = cur[v] => u = v
      <4>1. \A u \in Worker : Running(u) /\ cur[u] = cur[v] => u = v
            BY DEF Inv, RunInv
      <4>2. cur[v] \in taken  BY DEF Inv, RunInv
      <4> QED BY <4>1, <4>2, <1>1
    <3> QED BY <2>2, <3>1, <3>2, <3>3, <3>4, <1>1 DEF Inv, RunInv
  <2> QED BY <2>1, <2>2
<1>9. BornInv'
  <2>1. Query \in taken' /\ \A v \in Worker : \A n \in Stack(v)' : <<n, 1>> \in taken'
        BY <1>1 DEF Inv, BornInv
  <2>2. \A y \in taken', m \in Node : AtOrUnder(y[1], m) => <<m, 1>> \in taken'
        BY <1>1, <1>2, <1>5 DEF Inv, BornInv, AtOrUnder
  <2>3. \A x \in Alternative : Created(x) # Leaf /\ <<Created(x), 1>> \in taken' => x \in taken'
        BY <1>1, <1>2 DEF Inv, BornInv
  <2>4. \A x \in taken' : Created(x) # Leaf =>
          <<Created(x), 1>> \in taken' \/ \E v \in Worker : Running(v) /\ cur'[v] = x
    <3> SUFFICES ASSUME NEW x \in taken', Created(x) # Leaf, <<Created(x), 1>> \notin taken'
        PROVE  \E v \in Worker : Running(v) /\ cur'[v] = x
        OBVIOUS
    <3>1. CASE x = <<c, 1>>  BY <3>1, <1>1, <1>2
    <3>2. CASE x # <<c, 1>>
      <4>1. PICK v \in Worker : Running(v) /\ cur[v] = x
            BY <3>2, <1>1 DEF Inv, BornInv
      <4>2. v # w  BY <4>1, <1>1 DEF c
      <4> QED BY <4>1, <4>2, <1>1
    <3> QED BY <3>1, <3>2
  <2> QED BY <2>1, <2>2, <2>3, <2>4, <1>2 DEF BornInv, Created
<1>10. TakenInv'
  <2>1. \A n \in Node \ {c}, next \in Int : UpTo(taken', n, next) <=> UpTo(taken, n, next)
        BY <1>1 DEF UpTo
  <2>2. UpTo(taken', c, 2)
    <3>1. \A a \in DOMAIN Tree[c] : <<c, a>> \in taken => FALSE
      <4> SUFFICES ASSUME NEW a \in DOMAIN Tree[c], <<c, a>> \in taken PROVE FALSE
          OBVIOUS
      <4>1. AtOrUnder(<<c, a>>[1], c)  BY DEF AtOrUnder
      <4> QED BY <4>1, <1>1 DEF Inv, BornInv
    <3>2. \A a \in DOMAIN Tree[c] : a \in Nat \ {0}  BY <1>1, AlternativeFacts
    <3>3. \A a \in DOMAIN Tree[c] : <<c, a>> \in taken' <=> a = 1  BY <1>1, <3>1
    <3> QED BY <3>2, <3>3 DEF UpTo, NULL
  <2>3. \A v \in Worker : \A n \in Private(v)' : UpTo(taken', n, cp_ap'[v][n])
    <3>1. \A v \in Worker, n \in Node : cp_ap[v][n] \in Int  BY DEF Inv, TypeOK
    <3>2. \A v \in Worker : \A n \in Private(v) : UpTo(taken', n, cp_ap'[v][n])
      <4> SUFFICES ASSUME NEW v \in Worker, NEW n \in Private(v)
          PROVE  UpTo(taken', n, cp_ap'[v][n])
          OBVIOUS
      <4>1. n # c /\ n \in Node  BY <1>1, <1>3
      <4>2. UpTo(taken', n, cp_ap[v][n])  BY <2>1, <3>1, <4>1 DEF Inv, TakenInv
      <4>3. cp_ap'[v][n] = cp_ap[v][n]  BY <4>1, <1>1
      <4> QED BY <4>2, <4>3
    <3>3. UpTo(taken', c, cp_ap'[w][c])  BY <2>2, <1>1
    <3>4. \A n \in Private(w)' : UpTo(taken', n, cp_ap'[w][n])
          BY <3>2, <3>3, <1>1
    <3>5. \A v \in Worker \ {w} : \A n \in Private(v)' : UpTo(taken', n, cp_ap'[v][n])
          BY <3>2, <1>1
    <3> QED BY <3>4, <3>5
  <2>4. \A v \in Worker : \A n \in Public(v)' : UpTo(taken', n, alternative[n])
    <3>1. \A n \in Node : alternative[n] \in Int  BY DEF Inv, TypeOK
    <3>2. \A v \in Worker : \A n \in Public(v) : UpTo(taken, n, alternative[n]) /\ n \in Node \ {c}
          BY <1>1, <1>3 DEF Inv, TakenInv
    <3>3. \A v \in Worker : Public(v)' = Public(v)  BY <1>1
    <3> QED BY <3>1, <3>2, <3>3, <2>1
  <2>5. \A n \in Node : <<n, 1>> \in taken' /\ (\A v \in Worker : n \notin Stack(v)')
                         => UpTo(taken', n, NULL)
    <3>1. NULL \in Int  BY DEF NULL
    <3> QED BY <3>1, <2>1, <1>1 DEF Inv, TakenInv
  <2> QED BY <2>3, <2>4, <2>5, <1>2 DEF TakenInv, UpTo
<1>11. MembersExact' /\ LinkInv' /\ LiveNodesReachable'
  <2>1. MembersExact'
        BY <1>1, <1>2 DEF Inv, MembersExact
  <2>2. LinkInv'
        BY <1>1, <1>2, <1>3 DEF Inv, LinkInv
  <2>3. LiveNodesReachable'
        BY <1>2 DEF Inv, LiveNodesReachable
  <2> QED BY <2>1, <2>2, <2>3
<1>12. SchedInv'
       BY <1>1, <1>2 DEF Inv, SchedInv, SchedFor, NoneLive, InEngine, Searching, WithoutWork
<1> QED BY <1>6, <1>7, <1>8, <1>9, <1>10, <1>11, <1>12 DEF Inv

\* An alternative that has not been taken creates a choice point that does not
\* exist, and nobody runs it.
LEMMA NewAlternative ==
  ASSUME Inv, NEW x \in Alternative \ taken
  PROVE  /\ <<Created(x), 1>> \notin taken
         /\ \A v \in Worker : Running(v) => cur[v] # x
<1>1. ASSUME <<Created(x), 1>> \in taken PROVE FALSE
  <2>1. Created(x) \in Node  BY <1>1, AlternativeFacts DEF Inv, TypeOK
  <2>2. Created(x) # Leaf  BY <2>1, TreeAssumption
  <2> QED BY <1>1, <2>2 DEF Inv, BornInv
<1>2. \A v \in Worker : Running(v) => cur[v] \in taken  BY DEF Inv, RunInv
<1> QED BY <1>1, <1>2

\* What retry does: the next alternative of the youngest choice point, which is
\* private; the last one pops it.
LEMMA RetryFacts ==
  ASSUME Inv, NEW w \in Worker, Retry(w)
  PROVE  LET n == B(w)
             a == cp_ap[w][n] IN
         /\ n \in Private(w) /\ n \in Node \ {Root} /\ n \in Stack(w)
         /\ a \in 2 .. Len(Tree[n]) /\ <<n, a>> \in Alternative \ taken
         /\ \A m \in Stack(w) : AtOrUnder(n, m)
         /\ \A v \in Worker \ {w} : n \notin Stack(v)
         /\ cp_ap'[w][n] = NextAlternative(n, a)
         /\ a < Len(Tree[n]) => /\ cp_ap'[w][n] = a + 1 /\ Stack(w)' = Stack(w)
                                /\ Private(w)' = Private(w)
         /\ a = Len(Tree[n]) => /\ Stack(w)' = Stack(w) \ {n}
                                /\ Private(w)' = Private(w) \ {n}
         /\ Public(w)' = Public(w)
         /\ \A v \in Worker \ {w} : /\ Stack(v)' = Stack(v) /\ Private(v)' = Private(v)
                                     /\ Public(v)' = Public(v)
         /\ \A m \in Node \ {n} : cp_ap'[w][m] = cp_ap[w][m]
         /\ \A v \in Worker \ {w} : cp_ap'[v] = cp_ap[v]
         /\ cur'[w] = <<n, a>> /\ \A v \in Worker \ {w} : cur'[v] = cur[v]
         /\ taken' = taken \cup {<<n, a>>}
         /\ ~ Running(w) /\ Running(w)' /\ \A v \in Worker \ {w} : pc'[v] = pc[v]
         /\ UNCHANGED <<top_cp, alternative, members, nearest_livenode, node, target,
                        idle, root, invisible>>
<1> DEFINE n == B(w)
           a == cp_ap[w][n]
<1>1. TypeOK /\ ShapeInv  BY DEF Inv
<1>2. n \in Private(w) /\ n \in Stack(w) /\ \A m \in Stack(w) : AtOrUnder(n, m)
      BY <1>1, StackFacts DEF Retry
<1>3. n \in Node \ {Root}  BY <1>1, <1>2, StackFacts
<1>4. a \in 2 .. Len(Tree[n]) /\ Len(Tree[n]) \in Nat
      BY <1>2, <1>3, AlternativeFacts DEF Inv, ShapeInv, ApRight
<1>5. <<n, a>> \in Alternative  BY <1>3, <1>4, AlternativeFacts
<1>6. <<n, a>> \notin taken
  <2>1. UpTo(taken, n, a)  BY <1>2 DEF Inv, TakenInv
  <2>2. a \in DOMAIN Tree[n] /\ a # NULL /\ ~ (a < a)  BY <1>3, <1>4, AlternativeFacts DEF NULL
  <2> QED BY <2>1, <2>2 DEF UpTo
<1>7. \A v \in Worker \ {w} : n \notin Stack(v)  BY <1>2 DEF Inv, ShapeInv
<1>8. /\ cp_ap'[w][n] = NextAlternative(n, a)
      /\ \A m \in Node \ {n} : cp_ap'[w][m] = cp_ap[w][m]
      /\ \A v \in Worker \ {w} : cp_ap'[v] = cp_ap[v]
      /\ cur'[w] = <<n, a>> /\ \A v \in Worker \ {w} : cur'[v] = cur[v]
      /\ taken' = taken \cup {<<n, a>>}
      BY <1>3 DEF Inv, TypeOK, Retry, Take
<1>9. /\ ~ Running(w) /\ Running(w)' /\ \A v \in Worker \ {w} : pc'[v] = pc[v]
      /\ UNCHANGED <<top_cp, alternative, members, nearest_livenode, node, target,
                     idle, root, invisible>>
      BY DEF Inv, TypeOK, Retry, Goto, Running, frames, locals, bitmaps
<1>10. cp_ap[w][n] # NULL  BY <1>2 DEF Stack
<1> HIDE DEF n
<1>11. CASE a < Len(Tree[n])
  <2>1. cp_ap'[w][n] = a + 1 /\ cp_ap'[w][n] # NULL
        BY <1>4, <1>8, <1>11 DEF NextAlternative, NULL
  <2>2. \A m \in Node : cp_ap'[w][m] # NULL <=> cp_ap[w][m] # NULL
        BY <2>1, <1>8, <1>10
  <2>3. Stack(w)' = Stack(w) /\ \A v \in Worker \ {w} : Stack(v)' = Stack(v)
        BY <2>2, <1>8 DEF Stack
  <2>4. a # Len(Tree[n])  BY <1>4, <1>11
  <2> HIDE DEF a
  <2>5. \A v \in Worker : Private(v)' = Private(v) /\ Public(v)' = Public(v)
        BY <2>3, <1>9 DEF Private, Public
  <2> QED BY <1>2, <1>3, <1>4, <1>5, <1>6, <1>7, <1>8, <1>9, <2>1, <2>3, <2>4, <2>5 DEF n, a
<1>12. CASE a = Len(Tree[n])
  <2>1. cp_ap'[w][n] = NULL
        BY <1>4, <1>8, <1>12 DEF NextAlternative
  <2>3. Stack(w)' = Stack(w) \ {n} /\ \A v \in Worker \ {w} : Stack(v)' = Stack(v)
        BY <2>1, <1>8 DEF Stack
  <2>4. ~ (a < Len(Tree[n]))  BY <1>4, <1>12
  <2> HIDE DEF a
  <2>5. /\ Private(w)' = Private(w) \ {n} /\ Public(w)' = Public(w)
        /\ \A v \in Worker \ {w} : Private(v)' = Private(v) /\ Public(v)' = Public(v)
        BY <2>3, <1>2, <1>9 DEF Private, Public
  <2> QED BY <1>2, <1>3, <1>4, <1>5, <1>6, <1>7, <1>8, <1>9, <2>3, <2>4, <2>5 DEF n, a
<1> QED BY <1>4, <1>11, <1>12

\* A worker that does not run takes the next alternative of n.
LEMMA TakeKeeps ==
  ASSUME Inv, NEW w \in Worker, NEW n \in Node, NEW a \in Nat, a # 1,
         <<n, a>> \in Alternative \ taken, <<n, 1>> \in taken,
         ~ Running(w), Running(w)', \A v \in Worker \ {w} : pc'[v] = pc[v],
         cur'[w] = <<n, a>>, \A v \in Worker \ {w} : cur'[v] = cur[v],
         taken' = taken \cup {<<n, a>>},
         \A v \in Worker : Stack(v)' \subseteq Stack(v),
         \A v \in Worker \ {w} : Stack(v)' = Stack(v),
         \A m \in Stack(w)' : AtOrUnder(n, m),
         \A v \in Worker : \A m \in Stack(v)' : AtOrUnder(n, m) => m \in Stack(w)'
  PROVE  RunInv' /\ BornInv'
<1> DEFINE x == <<n, a>>
<1>1. <<Created(x), 1>> \notin taken /\ \A v \in Worker : Running(v) => cur[v] # x
      BY NewAlternative
<1>2. \A v \in Worker \ {w} : Running(v)' <=> Running(v)  BY DEF Running
<1>3. x[1] = n /\ \A y : <<y, 1>> # x  OBVIOUS
<1>4. RunInv'
  <2> SUFFICES ASSUME NEW v \in Worker, Running(v)'
      PROVE  /\ cur'[v] \in taken' /\ <<Created(cur'[v]), 1>> \notin taken'
             /\ \A m \in Stack(v)' : AtOrUnder(cur'[v][1], m)
             /\ \A u \in Worker : \A m \in Stack(u)' :
                  AtOrUnder(cur'[v][1], m) => m \in Stack(v)'
             /\ \A u \in Worker : Running(u)' /\ cur'[u] = cur'[v] => u = v
      BY DEF RunInv, Created
  <2>1. CASE v = w
    <3>1. \A u \in Worker : Running(u)' /\ cur'[u] = x => u = w  BY <1>1, <1>2
    <3>2. <<Created(x), 1>> \notin taken'  BY <1>1, <1>3
    <3> QED BY <2>1, <1>3, <3>1, <3>2
  <2>2. CASE v # w
    <3>1. cur'[v] = cur[v] /\ Running(v)  BY <2>2, <1>2
    <3>2. cur[v] \in taken /\ <<Created(cur[v]), 1>> \notin taken'
          BY <3>1, <1>3 DEF Inv, RunInv
    <3>3. \A u \in Worker : Running(u)' /\ cur'[u] = cur[v] => u = v
      <4>1. \A u \in Worker : Running(u) /\ cur[u] = cur[v] => u = v
            BY <3>1 DEF Inv, RunInv
      <4>2. cur'[w] # cur[v]  BY <1>1, <3>1
      <4> QED BY <4>1, <4>2, <1>2
    <3>4. /\ \A m \in Stack(v) : AtOrUnder(cur[v][1], m)
          /\ \A u \in Worker : \A m \in Stack(u) :
                AtOrUnder(cur[v][1], m) => m \in Stack(v)
          BY <3>1 DEF Inv, RunInv
    <3> QED BY <2>2, <3>1, <3>2, <3>3, <3>4
  <2> QED BY <2>1, <2>2
<1>5. BornInv'
  <2>1. Query \in taken' /\ \A v \in Worker : \A m \in Stack(v)' : <<m, 1>> \in taken'
        BY DEF Inv, BornInv
  <2>2. \A y \in taken', m \in Node : AtOrUnder(y[1], m) => <<m, 1>> \in taken'
    <3>1. \A m \in Node : AtOrUnder(n, m) => <<m, 1>> \in taken
      <4>1. <<n, 1>>[1] = n  OBVIOUS
      <4> QED BY <4>1 DEF Inv, BornInv
    <3> QED BY <3>1, <1>3 DEF Inv, BornInv
  <2>3. \A y \in Alternative : Created(y) # Leaf /\ <<Created(y), 1>> \in taken' => y \in taken'
        BY <1>3 DEF Inv, BornInv
  <2>4. \A y \in taken' : Created(y) # Leaf =>
          <<Created(y), 1>> \in taken' \/ \E v \in Worker : Running(v)' /\ cur'[v] = y
    <3> SUFFICES ASSUME NEW y \in taken', Created(y) # Leaf, <<Created(y), 1>> \notin taken'
        PROVE  \E v \in Worker : Running(v)' /\ cur'[v] = y
        OBVIOUS
    <3>1. CASE y = x  BY <3>1
    <3>2. CASE y # x
      <4>1. PICK v \in Worker : Running(v) /\ cur[v] = y
            BY <3>2 DEF Inv, BornInv
      <4> QED BY <4>1, <1>2
    <3> QED BY <3>1, <3>2
  <2> QED BY <2>1, <2>2, <2>3, <2>4 DEF BornInv, Created
<1> QED BY <1>4, <1>5

\* Of what has been taken, only n's part changes.
LEMMA UpToElsewhere ==
  ASSUME Inv, NEW n \in Node, NEW a \in Nat, taken' = taken \cup {<<n, a>>}
  PROVE  \A m \in Node \ {n} : \A next : UpTo(taken', m, next) <=> UpTo(taken, m, next)
BY DEF UpTo

LEMMA UpToNext ==
  ASSUME NEW T, NEW n \in Node, NEW a \in 2 .. Len(Tree[n]), UpTo(T, n, a)
  PROVE  UpTo(T \cup {<<n, a>>}, n, NextAlternative(n, a))
<1>1. Len(Tree[n]) \in Nat /\ DOMAIN Tree[n] = 1 .. Len(Tree[n])  BY AlternativeFacts
<1>2. \A b \in 1 .. Len(Tree[n]) : <<n, b>> \in T <=> b < a
      BY <1>1 DEF UpTo, NULL
<1>3. \A b \in 1 .. Len(Tree[n]) : <<n, b>> \in T \cup {<<n, a>>} <=> b < a + 1
      BY <1>1, <1>2
<1>4. CASE a < Len(Tree[n])
  <2>1. NextAlternative(n, a) = a + 1 /\ a + 1 # NULL
        BY <1>1, <1>4 DEF NextAlternative, NULL
  <2> QED BY <2>1, <1>1, <1>3 DEF UpTo
<1>5. CASE a = Len(Tree[n])
      BY <1>1, <1>3, <1>5 DEF UpTo, NextAlternative, NULL
<1> QED BY <1>1, <1>4, <1>5

LEMMA RetryShape ==
  ASSUME Inv, NEW w \in Worker, Retry(w)
  PROVE  ShapeInv'
<1> DEFINE n == B(w)
           a == cp_ap[w][n]
<1>1. /\ n \in Private(w) /\ n \in Node \ {Root} /\ n \in Stack(w)
      /\ a \in 2 .. Len(Tree[n]) /\ \A m \in Stack(w) : AtOrUnder(n, m)
      /\ \A v \in Worker \ {w} : n \notin Stack(v)
      /\ a < Len(Tree[n]) => /\ cp_ap'[w][n] = a + 1 /\ Stack(w)' = Stack(w)
                             /\ Private(w)' = Private(w)
      /\ a = Len(Tree[n]) => /\ Stack(w)' = Stack(w) \ {n}
                             /\ Private(w)' = Private(w) \ {n}
      /\ Public(w)' = Public(w)
      /\ \A v \in Worker \ {w} : /\ Stack(v)' = Stack(v) /\ Private(v)' = Private(v)
                                  /\ Public(v)' = Public(v)
      /\ \A m \in Node \ {n} : cp_ap'[w][m] = cp_ap[w][m]
      /\ \A v \in Worker \ {w} : cp_ap'[v] = cp_ap[v]
      /\ top_cp' = top_cp
      BY RetryFacts
<1>2. \A v \in Worker : Stack(v) \in SUBSET Node /\ Private(v) \subseteq Stack(v)
                         /\ Public(v) \subseteq Stack(v)
      BY DEF Stack, Private, Public
<1>3. \A m \in Stack(w) : <<m, n>> \notin Under
      BY <1>1, <1>2, UnderFacts DEF AtOrUnder
<1>4. top_cp[w] # n /\ n \notin Public(w)
      BY <1>1, UnderFacts DEF Private, Public
<1>5. Len(Tree[n]) \in Nat  BY <1>1, AlternativeFacts
<1> HIDE DEF n, a
<1>6. Stack(w)' \subseteq Stack(w) /\ Private(w)' \subseteq Private(w)
      /\ \A m \in Stack(w) : m # n => m \in Stack(w)'
      BY <1>1, <1>5
<1>7. Path(Stack(w)')
  <2>1. Path(Stack(w))  BY DEF Inv, ShapeInv
  <2>2. Path(Stack(w) \ {n})  BY <2>1, <1>1, <1>2, PathPop
  <2>3. Stack(w)' = Stack(w) \/ Stack(w)' = Stack(w) \ {n}  BY <1>1, <1>5
  <2>4. CASE Stack(w)' = Stack(w)  BY <2>1, <2>4
  <2>5. CASE Stack(w)' = Stack(w) \ {n}  BY <2>2, <2>5
  <2> QED BY <2>3, <2>4, <2>5
<1>8. ApRight(w)'
  <2>1. \A m \in Private(w)' : cp_ap'[w][m] \in 2 .. Len(Tree[m])
    <3> SUFFICES ASSUME NEW m \in Private(w)' PROVE cp_ap'[w][m] \in 2 .. Len(Tree[m])
        OBVIOUS
    <3>1. CASE m # n  BY <3>1, <1>1, <1>2, <1>6 DEF Inv, ShapeInv, ApRight
    <3>2. CASE m = n
      <4>1. a < Len(Tree[n])  BY <3>2, <1>1, <1>5
      <4> QED BY <3>2, <4>1, <1>1, <1>5
    <3> QED BY <3>1, <3>2
  <2>2. \A m \in Public(w) : m # n /\ cp_ap'[w][m] = cp_ap[w][m]
        BY <1>1, <1>2, <1>4
  <2>3. \A m \in Public(w) : cp_ap'[w][m] = IF m \in Sequential THEN GETWORK_SEQ ELSE GETWORK
        BY <2>2 DEF Inv, ShapeInv, ApRight
  <2> QED BY <2>1, <2>3, <1>1 DEF ApRight
<1>9. \A v \in Worker : Path(Stack(v))' /\ (top_cp[v] \in Stack(v))' /\ ApRight(v)'
  <2>1. top_cp'[w] \in Stack(w)'
        BY <1>1, <1>4, <1>6 DEF Inv, ShapeInv
  <2>2. ASSUME NEW v \in Worker \ {w}
        PROVE  Path(Stack(v)') /\ top_cp'[v] \in Stack(v)' /\ ApRight(v)'
        BY <1>1 DEF Inv, ShapeInv, ApRight
  <2> QED BY <1>7, <1>8, <2>1, <2>2 DEF Path
<1>10. \A u, v \in Worker : u # v => Private(u)' \cap Stack(v)' = {}
       BY <1>1, <1>6 DEF Inv, ShapeInv
<1>11. \A u, v \in Worker : \A k \in Stack(u)', m \in Stack(v)' :
         <<k, m>> \in Under => m \in Stack(u)'
  <2> SUFFICES ASSUME NEW u \in Worker, NEW v \in Worker, NEW k \in Stack(u)',
                      NEW m \in Stack(v)', <<k, m>> \in Under
      PROVE  m \in Stack(u)'
      OBVIOUS
  <2>1. k \in Stack(u) /\ m \in Stack(v)  BY <1>1, <1>6
  <2>2. m \in Stack(u)  BY <2>1 DEF Inv, ShapeInv
  <2>3. CASE u = w  BY <2>1, <2>2, <2>3, <1>3, <1>6
  <2>4. CASE u # w  BY <2>2, <2>4, <1>1
  <2> QED BY <2>3, <2>4
<1> QED BY <1>9, <1>10, <1>11 DEF ShapeInv

LEMMA RetryInv ==
  ASSUME Inv, NEW w \in Worker, Retry(w)
  PROVE  Inv'
<1> DEFINE n == B(w)
           a == cp_ap[w][n]
<1>1. /\ n \in Private(w) /\ n \in Node \ {Root} /\ n \in Stack(w)
      /\ a \in 2 .. Len(Tree[n]) /\ <<n, a>> \in Alternative \ taken
      /\ \A m \in Stack(w) : AtOrUnder(n, m)
      /\ \A v \in Worker \ {w} : n \notin Stack(v)
      /\ cp_ap'[w][n] = NextAlternative(n, a)
      /\ a < Len(Tree[n]) => /\ cp_ap'[w][n] = a + 1 /\ Stack(w)' = Stack(w)
                             /\ Private(w)' = Private(w)
      /\ a = Len(Tree[n]) => /\ Stack(w)' = Stack(w) \ {n}
                             /\ Private(w)' = Private(w) \ {n}
      /\ Public(w)' = Public(w)
      /\ \A v \in Worker \ {w} : /\ Stack(v)' = Stack(v) /\ Private(v)' = Private(v)
                                  /\ Public(v)' = Public(v)
      /\ \A m \in Node \ {n} : cp_ap'[w][m] = cp_ap[w][m]
      /\ \A v \in Worker \ {w} : cp_ap'[v] = cp_ap[v]
      /\ cur'[w] = <<n, a>> /\ \A v \in Worker \ {w} : cur'[v] = cur[v]
      /\ taken' = taken \cup {<<n, a>>}
      /\ ~ Running(w) /\ Running(w)' /\ \A v \in Worker \ {w} : pc'[v] = pc[v]
      /\ UNCHANGED <<top_cp, alternative, members, nearest_livenode, node, target,
                     idle, root, invisible>>
      BY RetryFacts
<1>2. \A v \in Worker : Stack(v) \in SUBSET Node /\ Private(v) \subseteq Stack(v)
                         /\ Public(v) \subseteq Stack(v)
      BY DEF Stack, Private, Public
<1>3. \A m \in Stack(w) : <<m, n>> \notin Under
      BY <1>1, <1>2, UnderFacts DEF AtOrUnder
<1>4. Len(Tree[n]) \in Nat /\ a \in Nat /\ a # 1 /\ <<n, 1>> \in taken
      BY <1>1, AlternativeFacts DEF Inv, BornInv
<1>5. n \notin Public(w)  BY <1>1 DEF Public
<1>6. TypeOK'
  <2>1. NextAlternative(n, a) \in {NULL} \cup (2 .. Len(Tree[n])) /\ NextAlternative(n, a) \in Int
        BY <1>1, <1>4 DEF NextAlternative, NULL
  <2>2. cp_ap' \in [Worker -> [Node -> Int]]
        BY <1>1, <2>1 DEF Inv, TypeOK, Retry
  <2>3. \A v \in Worker, k \in Node :
          cp_ap'[v][k] \in {NULL, GETWORK, GETWORK_SEQ} \cup (2 .. Len(Tree[k]))
    <3> SUFFICES ASSUME NEW v \in Worker, NEW k \in Node
        PROVE cp_ap'[v][k] \in {NULL, GETWORK, GETWORK_SEQ} \cup (2 .. Len(Tree[k]))
        OBVIOUS
    <3>1. CASE v = w /\ k = n
      <4> HIDE DEF n, a
      <4> QED BY <3>1, <1>1, <2>1
    <3>2. CASE ~ (v = w /\ k = n)
      <4>1. cp_ap'[v][k] = cp_ap[v][k]  BY <3>2, <1>1
      <4> QED BY <4>1 DEF Inv, TypeOK
    <3> QED BY <3>1, <3>2
  <2>4. cur' \in [Worker -> Alternative] /\ taken' \subseteq Alternative
        BY <1>1 DEF Inv, TypeOK, Retry, Take
  <2>5. pc' \in [Worker -> Location]  BY DEF Inv, TypeOK, Retry, Goto, Location
  <2> QED BY <1>1, <2>2, <2>3, <2>4, <2>5 DEF Inv, TypeOK
<1>7. ShapeInv'  BY RetryShape
<1> HIDE DEF n, a
<1>8. Stack(w)' \subseteq Stack(w) /\ Private(w)' \subseteq Private(w)
      /\ \A m \in Stack(w) : m # n => m \in Stack(w)'
      BY <1>1, <1>4
<1>9. RunInv' /\ BornInv'
  <2>1. \A v \in Worker : Stack(v)' \subseteq Stack(v)  BY <1>1, <1>8
  <2>2. \A m \in Stack(w)' : AtOrUnder(n, m)  BY <1>1, <1>8
  <2>3. \A v \in Worker : \A m \in Stack(v)' : AtOrUnder(n, m) => m \in Stack(w)'
    <3> SUFFICES ASSUME NEW v \in Worker, NEW m \in Stack(v)', AtOrUnder(n, m)
        PROVE  m \in Stack(w)'
        OBVIOUS
    <3>1. CASE v = w  BY <3>1
    <3>2. CASE v # w
      <4>1. m \in Stack(v) /\ m # n  BY <3>2, <1>1
      <4>2. <<n, m>> \in Under  BY <4>1 DEF AtOrUnder
      <4>3. m \in Stack(w)  BY <4>1, <4>2, <1>1 DEF Inv, ShapeInv
      <4> QED BY <4>1, <4>3, <1>8
    <3> QED BY <3>1, <3>2
  <2> QED BY <1>1, <1>4, <2>1, <2>2, <2>3, TakeKeeps
<1>10. TakenInv'
  <2>1. \A m \in Node \ {n} : \A next : UpTo(taken', m, next) <=> UpTo(taken, m, next)
        BY <1>1, <1>4, UpToElsewhere
  <2>2. UpTo(taken', n, cp_ap'[w][n])
    <3>1. UpTo(taken, n, a)  BY <1>1 DEF Inv, TakenInv, a
    <3>2. UpTo(taken \cup {<<n, a>>}, n, NextAlternative(n, a))  BY <1>1, <3>1, UpToNext
    <3> QED BY <3>2, <1>1
  <2>3. \A v \in Worker : \A m \in Private(v)' : UpTo(taken', m, cp_ap'[v][m])
    <3>1. ASSUME NEW m \in Private(w)' PROVE UpTo(taken', m, cp_ap'[w][m])
      <4>1. CASE m = n  BY <2>2, <4>1
      <4>2. CASE m # n
        <5>1. m \in Private(w) /\ m \in Node \ {n} /\ cp_ap'[w][m] = cp_ap[w][m]
              BY <4>2, <1>1, <1>2, <1>8
        <5>2. UpTo(taken, m, cp_ap[w][m])  BY <5>1 DEF Inv, TakenInv
        <5>3. UpTo(taken', m, cp_ap[w][m])  BY <5>1, <5>2, <2>1
        <5> QED BY <5>1, <5>3
      <4> QED BY <4>1, <4>2
    <3>2. ASSUME NEW v \in Worker \ {w}, NEW m \in Private(v)' PROVE UpTo(taken', m, cp_ap'[v][m])
      <4>1. m \in Private(v) /\ m \in Node \ {n} /\ cp_ap'[v] = cp_ap[v]
            BY <1>1, <1>2
      <4>2. UpTo(taken, m, cp_ap[v][m])  BY <4>1 DEF Inv, TakenInv
      <4>3. UpTo(taken', m, cp_ap[v][m])  BY <4>1, <4>2, <2>1
      <4> QED BY <4>1, <4>3
    <3> QED BY <3>1, <3>2
  <2>4. \A v \in Worker : \A m \in Public(v)' : UpTo(taken', m, alternative[m])
    <3> SUFFICES ASSUME NEW v \in Worker, NEW m \in Public(v)'
        PROVE  UpTo(taken', m, alternative[m])
        OBVIOUS
    <3>1. m \in Public(v) /\ m \in Node \ {n}  BY <1>1, <1>2, <1>5
    <3>2. UpTo(taken, m, alternative[m])  BY <3>1 DEF Inv, TakenInv
    <3> QED BY <2>1, <3>1, <3>2
  <2>5. \A m \in Node : <<m, 1>> \in taken' /\ (\A v \in Worker : m \notin Stack(v)')
                         => UpTo(taken', m, NULL)
    <3> SUFFICES ASSUME NEW m \in Node, <<m, 1>> \in taken',
                        \A v \in Worker : m \notin Stack(v)'
        PROVE  UpTo(taken', m, NULL)
        OBVIOUS
    <3>1. CASE m = n
      <4>1. cp_ap'[w][n] = NULL  BY <3>1, <1>1 DEF Stack
      <4> QED BY <2>2, <3>1, <4>1
    <3>2. CASE m # n
      <4>1. <<m, 1>> \in taken /\ \A v \in Worker : m \notin Stack(v)
            BY <3>2, <1>1, <1>8
      <4>2. UpTo(taken, m, NULL)  BY <4>1 DEF Inv, TakenInv
      <4> QED BY <2>1, <3>2, <4>2
    <3> QED BY <3>1, <3>2
  <2> QED BY <2>3, <2>4, <2>5, <1>1 DEF TakenInv
<1>11. MembersExact' /\ LinkInv' /\ LiveNodesReachable'
  <2>1. MembersExact'
        BY <1>1 DEF Inv, MembersExact
  <2>2. LinkInv'
    <3>1. \A m \in Public(w) : nearest_livenode[m] # None =>
            nearest_livenode[m] \in Stack(w)' /\ <<m, nearest_livenode[m]>> \in Under
          BY <1>2, <1>3, <1>8 DEF Inv, LinkInv
    <3>2. \A v \in Worker \ {w} : \A m \in Public(v) : nearest_livenode[m] # None =>
            nearest_livenode[m] \in Stack(v)' /\ <<m, nearest_livenode[m]>> \in Under
          BY <1>1 DEF Inv, LinkInv
    <3> QED BY <3>1, <3>2, <1>1 DEF Inv, LinkInv
  <2>3. LiveNodesReachable'
        BY <1>1 DEF Inv, LiveNodesReachable
  <2> QED BY <2>1, <2>2, <2>3
<1>12. SchedInv'
  <2>1. pc'[w] = "run" /\ pc[w] = "fail"  BY <1>1 DEF Running, Retry, Goto
  <2> QED BY <1>1, <2>1 DEF Inv, SchedInv, SchedFor, NoneLive, InEngine, Searching, WithoutWork
<1> QED BY <1>6, <1>7, <1>9, <1>10, <1>11, <1>12 DEF Inv

\* Most steps leave the stacks alone.
LEMMA SameStacks ==
  ASSUME Inv, cp_ap' = cp_ap, top_cp' = top_cp
  PROVE  /\ \A v \in Worker : Stack(v)' = Stack(v) /\ Private(v)' = Private(v)
                              /\ Public(v)' = Public(v)
         /\ ShapeInv'
<1>1. \A v \in Worker : Stack(v)' = Stack(v) /\ Private(v)' = Private(v) /\ Public(v)' = Public(v)
      BY DEF Stack, Private, Public
<1>2. ASSUME NEW v \in Worker
      PROVE  Path(Stack(v)') /\ top_cp'[v] \in Stack(v)' /\ ApRight(v)'
      BY <1>1 DEF Inv, ShapeInv, ApRight
<1>3. \A u, v \in Worker : u # v => Private(u)' \cap Stack(v)' = {}
      BY <1>1 DEF Inv, ShapeInv
<1>4. \A u, v \in Worker : \A n \in Stack(u)', m \in Stack(v)' :
        <<n, m>> \in Under => m \in Stack(u)'
      BY <1>1 DEF Inv, ShapeInv
<1>5. ShapeInv'  BY <1>2, <1>3, <1>4 DEF ShapeInv, Path
<1> QED BY <1>1, <1>5

\* What getwork does: the next alternative of the top choice point.
LEMMA GetAlternativeInv ==
  ASSUME Inv, NEW w \in Worker, GetAlternative(w)
  PROVE  Inv'
<1> DEFINE n == top_cp[w]
           a == alternative[n]
<1>1. TypeOK /\ ShapeInv  BY DEF Inv
<1>2. /\ n \in Public(w) /\ n \in Stack(w) /\ \A m \in Stack(w) : AtOrUnder(n, m)
      BY <1>1, StackFacts DEF GetAlternative
<1>3. n \in Node \ {Root} /\ a # NULL
      BY <1>1, <1>2, StackFacts DEF GetAlternative, HasWork, Inv, LinkInv
<1>4. a \in 2 .. Len(Tree[n]) /\ Len(Tree[n]) \in Nat /\ a \in Nat /\ a # 1
      BY <1>3, AlternativeFacts DEF Inv, TypeOK
<1>5. <<n, a>> \in Alternative  BY <1>3, <1>4, AlternativeFacts
<1>6. UpTo(taken, n, a)  BY <1>2 DEF Inv, TakenInv
<1>7. <<n, a>> \notin taken
  <2>1. a \in DOMAIN Tree[n] /\ a # NULL /\ ~ (a < a)  BY <1>3, <1>4, AlternativeFacts DEF NULL
  <2> QED BY <2>1, <1>6 DEF UpTo
<1>8. <<n, 1>> \in taken  BY <1>2 DEF Inv, BornInv
<1>9. /\ alternative'[n] = NextAlternative(n, a)
      /\ \A m \in Node \ {n} : alternative'[m] = alternative[m]
      /\ cur'[w] = <<n, a>> /\ \A v \in Worker \ {w} : cur'[v] = cur[v]
      /\ taken' = taken \cup {<<n, a>>}
      BY <1>3 DEF Inv, TypeOK, GetAlternative, Take
<1>10. /\ ~ Running(w) /\ Running(w)' /\ \A v \in Worker \ {w} : pc'[v] = pc[v]
       /\ pc[w] = "fail" /\ pc'[w] = "run"
       /\ UNCHANGED <<cp_ap, top_cp, members, nearest_livenode, node, target,
                      idle, root, invisible>>
      BY DEF Inv, TypeOK, GetAlternative, Goto, Running, locals, bitmaps
<1>11. /\ \A v \in Worker : Stack(v)' = Stack(v) /\ Private(v)' = Private(v)
                            /\ Public(v)' = Public(v)
       /\ ShapeInv'
       BY <1>10, SameStacks
<1>12. \A v \in Worker : Stack(v) \in SUBSET Node /\ Private(v) \subseteq Stack(v)
                         /\ Public(v) \subseteq Stack(v)
      BY DEF Stack, Private, Public
<1>13. \A v \in Worker : n \notin Private(v)
  <2>1. \A v \in Worker \ {w} : n \notin Private(v)  BY <1>2 DEF Inv, ShapeInv
  <2>2. n \notin Private(w)  BY <1>2 DEF Public
  <2> QED BY <2>1, <2>2
<1>14. TypeOK'
  <2>1. NextAlternative(n, a) \in {NULL} \cup (2 .. Len(Tree[n])) /\ NextAlternative(n, a) \in Int
        BY <1>4 DEF NextAlternative, NULL
  <2>2. alternative' \in [Node -> Int]
        BY <1>3, <1>9, <2>1 DEF Inv, TypeOK, GetAlternative
  <2>3. \A k \in Node : alternative'[k] \in {NULL} \cup (2 .. Len(Tree[k]))
        BY <1>9, <2>1 DEF Inv, TypeOK
  <2>4. cur' \in [Worker -> Alternative] /\ taken' \subseteq Alternative
        BY <1>5, <1>9, ZenonT(60) DEF Inv, TypeOK, GetAlternative, Take
  <2>5. pc' \in [Worker -> Location]
        BY DEF Inv, TypeOK, GetAlternative, Goto, Location
  <2> QED BY <1>10, <2>2, <2>3, <2>4, <2>5 DEF Inv, TypeOK
<1>15. \A k \in Node : alternative[k] = NULL => alternative'[k] = NULL
       BY <1>3, <1>9
<1> HIDE DEF n, a
<1>16. RunInv' /\ BornInv'
  <2>1. \A v \in Worker : Stack(v)' \subseteq Stack(v)  BY <1>11
  <2>2. \A m \in Stack(w)' : AtOrUnder(n, m)  BY <1>2, <1>11
  <2>3. \A v \in Worker : \A m \in Stack(v)' : AtOrUnder(n, m) => m \in Stack(w)'
        BY <1>1, <1>2, <1>11 DEF ShapeInv, AtOrUnder
  <2> QED BY <1>3, <1>4, <1>5, <1>7, <1>8, <1>9, <1>10, <1>11, <2>1, <2>2, <2>3, TakeKeeps
<1>17. TakenInv'
  <2>1. \A m \in Node \ {n} : \A next : UpTo(taken', m, next) <=> UpTo(taken, m, next)
        BY <1>3, <1>4, <1>9, UpToElsewhere
  <2>2. UpTo(taken', n, alternative'[n])
    <3>1. UpTo(taken \cup {<<n, a>>}, n, NextAlternative(n, a))  BY <1>3, <1>4, <1>6, UpToNext
    <3> QED BY <3>1, <1>9
  <2>3. \A v \in Worker : \A m \in Private(v)' : UpTo(taken', m, cp_ap'[v][m])
    <3> SUFFICES ASSUME NEW v \in Worker, NEW m \in Private(v)'
        PROVE  UpTo(taken', m, cp_ap'[v][m])
        OBVIOUS
    <3>1. m \in Private(v) /\ m \in Node \ {n} /\ cp_ap' = cp_ap
          BY <1>10, <1>11, <1>12, <1>13
    <3>2. UpTo(taken, m, cp_ap[v][m])  BY <3>1 DEF Inv, TakenInv
    <3> QED BY <3>1, <3>2, <2>1
  <2>4. \A v \in Worker : \A m \in Public(v)' : UpTo(taken', m, alternative'[m])
    <3> SUFFICES ASSUME NEW v \in Worker, NEW m \in Public(v)'
        PROVE  UpTo(taken', m, alternative'[m])
        OBVIOUS
    <3>1. m \in Public(v) /\ m \in Node  BY <1>11, <1>12
    <3>2. UpTo(taken, m, alternative[m])  BY <3>1 DEF Inv, TakenInv
    <3>3. CASE m = n  BY <3>3, <2>2
    <3>4. CASE m # n  BY <3>1, <3>2, <3>4, <2>1, <1>9
    <3> QED BY <3>3, <3>4
  <2>5. \A m \in Node : <<m, 1>> \in taken' /\ (\A v \in Worker : m \notin Stack(v)')
                         => UpTo(taken', m, NULL)
    <3> SUFFICES ASSUME NEW m \in Node, <<m, 1>> \in taken',
                        \A v \in Worker : m \notin Stack(v)'
        PROVE  UpTo(taken', m, NULL)
        OBVIOUS
    <3>1. m # n /\ <<m, 1>> \in taken /\ \A v \in Worker : m \notin Stack(v)
          BY <1>2, <1>9, <1>11
    <3>2. UpTo(taken, m, NULL)  BY <3>1 DEF Inv, TakenInv
    <3> QED BY <2>1, <3>1, <3>2
  <2> QED BY <2>3, <2>4, <2>5 DEF TakenInv
<1>18. MembersExact' /\ LinkInv' /\ LiveNodesReachable'
  <2>1. MembersExact'
        BY <1>10, <1>11 DEF Inv, MembersExact
  <2>2. LinkInv'
        BY <1>10, <1>11, <1>15, TreeAssumption DEF Inv, LinkInv
  <2>3. LiveNodesReachable'
        BY <1>10, <1>15 DEF Inv, LiveNodesReachable
  <2> QED BY <2>1, <2>2, <2>3
<1>19. SchedInv'
       BY <1>10, <1>11, <1>12, <1>15
          DEF Inv, SchedInv, SchedFor, NoneLive, InEngine, Searching, WithoutWork
<1> QED BY <1>11, <1>14, <1>16, <1>17, <1>18, <1>19 DEF Inv

-----------------------------------------------------------------------------
(***************************************************************************)
(* move_up_one_node keeps the invariant.                                   *)
(***************************************************************************)

\* A worker that moves up has no private choice point; nothing that is left to
\* take goes with its top choice point.
MayMoveUp(w, live) ==
  /\ pc[w] \notin InEngine /\ top_cp[w] # Root
  /\ top_cp[w] \notin Sequential => alternative[top_cp[w]] = NULL
  /\ live # None => /\ live \in Stack(w) /\ <<top_cp[w], live>> \in Under
                    /\ NoneLive({m \in Stack(w) : <<m, live>> \in Under})

LEMMA MoveUpFacts ==
  ASSUME Inv, NEW w \in Worker, NEW live, MayMoveUp(w, live), MoveUp(w, live)
  PROVE  LET n == top_cp[w]
             u == top_cp'[w] IN
         /\ n \in Node \ {Root} /\ n \in Stack(w) /\ \A m \in Stack(w) : AtOrUnder(n, m)
         /\ Private(w) = {} /\ Public(w) = Stack(w)
         /\ u \in Stack(w) /\ <<n, u>> \in Under
         /\ \A m \in Stack(w) \ {n} : AtOrUnder(u, m)
         /\ \A v \in Worker : n \in Stack(v) => n \in Public(v)
         /\ members[n] = {w} => \A v \in Worker \ {w} : n \notin Stack(v)
         /\ Stack(w)' = Stack(w) \ {n} /\ Public(w)' = Stack(w) \ {n} /\ Private(w)' = {}
         /\ \A v \in Worker \ {w} : /\ Stack(v)' = Stack(v) /\ Private(v)' = Private(v)
                                     /\ Public(v)' = Public(v) /\ cp_ap'[v] = cp_ap[v]
                                     /\ top_cp'[v] = top_cp[v]
         /\ \A m \in Node \ {n} : cp_ap'[w][m] = cp_ap[w][m]
         /\ alternative' = alternative
         /\ members' = [members EXCEPT ![n] = @ \ {w}]
         /\ \A m \in Node \ {n} : nearest_livenode'[m] = nearest_livenode[m]
         /\ members[n] # {w} => nearest_livenode'[n] = IF live # None THEN live
                                                       ELSE nearest_livenode[n]
<1> DEFINE n == top_cp[w]
           u == top_cp'[w]
<1>1. TypeOK /\ ShapeInv /\ MembersExact  BY DEF Inv
<1>2. Stack(w) \in SUBSET Node /\ Path(Stack(w))  BY <1>1 DEF ShapeInv, Stack
<1>3. n \in Node \ {Root} /\ n \in Stack(w)
      BY <1>1 DEF TypeOK, ShapeInv, MayMoveUp
<1>4. \A m \in Stack(w) : AtOrUnder(n, m)
      BY DEF Inv, SchedInv, SchedFor, MayMoveUp
<1>5. Private(w) = {} /\ Public(w) = Stack(w)
  <2>1. \A m \in Stack(w) : <<m, n>> \notin Under
        BY <1>2, <1>3, <1>4, UnderFacts DEF AtOrUnder
  <2> QED BY <2>1 DEF Private, Public
<1>6. u \in Stack(w) /\ <<n, u>> \in Under /\ \A m \in Stack(w) : <<n, m>> \in Under => AtOrUnder(u, m)
  <2>1. u = Youngest({m \in Stack(w) : <<n, m>> \in Under})
        BY <1>1 DEF MoveUp, CpB, TypeOK
  <2> QED BY <2>1, <1>2, <1>3, PathFacts
<1>7. \A m \in Stack(w) \ {n} : AtOrUnder(u, m)
      BY <1>4, <1>6 DEF AtOrUnder
<1>8. \A v \in Worker : n \in Stack(v) => n \in Public(v)
  <2>1. \A v \in Worker \ {w} : n \notin Private(v)  BY <1>1, <1>3 DEF ShapeInv
  <2> QED BY <2>1, <1>3, <1>5 DEF Public
<1>9. members[n] = {w} => \A v \in Worker \ {w} : n \notin Stack(v)
      BY <1>1, <1>3, <1>8 DEF MembersExact
<1>10. /\ cp_ap'[w][n] = NULL /\ \A m \in Node \ {n} : cp_ap'[w][m] = cp_ap[w][m]
       /\ \A v \in Worker \ {w} : cp_ap'[v] = cp_ap[v] /\ top_cp'[v] = top_cp[v]
       BY <1>1, <1>3 DEF TypeOK, MoveUp
<1>11. Stack(w)' = Stack(w) \ {n} /\ \A v \in Worker \ {w} : Stack(v)' = Stack(v)
       BY <1>3, <1>10 DEF Stack
<1>12. Private(w)' = {}
  <2>1. \A m \in Stack(w) \ {n} : <<m, u>> \notin Under
        BY <1>2, <1>6, <1>7, UnderFacts DEF AtOrUnder
  <2> QED BY <2>1, <1>11 DEF Private
<1>13. Public(w)' = Stack(w) \ {n}  BY <1>11, <1>12 DEF Public
<1>14. \A v \in Worker \ {w} : Private(v)' = Private(v) /\ Public(v)' = Public(v)
       BY <1>10, <1>11 DEF Private, Public
<1>15. members[n] = {w} => alternative[n] = NULL
       BY DEF MoveUp, LastInSequential, MayMoveUp
<1>16. alternative' = alternative
       BY <1>1, <1>3, <1>15 DEF TypeOK, MoveUp
<1>17. /\ members' = [members EXCEPT ![n] = @ \ {w}]
       /\ \A m \in Node \ {n} : nearest_livenode'[m] = nearest_livenode[m]
       /\ members[n] # {w} => nearest_livenode'[n] = IF live # None THEN live
                                                     ELSE nearest_livenode[n]
       BY <1>1, <1>3 DEF TypeOK, MoveUp
<1> HIDE DEF n, u
<1>18. /\ Stack(w)' = Stack(w) \ {n} /\ Public(w)' = Stack(w) \ {n} /\ Private(w)' = {}
       /\ \A v \in Worker \ {w} : /\ Stack(v)' = Stack(v) /\ Private(v)' = Private(v)
                                   /\ Public(v)' = Public(v) /\ cp_ap'[v] = cp_ap[v]
                                   /\ top_cp'[v] = top_cp[v]
       BY <1>10, <1>11, <1>12, <1>13, <1>14
<1> QED BY <1>3, <1>4, <1>5, <1>6, <1>7, <1>8, <1>9, <1>10, <1>16, <1>17, <1>18 DEF n, u

LEMMA MoveUpShape ==
  ASSUME Inv, NEW w \in Worker, NEW live, MayMoveUp(w, live), MoveUp(w, live)
  PROVE  ShapeInv'
<1> DEFINE n == top_cp[w]
           u == top_cp'[w]
<1>1. /\ n \in Node \ {Root} /\ n \in Stack(w) /\ \A m \in Stack(w) : AtOrUnder(n, m)
      /\ Private(w) = {} /\ Public(w) = Stack(w)
      /\ u \in Stack(w) /\ <<n, u>> \in Under
      /\ Stack(w)' = Stack(w) \ {n} /\ Public(w)' = Stack(w) \ {n} /\ Private(w)' = {}
      /\ \A v \in Worker \ {w} : /\ Stack(v)' = Stack(v) /\ Private(v)' = Private(v)
                                  /\ Public(v)' = Public(v) /\ cp_ap'[v] = cp_ap[v]
                                  /\ top_cp'[v] = top_cp[v]
      /\ \A m \in Node \ {n} : cp_ap'[w][m] = cp_ap[w][m]
      BY MoveUpFacts
<1>2. \A v \in Worker : Stack(v) \in SUBSET Node /\ Private(v) \subseteq Stack(v)
      BY DEF Stack, Private
<1>3. \A m \in Stack(w) : <<m, n>> \notin Under
      BY <1>1, <1>2, UnderFacts DEF AtOrUnder
<1> HIDE DEF n, u
<1>4. Path(Stack(w)')
  <2>1. Path(Stack(w) \ {n})  BY <1>1, <1>2, PathPop DEF Inv, ShapeInv
  <2>2. Stack(w)' = Stack(w) \ {n}  BY <1>1
  <2> QED BY <2>1, <2>2
<1>5. ApRight(w)'
      BY <1>1, <1>2 DEF Inv, ShapeInv, ApRight
<1>6. top_cp'[w] \in Stack(w)'
      BY <1>1, <1>2, UnderFacts DEF u
<1>7. \A v \in Worker \ {w} : Path(Stack(v)') /\ top_cp'[v] \in Stack(v)' /\ ApRight(v)'
      BY <1>1 DEF Inv, ShapeInv, ApRight
<1>8. \A v, x \in Worker : v # x => Private(v)' \cap Stack(x)' = {}
      BY <1>1 DEF Inv, ShapeInv
<1>9. \A v, x \in Worker : \A k \in Stack(v)', m \in Stack(x)' :
        <<k, m>> \in Under => m \in Stack(v)'
  <2> SUFFICES ASSUME NEW v \in Worker, NEW x \in Worker, NEW k \in Stack(v)',
                      NEW m \in Stack(x)', <<k, m>> \in Under
      PROVE  m \in Stack(v)'
      OBVIOUS
  <2>1. k \in Stack(v) /\ m \in Stack(x)  BY <1>1
  <2>2. m \in Stack(v)  BY <2>1 DEF Inv, ShapeInv
  <2>3. CASE v = w  BY <2>1, <2>2, <2>3, <1>1, <1>3
  <2>4. CASE v # w  BY <2>2, <2>4, <1>1
  <2> QED BY <2>3, <2>4
<1> QED BY <1>4, <1>5, <1>6, <1>7, <1>8, <1>9 DEF ShapeInv, Path

\* What has been taken, and by whom, stays as it is.
LEMMA MoveUpTaken ==
  ASSUME Inv, NEW w \in Worker, NEW live, MayMoveUp(w, live), MoveUp(w, live),
         cur' = cur, taken' = taken, \A v \in Worker : Running(v)' <=> Running(v)
  PROVE  RunInv' /\ BornInv' /\ TakenInv'
<1> DEFINE n == top_cp[w]
<1>1. /\ n \in Node /\ n \in Stack(w)
      /\ Private(w) = {} /\ Public(w) = Stack(w)
      /\ \A v \in Worker : n \in Stack(v) => n \in Public(v)
      /\ members[n] = {w} => \A v \in Worker \ {w} : n \notin Stack(v)
      /\ Stack(w)' = Stack(w) \ {n} /\ Public(w)' = Stack(w) \ {n} /\ Private(w)' = {}
      /\ \A v \in Worker \ {w} : /\ Stack(v)' = Stack(v) /\ Private(v)' = Private(v)
                                  /\ Public(v)' = Public(v) /\ cp_ap'[v] = cp_ap[v]
      /\ alternative' = alternative
      BY MoveUpFacts
<1>2. ~ Running(w)  BY DEF MayMoveUp, Running, InEngine
<1>3. (\A v \in Worker \ {w} : n \notin Stack(v)) => alternative[n] = NULL
  <2>1. (\A v \in Worker \ {w} : n \notin Public(v)) => members[n] = {w}
        BY <1>1 DEF Inv, MembersExact
  <2>2. \A v \in Worker : Public(v) \subseteq Stack(v)  BY DEF Public
  <2>3. members[n] = {w} => alternative[n] = NULL
        BY DEF MoveUp, LastInSequential, MayMoveUp
  <2> QED BY <2>1, <2>2, <2>3
<1> HIDE DEF n
<1>4. RunInv'
  <2> SUFFICES ASSUME NEW v \in Worker, Running(v)
      PROVE  /\ cur[v] \in taken /\ <<Created(cur[v]), 1>> \notin taken
             /\ \A m \in Stack(v)' : AtOrUnder(cur[v][1], m)
             /\ \A x \in Worker : \A m \in Stack(x)' :
                  AtOrUnder(cur[v][1], m) => m \in Stack(v)'
             /\ \A x \in Worker : Running(x) /\ cur[x] = cur[v] => x = v
      BY DEF RunInv, Created
  <2>1. v # w /\ Stack(v)' = Stack(v)  BY <1>1, <1>2
  <2>2. \A x \in Worker : Stack(x)' \subseteq Stack(x)  BY <1>1
  <2> QED BY <2>1, <2>2 DEF Inv, RunInv
<1>5. BornInv'
  <2>1. \A v \in Worker : \A m \in Stack(v)' : <<m, 1>> \in taken
        BY <1>1 DEF Inv, BornInv
  <2> QED BY <2>1 DEF Inv, BornInv, Created
<1>6. TakenInv'
  <2>1. \A v \in Worker : \A m \in Private(v)' : UpTo(taken, m, cp_ap'[v][m])
        BY <1>1 DEF Inv, TakenInv
  <2>2. \A v \in Worker : \A m \in Public(v)' : UpTo(taken, m, alternative[m])
        BY <1>1 DEF Inv, TakenInv
  <2>3. \A m \in Node : <<m, 1>> \in taken /\ (\A v \in Worker : m \notin Stack(v)')
                         => UpTo(taken, m, NULL)
    <3> SUFFICES ASSUME NEW m \in Node, <<m, 1>> \in taken,
                        \A v \in Worker : m \notin Stack(v)'
        PROVE  UpTo(taken, m, NULL)
        OBVIOUS
    <3>1. CASE m = n
      <4>1. UpTo(taken, n, alternative[n])  BY <1>1 DEF Inv, TakenInv
      <4>2. alternative[n] = NULL  BY <3>1, <1>1, <1>3
      <4> QED BY <3>1, <4>1, <4>2
    <3>2. CASE m # n
      <4>1. \A v \in Worker : m \notin Stack(v)  BY <3>2, <1>1
      <4> QED BY <4>1 DEF Inv, TakenInv
    <3> QED BY <3>1, <3>2
  <2> QED BY <2>1, <2>2, <2>3, <1>1 DEF TakenInv
<1> QED BY <1>4, <1>5, <1>6

\* The or-frames: the worker has left n, and live is its nearest one with work.
LEMMA MoveUpFrames ==
  ASSUME Inv, NEW w \in Worker, NEW live, MayMoveUp(w, live), MoveUp(w, live)
  PROVE  MembersExact' /\ LinkInv' /\ LiveNodesReachable'
<1> DEFINE n == top_cp[w]
<1>1. /\ n \in Node /\ n \in Stack(w) /\ \A m \in Stack(w) : AtOrUnder(n, m)
      /\ Private(w) = {} /\ Public(w) = Stack(w)
      /\ \A v \in Worker : n \in Stack(v) => n \in Public(v)
      /\ members[n] = {w} => \A v \in Worker \ {w} : n \notin Stack(v)
      /\ Stack(w)' = Stack(w) \ {n} /\ Public(w)' = Stack(w) \ {n}
      /\ \A v \in Worker \ {w} : Stack(v)' = Stack(v) /\ Public(v)' = Public(v)
      /\ alternative' = alternative
      /\ members' = [members EXCEPT ![n] = @ \ {w}]
      /\ \A m \in Node \ {n} : nearest_livenode'[m] = nearest_livenode[m]
      /\ members[n] # {w} => nearest_livenode'[n] = IF live # None THEN live
                                                    ELSE nearest_livenode[n]
      BY MoveUpFacts, ZenonT(60)
<1>2. \A v \in Worker : Stack(v) \in SUBSET Node /\ Public(v) \subseteq Stack(v)
      BY DEF Stack, Public
<1>3. \A m \in Node : members[m] = {v \in Worker : m \in Public(v)}
      BY DEF Inv, MembersExact
<1>4. live # None => /\ live \in Stack(w) /\ <<n, live>> \in Under /\ live \in Node
                     /\ \A m \in Stack(w) : <<m, live>> \in Under /\ m \notin Sequential
                                              => alternative[m] = NULL
      BY <1>2 DEF MayMoveUp, NoneLive
<1>5. \A m \in Node : members'[m] = IF m = n THEN members[m] \ {w} ELSE members[m]
      BY <1>1 DEF Inv, TypeOK
<1> HIDE DEF n
<1>6. MembersExact'
      BY <1>1, <1>3, <1>5 DEF MembersExact
<1>7. \A v \in Worker \ {w} : n \in Stack(v) => members[n] # {w}
      BY <1>1
<1>8. LinkInv'
  <2> SUFFICES ASSUME NEW v \in Worker, NEW m \in Public(v)', nearest_livenode'[m] # None
      PROVE  nearest_livenode'[m] \in Stack(v)' /\ <<m, nearest_livenode'[m]>> \in Under
      BY <1>1 DEF LinkInv, Inv
  <2>1. CASE m # n
    <3>1. m \in Public(v) /\ nearest_livenode'[m] = nearest_livenode[m] /\ m \in Node
          BY <2>1, <1>1, <1>2
    <3>2. nearest_livenode[m] \in Stack(v) /\ <<m, nearest_livenode[m]>> \in Under
          BY <3>1 DEF Inv, LinkInv
    <3>3. CASE v = w
      <4>1. AtOrUnder(n, m)  BY <3>1, <3>3, <1>1
      <4>2. nearest_livenode[m] # n  BY <3>1, <3>2, <4>1, <1>1, UnderFacts
      <4> QED BY <3>1, <3>2, <3>3, <4>2, <1>1
    <3>4. CASE v # w  BY <3>1, <3>2, <3>4, <1>1
    <3> QED BY <3>3, <3>4
  <2>2. CASE m = n
    <3>1. v # w  BY <2>2, <1>1
    <3>2. m \in Public(v) /\ m \in Stack(v)  BY <3>1, <1>1, <1>2
    <3>3. nearest_livenode'[m] = IF live # None THEN live ELSE nearest_livenode[m]
          BY <2>2, <3>1, <3>2, <1>1, <1>7
    <3>4. CASE live = None
          BY <3>1, <3>2, <3>3, <3>4, <1>1 DEF Inv, LinkInv
    <3>5. CASE live # None
      <4>1. live \in Stack(v)  BY <2>2, <3>2, <3>5, <1>4 DEF Inv, ShapeInv
      <4> QED BY <2>2, <3>1, <3>3, <3>5, <4>1, <1>1, <1>4
    <3> QED BY <3>4, <3>5
  <2> QED BY <2>1, <2>2
<1>9. LiveNodesReachable'
  <2> SUFFICES ASSUME NEW k \in Node, NEW m \in Node, members'[k] # {}, members'[m] # {},
                      <<k, m>> \in Under, alternative[m] # NULL, m \notin Sequential
      PROVE  nearest_livenode'[k] # None /\ AtOrUnder(nearest_livenode'[k], m)
      BY <1>1 DEF LiveNodesReachable
  <2>1. members[k] # {} /\ members[m] # {}  BY <1>5
  <2>2. nearest_livenode[k] # None /\ AtOrUnder(nearest_livenode[k], m)
        BY <2>1 DEF Inv, LiveNodesReachable
  <2>3. CASE k # n  BY <2>2, <2>3, <1>1
  <2>4. CASE k = n
    <3>1. members[n] # {w}  BY <2>4, <1>5
    <3>2. CASE live = None  BY <2>2, <2>4, <3>1, <3>2, <1>1
    <3>3. CASE live # None
      <4>1. PICK v \in Worker : m \in Public(v)  BY <2>1, <1>3
      <4>2. m \in Stack(w)
            BY <4>1, <2>4, <1>1, <1>2 DEF Inv, ShapeInv
      <4>3. <<m, live>> \notin Under  BY <4>2, <3>3, <1>4
      <4>4. AtOrUnder(live, m)
        <5>1. Path(Stack(w))  BY DEF Inv, ShapeInv
        <5>2. AtOrUnder(live, m) \/ <<m, live>> \in Under
              BY <5>1, <4>2, <3>3, <1>2, <1>4, PathFacts
        <5> QED BY <5>2, <4>3
      <4> QED BY <2>4, <3>1, <3>3, <4>4, <1>1
    <3> QED BY <3>2, <3>3
  <2> QED BY <2>3, <2>4
<1> QED BY <1>6, <1>8, <1>9

\* What a step leaves to the workers that take no part in it.
LEMMA SchedOthers ==
  ASSUME Inv, NEW v \in Worker, Stack(v)' = Stack(v), top_cp'[v] = top_cp[v],
         pc'[v] = pc[v] \/ (pc[v] = "ask" /\ pc'[v] = "look"), node'[v] = node[v],
         \A n \in Stack(v) : alternative[n] = NULL => alternative'[n] = NULL,
         v \in root' => v \in root
  PROVE  SchedFor(v)'
<1>1. SchedFor(v)  BY DEF Inv, SchedInv
<1> QED BY <1>1 DEF SchedFor, NoneLive, InEngine, Searching, WithoutWork

\* The part of the type invariant that move_up_one_node is about.
LEMMA MoveUpTypes ==
  ASSUME Inv, NEW w \in Worker, NEW live \in Node \cup {None}, MayMoveUp(w, live),
         MoveUp(w, live)
  PROVE  /\ cp_ap' \in [Worker -> [Node -> Int]] /\ top_cp' \in [Worker -> Node]
         /\ \A v \in Worker, n \in Node :
              cp_ap'[v][n] \in {NULL, GETWORK, GETWORK_SEQ} \cup (2 .. Len(Tree[n]))
         /\ members' \in [Node -> SUBSET Worker]
         /\ nearest_livenode' \in [Node -> Node \cup {None}]
<1>1. TypeOK  BY DEF Inv
<1>2. CpB(w, top_cp[w]) \in Node
  <2>1. Stack(w) \in SUBSET Node /\ Path(Stack(w)) /\ top_cp[w] \in Stack(w) \ {Root}
        BY DEF Inv, ShapeInv, Stack, MayMoveUp
  <2> QED BY <2>1, PathFacts, ZenonT(60) DEF CpB
<1>3. cp_ap' \in [Worker -> [Node -> Int]]
  <2>1. cp_ap' = [cp_ap EXCEPT ![w][top_cp[w]] = NULL] /\ NULL \in Int
        BY DEF MoveUp, NULL
  <2> QED BY <1>1, <2>1 DEF TypeOK
<1>4. ASSUME NEW v \in Worker, NEW n \in Node
      PROVE  cp_ap'[v][n] \in {NULL, GETWORK, GETWORK_SEQ} \cup (2 .. Len(Tree[n]))
  <2>1. cp_ap'[v][n] = cp_ap[v][n] \/ cp_ap'[v][n] = NULL  BY <1>1 DEF TypeOK, MoveUp
  <2> QED BY <2>1, <1>1 DEF TypeOK
<1>5. top_cp' \in [Worker -> Node]  BY <1>1, <1>2 DEF TypeOK, MoveUp
<1>6. members' \in [Node -> SUBSET Worker]  BY <1>1 DEF TypeOK, MoveUp
<1>7. nearest_livenode' \in [Node -> Node \cup {None}]
  <2>1. nearest_livenode[top_cp[w]] \in Node \cup {None}  BY <1>1 DEF TypeOK
  <2> QED BY <1>1, <2>1 DEF TypeOK, MoveUp
<1> QED BY <1>3, <1>4, <1>5, <1>6, <1>7

LEMMA ToWorkInv ==
  ASSUME Inv, NEW w \in Worker, ToWork(w)
  PROVE  Inv'
<1>1. /\ pc[w] = "to_work" /\ MoveUp(w, node[w])
      /\ pc' = [pc EXCEPT ![w] = IF top_cp'[w] = node[w] THEN "fail" ELSE "to_work"]
      /\ UNCHANGED <<cur, node, target, idle, root, invisible, taken>>
      BY DEF ToWork, Goto, locals, bitmaps
<1>2. TypeOK /\ ShapeInv /\ SchedFor(w)  BY DEF Inv, SchedInv
<1>3. node[w] \in Stack(w) /\ <<top_cp[w], node[w]>> \in Under /\ node[w] \in Node
      /\ NoneLive({n \in Stack(w) : <<n, node[w]>> \in Under})
      BY <1>1, <1>2 DEF SchedFor, TypeOK, Searching
<1>4. MayMoveUp(w, node[w])
  <2>1. top_cp[w] \in Stack(w) /\ top_cp[w] # Root
        BY <1>2, <1>3, OrderAssumption DEF ShapeInv
  <2> QED BY <1>1, <1>3, <2>1 DEF MayMoveUp, NoneLive, InEngine
<1>5. /\ Stack(w)' = Stack(w) \ {top_cp[w]} /\ alternative' = alternative
      /\ \A m \in Stack(w) \ {top_cp[w]} : AtOrUnder(top_cp'[w], m)
      /\ \A v \in Worker \ {w} : Stack(v)' = Stack(v) /\ top_cp'[v] = top_cp[v]
      /\ top_cp[w] \in Node
      BY <1>1, <1>4, MoveUpFacts
<1>6. pc' \in [Worker -> Location] /\ \A v \in Worker \ {w} : pc'[v] = pc[v]
      BY <1>1, <1>2 DEF TypeOK, Location
<1>7. \A v \in Worker : Running(v)' <=> Running(v)
      BY <1>1, <1>2, <1>6 DEF TypeOK, Running
<1>8. TypeOK'
      BY <1>1, <1>2, <1>3, <1>4, <1>5, <1>6, MoveUpTypes DEF TypeOK
<1>9. /\ ShapeInv' /\ RunInv' /\ BornInv' /\ TakenInv'
      /\ MembersExact' /\ LinkInv' /\ LiveNodesReachable'
      BY <1>1, <1>4, <1>7, MoveUpShape, MoveUpTaken, MoveUpFrames
<1>10. SchedFor(w)'
  <2>1. w \notin root  BY <1>1, <1>2 DEF SchedFor
  <2>2. CASE top_cp'[w] = node[w]
    <3>1. pc'[w] = "fail"  BY <2>2, <1>1, <1>2 DEF TypeOK
    <3> QED BY <3>1, <2>1, <1>1 DEF SchedFor, InEngine, Searching, WithoutWork
  <2>3. CASE top_cp'[w] # node[w]
    <3>1. pc'[w] = "to_work"  BY <2>3, <1>1, <1>2 DEF TypeOK
    <3>2. node[w] \in Stack(w)' /\ node[w] # top_cp[w]
          BY <1>3, <1>5, UnderFacts
    <3>3. <<top_cp'[w], node[w]>> \in Under
          BY <2>3, <3>2, <1>5 DEF AtOrUnder
    <3>4. \A n \in Stack(w)' : <<n, node[w]>> \in Under /\ n \notin Sequential
                               => alternative'[n] = NULL
          BY <1>3, <1>5, <1>1 DEF NoneLive
    <3> QED BY <2>1, <3>1, <3>2, <3>3, <3>4, <1>1, <1>5
            DEF SchedFor, NoneLive, InEngine, Searching, WithoutWork
  <2> QED BY <2>2, <2>3
<1>11. \A v \in Worker \ {w} : SchedFor(v)'
       BY <1>1, <1>5, <1>6, SchedOthers
<1> QED BY <1>8, <1>9, <1>10, <1>11 DEF Inv, SchedInv

\* Moving up without a frame that has work: idle, or on the way to a worker.
LEMMA ClimbInv ==
  ASSUME Inv, NEW w \in Worker, MoveUp(w, None),
         pc[w] \in {"idle", "above", "better"}, top_cp[w] # Root,
         pc' \in [Worker -> Location], \A v \in Worker \ {w} : pc'[v] = pc[v],
         pc'[w] = pc[w] \/ pc'[w] = "look",
         pc'[w] \in {"above", "better"} => top_cp'[w] # Root,
         UNCHANGED <<cur, node, target, idle, root, taken>>, invisible' \subseteq Worker
  PROVE  Inv'
<1>1. TypeOK /\ ShapeInv /\ SchedFor(w)  BY DEF Inv, SchedInv
<1>2. NoneLive(Stack(w))  BY <1>1 DEF SchedFor, WithoutWork
<1>3. MayMoveUp(w, None)
  <2>1. top_cp[w] \in Stack(w)  BY <1>1 DEF ShapeInv
  <2> QED BY <1>2, <2>1 DEF MayMoveUp, NoneLive, InEngine
<1>4. /\ Stack(w)' = Stack(w) \ {top_cp[w]} /\ alternative' = alternative
      /\ \A m \in Stack(w) \ {top_cp[w]} : AtOrUnder(top_cp'[w], m)
      /\ \A v \in Worker \ {w} : Stack(v)' = Stack(v) /\ top_cp'[v] = top_cp[v]
      BY <1>3, MoveUpFacts
<1>5. \A v \in Worker : Running(v)' <=> Running(v)
      BY DEF Running
<1>6. TypeOK'
      BY <1>1, <1>3, <1>4, MoveUpTypes DEF TypeOK
<1>7. /\ ShapeInv' /\ RunInv' /\ BornInv' /\ TakenInv'
      /\ MembersExact' /\ LinkInv' /\ LiveNodesReachable'
      BY <1>3, <1>5, MoveUpShape, MoveUpTaken, MoveUpFrames
<1>8. SchedFor(w)'
  <2>1. w \notin root  BY <1>1 DEF SchedFor
  <2>2. \A n \in Stack(w)' : n \notin Sequential => alternative'[n] = NULL
        BY <1>2, <1>4 DEF NoneLive
  <2>3. \A n \in Stack(w)' : AtOrUnder(top_cp'[w], n)  BY <1>4
  <2>4. pc'[w] \in {"idle", "above", "better", "look"}  OBVIOUS
  <2> QED BY <2>1, <2>2, <2>3, <2>4 DEF SchedFor, NoneLive, InEngine, Searching, WithoutWork
<1>9. \A v \in Worker \ {w} : SchedFor(v)'
      BY <1>4, SchedOthers
<1> QED BY <1>6, <1>7, <1>8, <1>9 DEF Inv, SchedInv

\* Everybody is a member of the root node.
LEMMA RootMembers ==
  ASSUME Inv
  PROVE  members[Root] = Worker
<1>1. \A w \in Worker : Root \in Public(w)  BY StackFacts DEF Inv
<1> QED BY <1>1, TreeAssumption DEF Inv, MembersExact

LEMMA ClimbingInv ==
  ASSUME Inv, NEW w \in Worker, IdleUp(w) \/ AboveUp(w) \/ BetterUp(w)
  PROVE  Inv'
<1>1. TypeOK /\ SchedFor(w)  BY DEF Inv, SchedInv
<1>2. ASSUME MoveUp(w, None), top_cp[w] # Root
      PROVE  members'[Root] = Worker
      BY <1>1, <1>2, RootMembers, TreeAssumption DEF MoveUp, TypeOK
<1>3. target[w] \subseteq Worker  BY <1>1 DEF TypeOK
<1>4. CASE IdleUp(w)
  <2>1. /\ pc[w] = "idle" /\ top_cp[w] # Root /\ MoveUp(w, None)
        /\ UNCHANGED <<pc, cur, node, target, idle, root, invisible, taken>>
        BY <1>4 DEF IdleUp, NobodyBusyBelow, locals, bitmaps
  <2> QED BY <2>1, <1>1, ClimbInv DEF TypeOK
<1>5. CASE AboveUp(w)
  <2>1. /\ pc[w] = "above" /\ MoveUp(w, None)
        /\ UNCHANGED <<cur, node, target, idle, root, taken>>
        /\ pc' = [pc EXCEPT ![w] = IF target[w] \subseteq members'[top_cp'[w]]
                                    THEN "look" ELSE "above"]
        /\ invisible' \subseteq invisible
        BY <1>5 DEF AboveUp, Goto, locals
  <2>2. top_cp[w] # Root  BY <2>1, <1>1 DEF SchedFor
  <2>3. pc' \in [Worker -> Location] /\ \A v \in Worker \ {w} : pc'[v] = pc[v]
        BY <2>1, <1>1 DEF TypeOK, Location
  <2>4. pc'[w] = pc[w] \/ pc'[w] = "look"  BY <2>1, <1>1 DEF TypeOK
  <2>5. pc'[w] \in {"above", "better"} => top_cp'[w] # Root
        BY <2>1, <2>2, <1>1, <1>2, <1>3 DEF TypeOK
  <2> QED BY <2>1, <2>2, <2>3, <2>4, <2>5, <1>1, ClimbInv DEF TypeOK
<1>6. CASE BetterUp(w)
  <2>1. /\ pc[w] = "better" /\ MoveUp(w, None)
        /\ UNCHANGED <<cur, node, target, idle, root, invisible, taken>>
        /\ pc' = [pc EXCEPT ![w] = IF target[w] \subseteq members'[top_cp'[w]]
                                    THEN "look" ELSE "better"]
        BY <1>6 DEF BetterUp, Goto, locals, bitmaps
  <2>2. top_cp[w] # Root  BY <2>1, <1>1 DEF SchedFor
  <2>3. pc' \in [Worker -> Location] /\ \A v \in Worker \ {w} : pc'[v] = pc[v]
        BY <2>1, <1>1 DEF TypeOK, Location
  <2>4. pc'[w] = pc[w] \/ pc'[w] = "look"  BY <2>1, <1>1 DEF TypeOK
  <2>5. pc'[w] \in {"above", "better"} => top_cp'[w] # Root
        BY <2>1, <2>2, <1>1, <1>2, <1>3 DEF TypeOK
  <2> QED BY <2>1, <2>2, <2>3, <2>4, <2>5, <1>1, ClimbInv DEF TypeOK
<1> QED BY <1>4, <1>5, <1>6

-----------------------------------------------------------------------------
(***************************************************************************)
(* The other steps leave the stacks and what has been taken alone.         *)
(***************************************************************************)
LEMMA QuietInv ==
  ASSUME Inv, TypeOK', \A v \in Worker : SchedFor(v)',
         UNCHANGED <<cur, cp_ap, top_cp, alternative, members, taken>>,
         \A v \in Worker : Running(v)' => Running(v),
         \A v \in Worker : Running(v) /\ Created(cur[v]) # Leaf => Running(v)',
         LinkInv', LiveNodesReachable'
  PROVE  Inv'
<1>1. /\ \A v \in Worker : Stack(v)' = Stack(v) /\ Private(v)' = Private(v)
                           /\ Public(v)' = Public(v)
      /\ ShapeInv'
      BY SameStacks
<1>2. RunInv'
  <2> SUFFICES ASSUME NEW v \in Worker, Running(v)'
      PROVE  /\ cur[v] \in taken /\ <<Created(cur[v]), 1>> \notin taken
             /\ \A m \in Stack(v) : AtOrUnder(cur[v][1], m)
             /\ \A x \in Worker : \A m \in Stack(x) :
                  AtOrUnder(cur[v][1], m) => m \in Stack(v)
             /\ \A x \in Worker : Running(x) /\ cur[x] = cur[v] => x = v
      BY <1>1 DEF RunInv, Created
  <2> QED BY DEF Inv, RunInv
<1>3. BornInv'
  <2>1. \A x \in taken : Created(x) # Leaf =>
          <<Created(x), 1>> \in taken \/ \E v \in Worker : Running(v)' /\ cur[v] = x
        BY DEF Inv, BornInv
  <2> QED BY <1>1, <2>1 DEF Inv, BornInv, Created
<1>4. TakenInv'
      BY <1>1 DEF Inv, TakenInv, UpTo
<1>5. MembersExact'  BY <1>1 DEF Inv, MembersExact
<1> QED BY <1>1, <1>2, <1>3, <1>4, <1>5 DEF Inv, SchedInv

\* A step of w alone that leaves the or-frames alone too.
LEMMA QuietStep ==
  ASSUME Inv, NEW w \in Worker,
         UNCHANGED <<cur, cp_ap, top_cp, alternative, members, nearest_livenode, taken>>,
         pc' \in [Worker -> Location],
         \A v \in Worker \ {w} : pc'[v] = pc[v] \/ (pc[v] = "ask" /\ pc'[v] = "look"),
         pc'[w] # "run", Running(w) => Created(cur[w]) = Leaf,
         node' \in [Worker -> Node], \A v \in Worker \ {w} : node'[v] = node[v],
         target' \in [Worker -> SUBSET Worker],
         idle' \subseteq Worker, invisible' \subseteq Worker, root' \subseteq Worker,
         \A v \in Worker \ {w} : v \in root' => v \in root,
         SchedFor(w)'
  PROVE  Inv'
<1>1. TypeOK'  BY DEF Inv, TypeOK
<1>2. \A v \in Worker : Stack(v)' = Stack(v) /\ Public(v)' = Public(v)  BY SameStacks
<1>3. \A v \in Worker \ {w} : SchedFor(v)'
      BY <1>2, SchedOthers
<1>4. /\ \A v \in Worker : Running(v)' => Running(v)
      /\ \A v \in Worker : Running(v) /\ Created(cur[v]) # Leaf => Running(v)'
      BY DEF Running
<1>5. LinkInv'  BY <1>2 DEF Inv, LinkInv
<1>6. LiveNodesReachable'  BY DEF Inv, LiveNodesReachable
<1> QED BY <1>1, <1>3, <1>4, <1>5, <1>6, QuietInv

LEMMA EngineQuietInv ==
  ASSUME Inv, NEW w \in Worker, Fail(w) \/ EnterScheduler(w)
  PROVE  Inv'
<1>1. TypeOK /\ ShapeInv /\ SchedFor(w)  BY DEF Inv, SchedInv
<1>2. Stack(w)' = Stack(w) /\ Stack(w) \in SUBSET Node
  <2>1. cp_ap' = cp_ap  BY DEF Fail, EnterScheduler
  <2> QED BY <2>1 DEF Stack
<1>3. CASE Fail(w)
  <2>1. /\ pc[w] = "run" /\ Created(cur[w]) = Leaf /\ pc' = [pc EXCEPT ![w] = "fail"]
        /\ UNCHANGED <<cur, cp_ap, top_cp, alternative, members, nearest_livenode, node, target,
                       idle, root, invisible, taken>>
        BY <1>3 DEF Fail, Goto, frames, locals, bitmaps
  <2>2. /\ pc' \in [Worker -> Location] /\ pc'[w] = "fail"
        /\ \A v \in Worker \ {w} : pc'[v] = pc[v]
        BY <2>1, <1>1 DEF TypeOK, Location
  <2>3. SchedFor(w)'
        BY <2>1, <2>2, <1>1 DEF SchedFor, InEngine, Searching, WithoutWork
  <2> QED BY <2>1, <2>2, <2>3, <1>1, QuietStep DEF TypeOK
<1>4. CASE EnterScheduler(w)
  <2>1. /\ pc[w] = "fail" /\ B(w) = top_cp[w] /\ ~ HasWork(w, top_cp[w])
        /\ pc' = [pc EXCEPT ![w] = "scan"] /\ node' = [node EXCEPT ![w] = top_cp[w]]
        /\ UNCHANGED <<cur, cp_ap, top_cp, alternative, members, nearest_livenode, target,
                       idle, root, invisible, taken>>
        BY <1>4 DEF EnterScheduler, Goto, frames, bitmaps
  <2>2. /\ pc' \in [Worker -> Location] /\ pc'[w] = "scan"
        /\ \A v \in Worker \ {w} : pc'[v] = pc[v]
        /\ node' \in [Worker -> Node] /\ node'[w] = top_cp[w]
        /\ \A v \in Worker \ {w} : node'[v] = node[v]
        BY <2>1, <1>1 DEF TypeOK, Location
  <2>3. \A n \in Stack(w) : AtOrUnder(top_cp[w], n)  BY <2>1, <1>1, StackFacts
  <2>4. top_cp[w] \in Stack(w) /\ top_cp[w] \in Public(w)  BY <1>1, StackFacts
  <2>5. \A n \in Stack(w) : AtOrUnder(n, top_cp[w]) => n = top_cp[w]
        BY <2>3, <2>4, <1>2, UnderFacts DEF AtOrUnder
  <2>6. top_cp[w] \notin Sequential => alternative[top_cp[w]] = NULL
        BY <2>1, <2>4, <1>1 DEF ShapeInv, ApRight, HasWork, GETWORK, GETWORK_SEQ
  <2>7. w \notin root  BY <2>1, <1>1 DEF SchedFor
  <2>8. SchedFor(w)'
        BY <2>1, <2>2, <2>3, <2>4, <2>5, <2>6, <2>7, <1>2
           DEF SchedFor, NoneLive, InEngine, Searching, WithoutWork
  <2> QED BY <2>1, <2>2, <2>8, <1>1, QuietStep DEF TypeOK, Running
<1> QED BY <1>3, <1>4

\* Live nodes above a public node of w, as nearest_livenode shows them.
LEMMA LiveAbove ==
  ASSUME Inv, NEW w \in Worker, NEW n \in Public(w), NEW m \in Stack(w),
         <<n, m>> \in Under, m \notin Sequential, alternative[m] # NULL
  PROVE  nearest_livenode[n] # None /\ AtOrUnder(nearest_livenode[n], m)
<1>1. TypeOK /\ ShapeInv  BY DEF Inv
<1>2. n \in Stack(w) /\ AtOrUnder(top_cp[w], n) /\ Stack(w) \subseteq Node /\ top_cp[w] \in Node
      BY <1>1, StackFacts DEF TypeOK
<1>3. m \in Public(w)  BY <1>1, <1>2, StackFacts, UnderFacts DEF AtOrUnder
<1>4. w \in members[n] /\ w \in members[m]  BY <1>2, <1>3 DEF Inv, MembersExact
<1> QED BY <1>2, <1>4 DEF Inv, LiveNodesReachable

LEMMA ScanInv ==
  ASSUME Inv, NEW w \in Worker, Scan(w)
  PROVE  Inv'
<1> DEFINE k == node[w]
           n == nearest_livenode[k]
<1>1. TypeOK /\ ShapeInv /\ SchedFor(w)  BY DEF Inv, SchedInv
<1>2. /\ pc[w] = "scan"
      /\ UNCHANGED <<cur, cp_ap, top_cp, alternative, members, nearest_livenode, target,
                     idle, root, invisible, taken>>
      BY DEF Scan, Goto, frames, bitmaps
<1>3. Stack(w)' = Stack(w) /\ Stack(w) \in SUBSET Node  BY <1>2 DEF Stack
<1>4. /\ k \in Stack(w) /\ w \notin root
      /\ \A m \in Stack(w) : AtOrUnder(top_cp[w], m)
      /\ \A m \in Stack(w) : AtOrUnder(m, k) /\ m \notin Sequential => alternative[m] = NULL
      BY <1>1, <1>2 DEF SchedFor, NoneLive, InEngine, Searching
<1>5. k \in Public(w) /\ top_cp[w] \in Stack(w) /\ k \in Node
      BY <1>1, <1>3, <1>4, StackFacts
<1>6. n # None => n \in Stack(w) /\ <<k, n>> \in Under
      BY <1>5 DEF Inv, LinkInv
<1>7. \A m \in Stack(w) : AtOrUnder(m, k) \/ <<k, m>> \in Under
  <2>1. Path(Stack(w))  BY <1>1 DEF ShapeInv
  <2> QED BY <2>1, <1>3, <1>4, PathFacts
<1>8. \A m \in Stack(w) : m \notin Sequential /\ alternative[m] # NULL
                            => n # None /\ AtOrUnder(n, m)
      BY <1>4, <1>5, <1>7, LiveAbove
<1>9. \A v \in Worker \ {w} : pc'[v] = pc[v] /\ node'[v] = node[v]
      BY <1>1 DEF Scan, Goto, TypeOK
<1> HIDE DEF k, n
<1>10. CASE n = None
  <2>1. pc' = [pc EXCEPT ![w] = "no_work"] /\ node' = [node EXCEPT ![w] = top_cp[w]]
        BY <1>10 DEF Scan, Goto, n, k
  <2>2. /\ pc' \in [Worker -> Location] /\ pc'[w] = "no_work"
        /\ node' \in [Worker -> Node] /\ node'[w] = top_cp[w]
        BY <2>1, <1>1 DEF TypeOK, Location
  <2>3. SchedFor(w)'
        BY <2>2, <1>2, <1>3, <1>4, <1>5, <1>8, <1>10
           DEF SchedFor, NoneLive, InEngine, Searching, WithoutWork
  <2> QED BY <2>2, <2>3, <1>1, <1>2, <1>9, QuietStep DEF TypeOK, Running
<1>11. CASE n # None /\ alternative[n] # NULL /\ n \notin Sequential
  <2>1. pc' = [pc EXCEPT ![w] = "to_work"] /\ node' = [node EXCEPT ![w] = n]
        BY <1>11 DEF Scan, Goto, n, k
  <2>2. /\ pc' \in [Worker -> Location] /\ pc'[w] = "to_work"
        /\ node' \in [Worker -> Node] /\ node'[w] = n /\ n \in Node
        BY <2>1, <1>1, <1>3, <1>6, <1>11 DEF TypeOK, Location
  <2>3. <<top_cp[w], n>> \in Under
        BY <1>3, <1>4, <1>5, <1>6, <1>11, UnderFacts
  <2>4. \A m \in Stack(w) : <<m, n>> \in Under /\ m \notin Sequential => alternative[m] = NULL
        BY <2>2, <1>3, <1>8, UnderFacts DEF AtOrUnder
  <2>5. SchedFor(w)'
        BY <2>2, <2>3, <2>4, <1>2, <1>3, <1>4, <1>6, <1>11
           DEF SchedFor, NoneLive, InEngine, Searching, WithoutWork
  <2> QED BY <2>2, <2>5, <1>1, <1>2, <1>9, QuietStep DEF TypeOK, Running
<1>12. CASE n # None /\ ~ (alternative[n] # NULL /\ n \notin Sequential)
  <2>1. pc' = [pc EXCEPT ![w] = "scan"] /\ node' = [node EXCEPT ![w] = n]
        BY <1>12 DEF Scan, Goto, n, k
  <2>2. /\ pc' \in [Worker -> Location] /\ pc'[w] = "scan"
        /\ node' \in [Worker -> Node] /\ node'[w] = n /\ n \in Node
        BY <2>1, <1>1, <1>3, <1>6, <1>12 DEF TypeOK, Location
  <2>3. \A m \in Stack(w) : AtOrUnder(m, n) /\ m \notin Sequential => alternative[m] = NULL
        BY <2>2, <1>3, <1>8, <1>12, UnderFacts DEF AtOrUnder
  <2>4. SchedFor(w)'
        BY <2>2, <2>3, <1>2, <1>3, <1>4, <1>6, <1>12
           DEF SchedFor, NoneLive, InEngine, Searching, WithoutWork
  <2> QED BY <2>2, <2>4, <1>1, <1>2, <1>9, QuietStep DEF TypeOK, Running
<1> QED BY <1>10, <1>11, <1>12

\* Forgetting that a frame has work above it, when nothing is left there.
LEMMA PutNoWorkInv ==
  ASSUME Inv, NEW w \in Worker, PutNoWork(w)
  PROVE  Inv'
<1> DEFINE n == node[w]
<1>1. TypeOK /\ ShapeInv /\ SchedFor(w) /\ MembersExact  BY DEF Inv, SchedInv
<1>2. /\ pc[w] = "no_work" /\ nearest_livenode[n] # None
      /\ node' = [node EXCEPT ![w] = nearest_livenode[n]]
      /\ nearest_livenode' = [nearest_livenode EXCEPT ![n] = None]
      /\ UNCHANGED <<pc, cur, cp_ap, top_cp, alternative, members, target, idle, root,
                     invisible, taken>>
      BY DEF PutNoWork, bitmaps
<1>3. \A v \in Worker : /\ Stack(v)' = Stack(v) /\ Public(v)' = Public(v)
                        /\ Stack(v) \in SUBSET Node /\ Public(v) \subseteq Stack(v)
      BY <1>2, SameStacks DEF Stack, Public
<1>4. n \in Stack(w) /\ n \in Node /\ NoneLive(Stack(w))
      /\ \A m \in Stack(w) : AtOrUnder(top_cp[w], m)
      BY <1>1, <1>2, <1>3 DEF SchedFor, InEngine, Searching, WithoutWork
<1>5. n \in Public(w)  BY <1>1, <1>4, StackFacts
<1>6. nearest_livenode[n] \in Stack(w) /\ nearest_livenode[n] \in Node
      BY <1>2, <1>3, <1>5 DEF Inv, LinkInv
<1> HIDE DEF n
<1>7. /\ nearest_livenode'[n] = None
      /\ \A m \in Node \ {n} : nearest_livenode'[m] = nearest_livenode[m]
      BY <1>1, <1>2, <1>4 DEF TypeOK
<1>8. TypeOK'
      BY <1>1, <1>2, <1>6 DEF TypeOK
<1>9. LinkInv'
  <2> SUFFICES ASSUME NEW v \in Worker, NEW m \in Public(v), nearest_livenode'[m] # None
      PROVE  nearest_livenode'[m] \in Stack(v) /\ <<m, nearest_livenode'[m]>> \in Under
      BY <1>2, <1>3 DEF LinkInv, Inv
  <2>1. m # n /\ m \in Node  BY <1>3, <1>7
  <2> QED BY <2>1, <1>7 DEF LinkInv, Inv
<1>10. LiveNodesReachable'
  <2> SUFFICES ASSUME NEW k \in Node, NEW m \in Node, members[k] # {}, members[m] # {},
                      <<k, m>> \in Under, alternative[m] # NULL, m \notin Sequential
      PROVE  nearest_livenode'[k] # None /\ AtOrUnder(nearest_livenode'[k], m)
      BY <1>2 DEF LiveNodesReachable
  <2>1. k # n
    <3>1. PICK v \in Worker : m \in Public(v)  BY <1>1 DEF MembersExact
    <3>2. k = n => m \in Stack(w)  BY <3>1, <1>1, <1>3, <1>4 DEF ShapeInv
    <3> QED BY <3>2, <1>4 DEF NoneLive
  <2> QED BY <2>1, <1>7 DEF Inv, LiveNodesReachable
<1>11. SchedFor(w)'
  <2>1. node'[w] = nearest_livenode[n]  BY <1>1, <1>2 DEF TypeOK
  <2> QED BY <2>1, <1>1, <1>2, <1>3, <1>4, <1>6
          DEF SchedFor, NoneLive, InEngine, Searching, WithoutWork
<1>12. \A v \in Worker \ {w} : SchedFor(v)'
  <2>1. \A v \in Worker \ {w} : node'[v] = node[v]  BY <1>1, <1>2 DEF TypeOK
  <2> QED BY <2>1, <1>2, <1>3, SchedOthers
<1> QED BY <1>2, <1>8, <1>9, <1>10, <1>11, <1>12, QuietInv DEF Running

\* The worker goes from one part of get_work to another, or leaves it.
LEMMA SchedulerStep ==
  ASSUME Inv, NEW w \in Worker, NEW to,
         UNCHANGED <<cur, cp_ap, top_cp, alternative, members, nearest_livenode, node, taken>>,
         pc[w] \in Location \ InEngine, to \in Location, pc'[w] = to,
         pc' \in [Worker -> Location],
         \A v \in Worker \ {w} : pc'[v] = pc[v] \/ (pc[v] = "ask" /\ pc'[v] = "look"),
         to \notin {"run", "scan", "to_work", "no_work"},
         to \in WithoutWork => pc[w] \in WithoutWork,
         to \in {"above", "better"} => top_cp[w] # Root,
         target' \in [Worker -> SUBSET Worker],
         idle' \subseteq Worker, invisible' \subseteq Worker, root' \subseteq Worker,
         \A v \in Worker \ {w} : v \in root' => v \in root,
         w \in root' => top_cp[w] = Root /\ to \in {"idle", "look", "ask", "end"}
  PROVE  Inv'
<1>1. TypeOK /\ SchedFor(w)  BY DEF Inv, SchedInv
<1>2. Stack(w)' = Stack(w)  BY DEF Stack
<1>3. SchedFor(w)'
      BY <1>1, <1>2 DEF SchedFor, NoneLive, InEngine, Searching, WithoutWork
<1> QED BY <1>1, <1>3, QuietStep DEF TypeOK, Running, InEngine

\* A worker that finds itself alone in a sequential choice point is not in the
\* root node.
LEMMA SequentialNotRoot ==
  ASSUME Inv, NEW w \in Worker, LastInSequential(w)
  PROVE  w \notin root
<1>1. top_cp[w] # Root  BY TreeAssumption DEF LastInSequential
<1> QED BY <1>1 DEF Inv, SchedInv, SchedFor

LEMMA ResumeInv ==
  ASSUME Inv, NEW w \in Worker,
         ToWorkStops(w) \/ IdleResume(w) \/ AboveResume(w) \/ BetterResume(w) \/ PutBusy(w)
  PROVE  Inv'
<1>1. TypeOK /\ SchedFor(w)  BY DEF Inv, SchedInv
<1>2. PICK from \in {"to_work", "idle", "above", "better", "shared"} :
        /\ pc[w] = from /\ pc' = [pc EXCEPT ![w] = "fail"]
        /\ from # "shared" => LastInSequential(w)
      BY DEF ToWorkStops, IdleResume, AboveResume, BetterResume, PutBusy, Resume, Goto
<1>3. /\ UNCHANGED <<cur, cp_ap, top_cp, alternative, members, nearest_livenode, node, target,
                     root, invisible, taken>>
      /\ idle' \subseteq idle
      BY DEF ToWorkStops, IdleResume, AboveResume, BetterResume, PutBusy, Resume, frames,
             locals, bitmaps
<1>4. /\ pc' \in [Worker -> Location] /\ pc'[w] = "fail"
      /\ \A v \in Worker \ {w} : pc'[v] = pc[v]
      /\ pc[w] \in Location \ InEngine
      BY <1>1, <1>2 DEF TypeOK, Location, InEngine
<1>5. w \notin root  BY <1>1, <1>2, SequentialNotRoot DEF SchedFor
<1>6. "fail" \in Location /\ "fail" \notin WithoutWork  BY DEF Location, WithoutWork
<1> QED BY <1>1, <1>3, <1>4, <1>5, <1>6, SchedulerStep DEF TypeOK

LEMMA PutIdleInv ==
  ASSUME Inv, NEW w \in Worker, PutIdle(w)
  PROVE  Inv'
<1>1. TypeOK  BY DEF Inv
<1>2. /\ pc[w] = "no_work"
      /\ UNCHANGED <<cur, cp_ap, top_cp, alternative, members, nearest_livenode, node, target,
                     invisible, taken>>
      /\ root' = root \ {w} /\ idle' = idle \cup {w}
      BY DEF PutIdle, frames, locals
<1>3. /\ pc' \in [Worker -> Location] /\ pc'[w] = "idle"
      /\ \A v \in Worker \ {w} : pc'[v] = pc[v] \/ (pc[v] = "ask" /\ pc'[v] = "look")
      BY <1>1 DEF PutIdle, TypeOK, Location
<1>4. "no_work" \in Location \ InEngine /\ "idle" \in Location /\ "no_work" \in WithoutWork
      BY DEF Location, InEngine, WithoutWork
<1> QED BY <1>1, <1>2, <1>3, <1>4, SchedulerStep DEF TypeOK

LEMMA IdleLoopInv ==
  ASSUME Inv, NEW w \in Worker, EnterRoot(w) \/ Finish(w) \/ Look(w) \/ NextRound(w)
  PROVE  Inv'
<1>1. TypeOK /\ SchedFor(w)  BY DEF Inv, SchedInv
<1>2. PICK from \in {"idle", "look"}, to \in {"idle", "look", "end"} :
        /\ pc[w] = from /\ pc' = [pc EXCEPT ![w] = to]
        /\ w \in root' => top_cp[w] = Root
  <2>1. CASE EnterRoot(w)
    <3>1. pc[w] = "idle" /\ pc' = [pc EXCEPT ![w] = "idle"] /\ top_cp[w] = Root
          BY <2>1, <1>1 DEF EnterRoot, TypeOK
    <3> QED BY <3>1
  <2>2. CASE Finish(w)
    <3>1. pc[w] = "idle" /\ pc' = [pc EXCEPT ![w] = "end"] /\ top_cp[w] = Root
          BY <2>2 DEF Finish, Goto
    <3> QED BY <3>1
  <2>3. CASE Look(w)
    <3>1. pc[w] = "idle" /\ pc' = [pc EXCEPT ![w] = "look"] /\ root' = root
          BY <2>3 DEF Look, Goto, bitmaps
    <3> QED BY <3>1, <1>1 DEF SchedFor
  <2>4. CASE NextRound(w)
    <3>1. pc[w] = "look" /\ pc' = [pc EXCEPT ![w] = "idle"] /\ root' = root
          BY <2>4 DEF NextRound, Goto, bitmaps
    <3> QED BY <3>1, <1>1 DEF SchedFor
  <2> QED BY <2>1, <2>2, <2>3, <2>4
<1>3. /\ UNCHANGED <<cur, cp_ap, top_cp, alternative, members, nearest_livenode, node, target,
                     idle, invisible, taken>>
      /\ root' \subseteq root \cup {w}
      BY DEF EnterRoot, Finish, Look, NextRound, frames, locals, bitmaps
<1>4. /\ pc' \in [Worker -> Location] /\ pc'[w] = to
      /\ \A v \in Worker \ {w} : pc'[v] = pc[v]
      /\ pc[w] \in Location \ InEngine /\ to \in Location /\ pc[w] \in WithoutWork
      BY <1>1, <1>2 DEF TypeOK, Location, InEngine, WithoutWork
<1> QED BY <1>1, <1>2, <1>3, <1>4, SchedulerStep DEF TypeOK

LEMMA SearchInv ==
  ASSUME Inv, NEW w \in Worker,
         (\E p \in Worker : GoAbove(w, p)) \/ (\E P \in SUBSET Worker : GoBetter(w, P))
  PROVE  Inv'
<1>1. TypeOK /\ SchedFor(w)  BY DEF Inv, SchedInv
<1>2. PICK to \in {"above", "better"}, P \in SUBSET Worker :
        /\ pc[w] = "look" /\ pc' = [pc EXCEPT ![w] = to]
        /\ target' = [target EXCEPT ![w] = P]
        /\ P # {} /\ P \cap members[top_cp[w]] = {}
  <2>1. ASSUME NEW p \in Worker, GoAbove(w, p)
        PROVE  \E to \in {"above", "better"}, P \in SUBSET Worker :
                 /\ pc[w] = "look" /\ pc' = [pc EXCEPT ![w] = to]
                 /\ target' = [target EXCEPT ![w] = P]
                 /\ P # {} /\ P \cap members[top_cp[w]] = {}
    <3>1. /\ pc[w] = "look" /\ pc' = [pc EXCEPT ![w] = "above"]
          /\ target' = [target EXCEPT ![w] = {p}]
          /\ {p} # {} /\ {p} \cap members[top_cp[w]] = {} /\ {p} \in SUBSET Worker
          BY <2>1 DEF GoAbove, Goto
    <3> QED BY <3>1
  <2>2. ASSUME NEW Q \in SUBSET Worker, GoBetter(w, Q)
        PROVE  \E to \in {"above", "better"}, P \in SUBSET Worker :
                 /\ pc[w] = "look" /\ pc' = [pc EXCEPT ![w] = to]
                 /\ target' = [target EXCEPT ![w] = P]
                 /\ P # {} /\ P \cap members[top_cp[w]] = {}
    <3>1. /\ pc[w] = "look" /\ pc' = [pc EXCEPT ![w] = "better"]
          /\ target' = [target EXCEPT ![w] = Q]
          /\ Q # {} /\ Q \cap members[top_cp[w]] = {}
          BY <2>2 DEF GoBetter, Goto
    <3> QED BY <3>1
  <2> QED BY <2>1, <2>2
<1>3. /\ UNCHANGED <<cur, cp_ap, top_cp, alternative, members, nearest_livenode, node,
                     idle, root, taken>>
      /\ invisible' \subseteq Worker /\ target' \in [Worker -> SUBSET Worker]
      BY <1>1, <1>2 DEF GoAbove, GoBetter, frames, bitmaps, TypeOK
<1>4. top_cp[w] # Root  BY <1>2, RootMembers
<1>5. /\ pc' \in [Worker -> Location] /\ pc'[w] = to
      /\ \A v \in Worker \ {w} : pc'[v] = pc[v]
      /\ pc[w] \in Location \ InEngine /\ to \in Location /\ pc[w] \in WithoutWork
      BY <1>1, <1>2 DEF TypeOK, Location, InEngine, WithoutWork
<1>6. w \notin root  BY <1>1, <1>4 DEF SchedFor
<1> QED BY <1>1, <1>2, <1>3, <1>4, <1>5, <1>6, SchedulerStep DEF TypeOK

LEMMA RequestInv ==
  ASSUME Inv, NEW q \in Worker, NEW p \in Worker, Ask(q, p) \/ Refuse(p, q)
  PROVE  Inv'
<1>1. TypeOK /\ SchedFor(q)  BY DEF Inv, SchedInv
<1>2. PICK from \in {"look", "ask"}, to \in {"ask", "look"} :
        pc[q] = from /\ pc' = [pc EXCEPT ![q] = to]
      BY DEF Ask, Refuse, Goto
<1>3. /\ UNCHANGED <<cur, cp_ap, top_cp, alternative, members, nearest_livenode, node,
                     idle, root, invisible, taken>>
      /\ target' = target \/ target' = [target EXCEPT ![q] = {p}]
      BY DEF Ask, Refuse, frames, locals, bitmaps
<1>6. target' \in [Worker -> SUBSET Worker]
  <2>1. target \in [Worker -> SUBSET Worker]  BY <1>1 DEF TypeOK
  <2>2. CASE target' = target  BY <2>1, <2>2
  <2>3. CASE target' = [target EXCEPT ![q] = {p}]  BY <2>1, <2>3
  <2> QED BY <1>3, <2>2, <2>3
<1>4. /\ pc' \in [Worker -> Location] /\ pc'[q] = to
      /\ \A v \in Worker \ {q} : pc'[v] = pc[v]
      /\ pc[q] \in Location \ InEngine /\ to \in Location /\ pc[q] \in WithoutWork
      BY <1>1, <1>2 DEF TypeOK, Location, InEngine, WithoutWork
<1>5. q \in root => top_cp[q] = Root  BY <1>1 DEF SchedFor
<1> QED BY <1>1, <1>2, <1>3, <1>4, <1>5, <1>6, SchedulerStep DEF TypeOK

-----------------------------------------------------------------------------
(***************************************************************************)
(* share_private_nodes keeps the invariant.                                *)
(***************************************************************************)
LEMMA ShareFacts ==
  ASSUME Inv, NEW p \in Worker, NEW q \in Worker, Share(p, q)
  PROVE  /\ p # q /\ pc[p] = "run" /\ pc[q] = "ask"
         /\ Stack(p) \in SUBSET Node /\ Path(Stack(p))
         /\ Private(q) = {} /\ Public(q) = Stack(q)
         /\ top_cp[q] \in Public(p) /\ top_cp[q] \in Node
         /\ Stack(q) \subseteq Public(p)
         /\ \A m \in Public(p) : m \in Stack(q) <=> <<m, top_cp[q]>> \notin Under
         /\ B(p) \in Stack(p) /\ \A m \in Stack(p) : AtOrUnder(B(p), m)
         /\ \A w \in {p, q} : /\ Stack(w)' = Stack(p) /\ Public(w)' = Stack(p)
                              /\ Private(w)' = {} /\ top_cp'[w] = B(p)
                              /\ cp_ap'[w] = SharedAp(p)
         /\ \A v \in Worker \ {p, q} : /\ Stack(v)' = Stack(v) /\ Private(v)' = Private(v)
                                        /\ Public(v)' = Public(v) /\ cp_ap'[v] = cp_ap[v]
                                        /\ top_cp'[v] = top_cp[v]
                                        /\ Private(p) \cap Stack(v) = {}
<1>1. TypeOK /\ ShapeInv /\ SchedFor(q) /\ MembersExact  BY DEF Inv, SchedInv
<1>2. /\ pc[p] = "run" /\ pc[q] = "ask" /\ p # q
      /\ p \in members[top_cp[q]] /\ SharePrivateNodes(p, q)
      BY DEF Share, Asked
<1>3. \A v \in Worker : /\ Stack(v) \in SUBSET Node /\ Path(Stack(v)) /\ Public(v) \subseteq Stack(v)
                        /\ top_cp[v] \in Node
      BY <1>1 DEF ShapeInv, Stack, Public, TypeOK
<1>4. \A m \in Stack(q) : AtOrUnder(top_cp[q], m)
      BY <1>1, <1>2 DEF SchedFor, InEngine
<1>5. Public(q) = Stack(q) /\ Private(q) = {}
      BY <1>1, <1>4, StackFacts
<1>6. top_cp[q] \in Public(p)  BY <1>1, <1>2, <1>3 DEF MembersExact
<1>7. AtOrUnder(top_cp[p], top_cp[q])  BY <1>1, <1>3, <1>6, StackFacts
<1>8. Stack(q) \subseteq Public(p)
  <2> SUFFICES ASSUME NEW m \in Stack(q) PROVE m \in Public(p)
      OBVIOUS
  <2>1. m \in Stack(p)
        BY <1>1, <1>3, <1>4, <1>6, ZenonT(60) DEF ShapeInv, AtOrUnder
  <2>2. AtOrUnder(top_cp[p], m)
        BY <1>3, <1>4, <1>7, UnderFacts
  <2> QED BY <1>1, <2>1, <2>2, StackFacts
<1>9. ASSUME NEW m \in Public(p)
      PROVE  m \in Stack(q) <=> <<m, top_cp[q]>> \notin Under
  <2>1. m \in Stack(p) /\ top_cp[q] \in Stack(p) /\ m \in Node  BY <1>3, <1>6
  <2>2. AtOrUnder(top_cp[q], m) \/ <<m, top_cp[q]>> \in Under
        BY <1>3, <2>1, PathFacts
  <2>3. ASSUME AtOrUnder(top_cp[q], m) PROVE m \in Stack(q)
        BY <1>1, <2>1, <2>3 DEF ShapeInv, AtOrUnder
  <2>4. m \in Stack(q) => AtOrUnder(top_cp[q], m)  BY <1>4
  <2>5. AtOrUnder(top_cp[q], m) => <<m, top_cp[q]>> \notin Under
        BY <2>1, <1>3, UnderFacts DEF AtOrUnder
  <2> QED BY <2>2, <2>3, <2>4, <2>5
<1>10. B(p) \in Stack(p) /\ \A m \in Stack(p) : AtOrUnder(B(p), m)
      BY <1>1, StackFacts
<1>11. /\ \A w \in {p, q} : cp_ap'[w] = SharedAp(p) /\ top_cp'[w] = B(p)
       /\ \A v \in Worker \ {p, q} : cp_ap'[v] = cp_ap[v] /\ top_cp'[v] = top_cp[v]
       BY <1>1, <1>2 DEF SharePrivateNodes, TypeOK
<1>12. \A n \in Node : SharedAp(p)[n] # NULL <=> n \in Stack(p)
       BY DEF SharedAp, Private, Stack, NULL, GETWORK, GETWORK_SEQ
<1>13. ASSUME NEW w \in {p, q}
       PROVE  Stack(w)' = Stack(p) /\ Public(w)' = Stack(p) /\ Private(w)' = {}
  <2>1. Stack(w)' = Stack(p)  BY <1>3, <1>11, <1>12 DEF Stack
  <2>2. \A m \in Stack(p) : <<m, B(p)>> \notin Under
        BY <1>3, <1>10, UnderFacts DEF AtOrUnder
  <2>3. Private(w)' = {}  BY <2>1, <2>2, <1>11 DEF Private
  <2> QED BY <2>1, <2>3 DEF Public
<1>14. \A v \in Worker \ {p, q} : /\ Stack(v)' = Stack(v) /\ Private(v)' = Private(v)
                                  /\ Public(v)' = Public(v)
       BY <1>11 DEF Stack, Private, Public
<1>15. \A v \in Worker \ {p, q} : Private(p) \cap Stack(v) = {}
       BY <1>1 DEF ShapeInv
<1> QED BY <1>2, <1>3, <1>5, <1>6, <1>8, <1>9, <1>10, <1>11, <1>13, <1>14, <1>15

LEMMA ShareShape ==
  ASSUME Inv, NEW p \in Worker, NEW q \in Worker, Share(p, q)
  PROVE  ShapeInv'
<1>1. /\ p # q /\ Stack(p) \in SUBSET Node /\ Path(Stack(p)) /\ Stack(q) \subseteq Public(p)
      /\ B(p) \in Stack(p)
      /\ \A w \in {p, q} : /\ Stack(w)' = Stack(p) /\ Public(w)' = Stack(p)
                           /\ Private(w)' = {} /\ top_cp'[w] = B(p)
                           /\ cp_ap'[w] = SharedAp(p)
      /\ \A v \in Worker \ {p, q} : /\ Stack(v)' = Stack(v) /\ Private(v)' = Private(v)
                                     /\ Public(v)' = Public(v) /\ cp_ap'[v] = cp_ap[v]
                                     /\ top_cp'[v] = top_cp[v]
      BY ShareFacts
<1>2. \A n \in Stack(p) : SharedAp(p)[n] = IF n \in Sequential THEN GETWORK_SEQ ELSE GETWORK
      BY <1>1 DEF Inv, ShapeInv, ApRight, SharedAp, Public
<1>3. \A w \in {p, q} : Path(Stack(w)') /\ top_cp'[w] \in Stack(w)' /\ ApRight(w)'
  <2> SUFFICES ASSUME NEW w \in {p, q}
      PROVE Path(Stack(w)') /\ top_cp'[w] \in Stack(w)' /\ ApRight(w)'
      OBVIOUS
  <2>1. Stack(w)' = Stack(p)  BY <1>1
  <2>2. Path(Stack(w)') /\ top_cp'[w] \in Stack(w)'  BY <2>1, <1>1
  <2>3. ApRight(w)'  BY <1>1, <1>2 DEF ApRight
  <2> QED BY <2>2, <2>3
<1>4. \A v \in Worker \ {p, q} : Path(Stack(v)') /\ top_cp'[v] \in Stack(v)' /\ ApRight(v)'
      BY <1>1 DEF Inv, ShapeInv, ApRight
<1>5. \A v, x \in Worker : v # x => Private(v)' \cap Stack(x)' = {}
  <2> SUFFICES ASSUME NEW v \in Worker, NEW x \in Worker, v # x
      PROVE  Private(v)' \cap Stack(x)' = {}
      OBVIOUS
  <2>1. CASE v \in {p, q}  BY <2>1, <1>1
  <2>2. CASE v \notin {p, q} /\ x \in {p, q}
    <3>1. Private(v) \cap Stack(p) = {}  BY <2>2 DEF Inv, ShapeInv
    <3> QED BY <2>2, <3>1, <1>1
  <2>3. CASE v \notin {p, q} /\ x \notin {p, q}
        BY <2>3, <1>1 DEF Inv, ShapeInv
  <2> QED BY <2>1, <2>2, <2>3
<1>6. \A v, x \in Worker : \A k \in Stack(v)', m \in Stack(x)' :
        <<k, m>> \in Under => m \in Stack(v)'
  <2> DEFINE of(v) == IF v \in {p, q} THEN p ELSE v
  <2>1. \A v \in Worker : of(v) \in Worker /\ Stack(v)' = Stack(of(v))  BY <1>1
  <2> HIDE DEF of
  <2> QED BY <2>1 DEF Inv, ShapeInv
<1> QED BY <1>3, <1>4, <1>5, <1>6, ZenonT(60) DEF ShapeInv, Path

\* What has been taken, and by whom, stays as it is.
LEMMA ShareTaken ==
  ASSUME Inv, NEW p \in Worker, NEW q \in Worker, Share(p, q)
  PROVE  RunInv' /\ BornInv' /\ TakenInv'
<1>1. /\ p # q /\ pc[p] = "run" /\ pc[q] = "ask" /\ Stack(p) \in SUBSET Node
      /\ Stack(q) \subseteq Public(p)
      /\ \A w \in {p, q} : Stack(w)' = Stack(p) /\ Public(w)' = Stack(p) /\ Private(w)' = {}
      /\ \A v \in Worker \ {p, q} : /\ Stack(v)' = Stack(v) /\ Private(v)' = Private(v)
                                     /\ Public(v)' = Public(v) /\ cp_ap'[v] = cp_ap[v]
                                     /\ Private(p) \cap Stack(v) = {}
      BY ShareFacts
<1>2. /\ cur' = cur /\ taken' = taken /\ pc' = [pc EXCEPT ![q] = "shared"]
      /\ \A n \in Node : alternative'[n] = IF n \in Private(p) THEN cp_ap[p][n]
                                            ELSE alternative[n]
      BY DEF Share, SharePrivateNodes, Goto
<1>3. \A v \in Worker : Running(v)' <=> Running(v)
      BY <1>1, <1>2 DEF Inv, TypeOK, Running
<1>4. \A v \in Worker : Public(v) \subseteq Stack(v) /\ Public(v) = Stack(v) \ Private(v)
                        /\ Private(v) \subseteq Stack(v)
      BY DEF Public, Private
<1> DEFINE of(v) == IF v \in {p, q} THEN p ELSE v
<1>5. \A v \in Worker : of(v) \in Worker /\ Stack(v)' = Stack(of(v))  BY <1>1
<1>6. RunInv'
  <2> SUFFICES ASSUME NEW v \in Worker, Running(v)
      PROVE  /\ cur[v] \in taken /\ <<Created(cur[v]), 1>> \notin taken
             /\ \A m \in Stack(v)' : AtOrUnder(cur[v][1], m)
             /\ \A x \in Worker : \A m \in Stack(x)' :
                  AtOrUnder(cur[v][1], m) => m \in Stack(v)'
             /\ \A x \in Worker : Running(x) /\ cur[x] = cur[v] => x = v
      BY <1>2, <1>3 DEF RunInv, Created
  <2>1. v # q  BY <1>1 DEF Running
  <2>2. Stack(v)' = Stack(v)  BY <2>1, <1>1
  <2> HIDE DEF of
  <2> QED BY <1>5, <2>2 DEF Inv, RunInv
<1>7. BornInv'
  <2>1. \A v \in Worker : \A n \in Stack(v)' : <<n, 1>> \in taken
    <3> HIDE DEF of
    <3> QED BY <1>5 DEF Inv, BornInv
  <2>2. \A x \in taken : Created(x) # Leaf =>
          <<Created(x), 1>> \in taken \/ \E v \in Worker : Running(v)' /\ cur[v] = x
        BY <1>3 DEF Inv, BornInv
  <2> QED BY <1>2, <2>1, <2>2 DEF Inv, BornInv, Created
<1>8. TakenInv'
  <2>1. \A v \in Worker : \A n \in Private(v)' : UpTo(taken, n, cp_ap'[v][n])
        BY <1>1 DEF Inv, TakenInv
  <2>2. \A v \in Worker : \A n \in Public(v)' : UpTo(taken, n, alternative'[n])
    <3>1. ASSUME NEW n \in Stack(p) PROVE UpTo(taken, n, alternative'[n])
      <4>1. n \in Node  BY <1>1
      <4>2. CASE n \in Private(p)  BY <4>1, <4>2, <1>2 DEF Inv, TakenInv
      <4>3. CASE n \in Public(p)
            BY <4>1, <4>3, <1>2, <1>4 DEF Inv, TakenInv
      <4> QED BY <4>2, <4>3, <1>4
    <3>2. ASSUME NEW v \in Worker \ {p, q}, NEW n \in Public(v)'
          PROVE  UpTo(taken, n, alternative'[n])
      <4>1. n \in Public(v) /\ n \in Stack(v)  BY <1>1, <1>4
      <4>2. n \in Node /\ n \notin Private(p)  BY <4>1, <1>1 DEF Stack
      <4>3. UpTo(taken, n, alternative[n])  BY <4>1 DEF Inv, TakenInv
      <4> QED BY <4>2, <4>3, <1>2
    <3> QED BY <3>1, <3>2, <1>1
  <2>3. \A n \in Node : <<n, 1>> \in taken /\ (\A v \in Worker : n \notin Stack(v)')
                         => UpTo(taken, n, NULL)
    <3> SUFFICES ASSUME NEW n \in Node, <<n, 1>> \in taken,
                        \A v \in Worker : n \notin Stack(v)'
        PROVE  UpTo(taken, n, NULL)
        OBVIOUS
    <3>1. n \notin Stack(p) /\ n \notin Stack(q)  BY <1>1, <1>4
    <3>2. \A v \in Worker : n \notin Stack(v)  BY <3>1, <1>1
    <3> QED BY <3>2 DEF Inv, TakenInv
  <2> QED BY <2>1, <2>2, <2>3, <1>2 DEF TakenInv
<1> QED BY <1>6, <1>7, <1>8

\* The or-frames: new ones for the private choice points, with p and q, and q in
\* all the others that p has.
LEMMA ShareFrames ==
  ASSUME Inv, NEW p \in Worker, NEW q \in Worker, Share(p, q)
  PROVE  MembersExact' /\ LinkInv' /\ LiveNodesReachable'
<1>1. /\ p # q /\ Stack(p) \in SUBSET Node /\ Path(Stack(p)) /\ Stack(q) \subseteq Public(p)
      /\ Public(q) = Stack(q)
      /\ \A m \in Public(p) : m \in Stack(q) <=> <<m, top_cp[q]>> \notin Under
      /\ \A w \in {p, q} : Stack(w)' = Stack(p) /\ Public(w)' = Stack(p)
      /\ \A v \in Worker \ {p, q} : /\ Stack(v)' = Stack(v) /\ Public(v)' = Public(v)
                                     /\ Private(p) \cap Stack(v) = {}
      BY ShareFacts
<1>2. /\ \A n \in Node : alternative'[n] = IF n \in Private(p) THEN cp_ap[p][n]
                                            ELSE alternative[n]
      /\ \A n \in Node : nearest_livenode'[n] = IF n \in Private(p) THEN CpB(p, n)
                                                 ELSE nearest_livenode[n]
      /\ \A n \in Node : members'[n] =
            IF n \in Private(p) THEN {p, q}
            ELSE IF n \in Public(p) /\ <<n, top_cp[q]>> \in Under THEN members[n] \cup {q}
            ELSE members[n]
      BY DEF Share, SharePrivateNodes
<1>3. \A v \in Worker : /\ Public(v) \subseteq Stack(v) /\ Public(v) = Stack(v) \ Private(v)
                        /\ Private(v) \subseteq Stack(v) /\ Stack(v) \in SUBSET Node
      BY DEF Public, Private, Stack
<1>4. \A n \in Node : members[n] = {v \in Worker : n \in Public(v)}
      BY DEF Inv, MembersExact
<1>5. Root \in Public(p) /\ Root \notin Private(p)
      BY <1>3, StackFacts DEF Inv
<1>6. \A n \in Private(p) : /\ CpB(p, n) \in Stack(p) /\ <<n, CpB(p, n)>> \in Under
                            /\ CpB(p, n) # None
                            /\ \A m \in Stack(p) : <<n, m>> \in Under => AtOrUnder(CpB(p, n), m)
      BY <1>1, <1>3, <1>5, PathFacts, NoneAssumption DEF CpB
<1>7. MembersExact'
  <2> SUFFICES ASSUME NEW n \in Node, NEW v \in Worker
      PROVE  v \in members'[n] <=> n \in Public(v)'
    <3>1. \A n \in Node : members'[n] \subseteq Worker
          BY <1>2, <1>4
    <3> QED BY <3>1 DEF MembersExact
  <2>1. CASE n \in Private(p)
    <3>1. members'[n] = {p, q}  BY <2>1, <1>2
    <3>2. CASE v \in {p, q}
      <4>1. n \in Stack(p) /\ Public(v)' = Stack(p)  BY <2>1, <3>2, <1>1, <1>3
      <4> QED BY <3>1, <3>2, <4>1
    <3>3. CASE v \notin {p, q}
      <4>1. n \notin Stack(v) /\ Public(v)' = Public(v)  BY <2>1, <3>3, <1>1
      <4> QED BY <3>1, <3>3, <4>1, <1>3
    <3> QED BY <3>2, <3>3
  <2>2. CASE n \notin Private(p) /\ v \notin {p, q}
    <3>1. v \in members'[n] <=> v \in members[n]  BY <2>2, <1>2
    <3>2. Public(v)' = Public(v)  BY <2>2, <1>1
    <3> QED BY <3>1, <3>2, <1>4
  <2>3. CASE n \notin Private(p) /\ v = p
    <3>1. v \in members'[n] <=> n \in Public(p)  BY <2>3, <1>1, <1>2, <1>4
    <3> QED BY <2>3, <3>1, <1>1, <1>3
  <2>4. CASE n \notin Private(p) /\ v = q
    <3>1. n \in Public(v)' <=> n \in Public(p)  BY <2>4, <1>1, <1>3
    <3>2. q \in members[n] <=> n \in Stack(q)  BY <1>1, <1>4
    <3> QED BY <2>4, <3>1, <3>2, <1>1, <1>2
  <2> QED BY <2>1, <2>2, <2>3, <2>4
<1>8. LinkInv'
  <2>1. alternative'[Root] = NULL  BY <1>2, <1>5, TreeAssumption DEF Inv, LinkInv
  <2>2. ASSUME NEW v \in Worker, NEW n \in Public(v)', nearest_livenode'[n] # None
        PROVE  nearest_livenode'[n] \in Stack(v)' /\ <<n, nearest_livenode'[n]>> \in Under
    <3>1. CASE v \in {p, q}
      <4>1. n \in Stack(p) /\ Stack(v)' = Stack(p) /\ n \in Node  BY <3>1, <2>2, <1>1
      <4>2. CASE n \in Private(p)  BY <4>1, <4>2, <1>2, <1>6
      <4>3. CASE n \in Public(p)
        <5>1. nearest_livenode'[n] = nearest_livenode[n]  BY <4>1, <4>3, <1>2, <1>3
        <5>2. nearest_livenode[n] \in Stack(p) /\ <<n, nearest_livenode[n]>> \in Under
              BY <4>3, <5>1, <2>2 DEF Inv, LinkInv
        <5> QED BY <4>1, <5>1, <5>2
      <4> QED BY <4>1, <4>2, <4>3, <1>3
    <3>2. CASE v \notin {p, q}
      <4>1. n \in Public(v) /\ Stack(v)' = Stack(v) /\ n \notin Private(p) /\ n \in Node
            BY <3>2, <2>2, <1>1, <1>3
      <4>2. nearest_livenode'[n] = nearest_livenode[n]  BY <4>1, <1>2
      <4> QED BY <2>2, <4>1, <4>2 DEF Inv, LinkInv
    <3> QED BY <3>1, <3>2
  <2> QED BY <2>1, <2>2 DEF LinkInv
<1>9. LiveNodesReachable'
  <2> SUFFICES ASSUME NEW k \in Node, NEW m \in Node, members'[k] # {}, members'[m] # {},
                      <<k, m>> \in Under, alternative'[m] # NULL, m \notin Sequential
      PROVE  nearest_livenode'[k] # None /\ AtOrUnder(nearest_livenode'[k], m)
      BY DEF LiveNodesReachable
  <2>1. PICK x \in Worker, y \in Worker : k \in Public(x)' /\ m \in Public(y)'
        BY <1>7 DEF MembersExact
  <2> DEFINE of(v) == IF v \in {p, q} THEN p ELSE v
  <2>2. /\ of(x) \in Worker /\ k \in Stack(of(x)) /\ of(y) \in Worker /\ m \in Stack(of(y))
        /\ k \notin Private(p) => k \in Public(of(x))
        /\ m \notin Private(p) => m \in Public(of(y))
        BY <2>1, <1>1, <1>3
  <2>3. CASE k \in Private(p)
    <3>1. m \in Stack(p)
      <4>1. k \in Stack(p)  BY <2>3, <1>3
      <4> QED BY <2>2, <4>1 DEF Inv, ShapeInv
    <3> QED BY <2>3, <3>1, <1>2, <1>6
  <2>4. CASE k \notin Private(p)
    <3>1. m \notin Private(p)
      <4> SUFFICES ASSUME m \in Private(p) PROVE FALSE
          OBVIOUS
      <4>1. m \in Stack(of(x))
        <5>1. m \in Stack(p)  BY <1>3
        <5> QED BY <2>2, <5>1 DEF Inv, ShapeInv
      <4>2. of(x) = p  BY <4>1, <2>2 DEF Inv, ShapeInv
      <4>3. k \in Public(p) /\ k \in Stack(p) /\ m \in Stack(p)  BY <4>2, <2>2, <2>4, <1>3
      <4>4. AtOrUnder(top_cp[p], k) /\ <<m, top_cp[p]>> \in Under /\ top_cp[p] \in Node
            BY <4>3, StackFacts DEF Inv, TypeOK
      <4> QED BY <4>4, UnderFacts
    <3>2. members[k] # {} /\ members[m] # {}
      <4>1. of(x) \in members[k]  BY <2>2, <2>4, <1>4
      <4>2. of(y) \in members[m]  BY <2>2, <3>1, <1>4
      <4> QED BY <4>1, <4>2
    <3>3. alternative[m] # NULL  BY <3>1, <1>2
    <3>4. nearest_livenode[k] # None /\ AtOrUnder(nearest_livenode[k], m)
          BY <3>2, <3>3 DEF Inv, LiveNodesReachable
    <3> QED BY <3>4, <2>4, <1>2
  <2> QED BY <2>3, <2>4
<1> QED BY <1>7, <1>8, <1>9

LEMMA ShareInv ==
  ASSUME Inv, NEW p \in Worker, NEW q \in Worker, Share(p, q)
  PROVE  Inv'
<1>1. /\ p # q /\ pc[p] = "run" /\ pc[q] = "ask" /\ Stack(p) \in SUBSET Node
      /\ B(p) \in Stack(p) /\ \A m \in Stack(p) : AtOrUnder(B(p), m)
      /\ \A w \in {p, q} : Stack(w)' = Stack(p) /\ top_cp'[w] = B(p)
      /\ \A v \in Worker \ {p, q} : /\ Stack(v)' = Stack(v) /\ top_cp'[v] = top_cp[v]
                                     /\ Private(p) \cap Stack(v) = {}
      BY ShareFacts
<1>2. TypeOK  BY DEF Inv
<1>3. /\ pc' = [pc EXCEPT ![q] = "shared"] /\ root' = root \ {q}
      /\ UNCHANGED <<cur, node, target, idle, invisible, taken>>
      /\ SharePrivateNodes(p, q)
      BY DEF Share, Goto, locals
<1>4. /\ pc' \in [Worker -> Location] /\ pc'[q] = "shared"
      /\ \A v \in Worker \ {q} : pc'[v] = pc[v]
      BY <1>2, <1>3 DEF TypeOK, Location
<1>5. \A n \in Node : alternative'[n] = IF n \in Private(p) THEN cp_ap[p][n] ELSE alternative[n]
      BY <1>3 DEF SharePrivateNodes
<1>6. TypeOK'
  <2>1. SharedAp(p) \in [Node -> Int]
        /\ \A n \in Node : SharedAp(p)[n] \in {NULL, GETWORK, GETWORK_SEQ} \cup (2 .. Len(Tree[n]))
        BY <1>2 DEF SharedAp, TypeOK, GETWORK, GETWORK_SEQ
  <2>2. cp_ap' = [cp_ap EXCEPT ![p] = SharedAp(p), ![q] = SharedAp(p)]
        BY <1>3 DEF SharePrivateNodes
  <2>3. cp_ap' \in [Worker -> [Node -> Int]]  BY <1>2, <2>1, <2>2 DEF TypeOK
  <2>4. \A v \in Worker, n \in Node :
          cp_ap'[v][n] \in {NULL, GETWORK, GETWORK_SEQ} \cup (2 .. Len(Tree[n]))
    <3> SUFFICES ASSUME NEW v \in Worker, NEW n \in Node
        PROVE cp_ap'[v][n] \in {NULL, GETWORK, GETWORK_SEQ} \cup (2 .. Len(Tree[n]))
        OBVIOUS
    <3>1. cp_ap'[v] = cp_ap[v] \/ cp_ap'[v] = SharedAp(p)  BY <1>2, <2>2 DEF TypeOK
    <3> QED BY <1>2, <2>1, <3>1 DEF TypeOK
  <2>5. top_cp' \in [Worker -> Node]
        BY <1>1, <1>2, <1>3 DEF TypeOK, SharePrivateNodes
  <2>6. alternative' \in [Node -> Int]
        /\ \A n \in Node : alternative'[n] \in {NULL} \cup (2 .. Len(Tree[n]))
    <3>1. \A n \in Private(p) : cp_ap[p][n] \in 2 .. Len(Tree[n])
          BY DEF Inv, ShapeInv, ApRight
    <3> QED BY <1>2, <1>3, <1>5, <3>1 DEF TypeOK, SharePrivateNodes
  <2>7. members' \in [Node -> SUBSET Worker]
        BY <1>2, <1>3 DEF TypeOK, SharePrivateNodes
  <2>8. nearest_livenode' \in [Node -> Node \cup {None}]
    <3>1. \A n \in Private(p) : CpB(p, n) \in Node
      <4>1. Stack(p) \in SUBSET Node /\ Path(Stack(p)) /\ Root \notin Private(p)
            /\ Private(p) \subseteq Stack(p)
            BY ShareFacts, StackFacts DEF Inv
      <4> QED BY <4>1, PathFacts, ZenonT(60) DEF CpB
    <3> QED BY <1>2, <1>3, <3>1 DEF TypeOK, SharePrivateNodes
  <2> QED BY <1>2, <1>3, <1>4, <2>3, <2>4, <2>5, <2>6, <2>7, <2>8 DEF TypeOK
<1>7. SchedFor(p)'
  <2>1. p \notin root  BY <1>1 DEF Inv, SchedInv, SchedFor
  <2> QED BY <1>1, <1>3, <1>4, <2>1 DEF SchedFor, InEngine, Searching, WithoutWork
<1>8. SchedFor(q)'
      BY <1>1, <1>3, <1>4 DEF SchedFor, InEngine, Searching, WithoutWork
<1>9. \A v \in Worker \ {p, q} : SchedFor(v)'
  <2> SUFFICES ASSUME NEW v \in Worker \ {p, q} PROVE SchedFor(v)'
      OBVIOUS
  <2>1. \A n \in Stack(v) : n \in Node /\ n \notin Private(p)  BY <1>1 DEF Stack
  <2>2. \A n \in Stack(v) : alternative'[n] = alternative[n]  BY <2>1, <1>5
  <2> QED BY <2>2, <1>1, <1>3, <1>4, SchedOthers
<1> QED BY <1>6, <1>7, <1>8, <1>9, ShareShape, ShareTaken, ShareFrames DEF Inv, SchedInv

-----------------------------------------------------------------------------
(***************************************************************************)
(* The invariant holds.                                                    *)
(***************************************************************************)
LEMMA InitInv == Init => Inv
<1> SUFFICES ASSUME Init PROVE Inv
    OBVIOUS
<1>1. PICK first \in Worker : InitFor(first)  BY DEF Init
<1>2. Query \in Alternative /\ Query[1] = Root /\ Len(Tree[Root]) = 1
      BY AlternativeFacts, TreeAssumption DEF Query
<1>3. /\ \A w \in Worker, n \in Node : cp_ap[w][n] = IF n = Root THEN GETWORK ELSE NULL
      /\ \A w \in Worker : top_cp[w] = Root /\ cur[w] = Query /\ node[w] = Root
                           /\ pc[w] = IF w = first THEN "run" ELSE "scan"
      /\ \A n \in Node : /\ alternative[n] = NULL /\ nearest_livenode[n] = None
                         /\ members[n] = IF n = Root THEN Worker ELSE {}
      /\ root = {} /\ taken = {Query}
      BY <1>1 DEF InitFor
<1>4. TypeOK
      BY <1>1, <1>2, TreeAssumption DEF InitFor, TypeOK, Location, NULL, GETWORK
<1>5. \A w \in Worker : Stack(w) = {Root}
      BY <1>3, TreeAssumption DEF Stack, NULL, GETWORK
<1>6. \A w \in Worker : Private(w) = {} /\ Public(w) = {Root}
      BY <1>3, <1>5, OrderAssumption DEF Private, Public
<1>7. ShapeInv
  <2>1. Path({Root})  BY DEF Path, AtOrUnder
  <2>2. \A w \in Worker : ApRight(w)
        BY <1>3, <1>6, TreeAssumption DEF ApRight
  <2> QED BY <1>3, <1>5, <1>6, <2>1, <2>2, SMTT(30) DEF ShapeInv
<1>8. <<Created(Query), 1>> \notin taken
  <2>1. Created(Query) # Root  BY <1>2, AlternativeFacts
  <2> QED BY <2>1, <1>3 DEF Query
<1>9. RunInv
      BY <1>2, <1>3, <1>5, <1>8 DEF RunInv, Running, AtOrUnder
<1>10. BornInv
  <2>1. \A m \in Node : AtOrUnder(Root, m) => m = Root
        BY OrderAssumption DEF AtOrUnder
  <2>2. \A x \in Alternative : <<Created(x), 1>> \notin taken
        BY <1>3, AlternativeFacts DEF Query
  <2>3. Running(first) /\ cur[first] = Query  BY <1>3 DEF Running
  <2> QED BY <1>2, <1>3, <1>5, <2>1, <2>2, <2>3 DEF BornInv, Query
<1>11. TakenInv
  <2>1. UpTo(taken, Root, NULL)
        BY <1>2, <1>3, AlternativeFacts, TreeAssumption DEF UpTo, Query
  <2>2. \A n \in Node : <<n, 1>> \in taken => n = Root  BY <1>3 DEF Query
  <2>3. \A n \in Node, w \in Worker : n \in Stack(w) <=> n = Root  BY <1>5
  <2>4. \A n \in Node : <<n, 1>> \in taken /\ (\A w \in Worker : n \notin Stack(w))
                        => UpTo(taken, n, NULL)
        BY <1>1, <2>2, <2>3
  <2>5. \A w \in Worker : \A n \in Public(w) : UpTo(taken, n, alternative[n])
    <3> SUFFICES ASSUME NEW w \in Worker, NEW n \in Public(w)
        PROVE UpTo(taken, n, alternative[n])
        OBVIOUS
    <3>1. n = Root /\ alternative[Root] = NULL  BY <1>3, <1>6, TreeAssumption
    <3> QED BY <2>1, <3>1
  <2>6. \A w \in Worker : \A n \in Private(w) : UpTo(taken, n, cp_ap[w][n])
        BY <1>6
  <2> QED BY <2>4, <2>5, <2>6 DEF TakenInv
<1>12. MembersExact /\ LinkInv /\ LiveNodesReachable
       BY <1>3, <1>6, TreeAssumption DEF MembersExact, LinkInv, LiveNodesReachable
<1>13. SchedInv
  <2> SUFFICES ASSUME NEW w \in Worker PROVE SchedFor(w)
      BY DEF SchedInv
  <2>1. /\ top_cp[w] = Root /\ node[w] = Root /\ pc[w] \in {"run", "scan"} /\ w \notin root
        /\ Stack(w) = {Root} /\ alternative[Root] = NULL
        BY <1>3, <1>5, TreeAssumption
  <2>2. NoneLive({n \in Stack(w) : AtOrUnder(n, node[w])})  BY <2>1 DEF NoneLive
  <2> QED BY <2>1, <2>2 DEF SchedFor, AtOrUnder, InEngine, Searching, WithoutWork
<1> QED BY <1>4, <1>7, <1>9, <1>10, <1>11, <1>12, <1>13 DEF Inv

LEMMA NextInv == Inv /\ [Next]_vars => Inv'
<1> SUFFICES ASSUME Inv, [Next]_vars PROVE Inv'
    OBVIOUS
<1>1. CASE UNCHANGED vars
  <2>1. UNCHANGED <<pc, cur, cp_ap, top_cp, alternative, members, nearest_livenode, node, target,
                    idle, root, invisible, taken>>
        BY <1>1 DEF vars, frames, locals, bitmaps
  <2>2. \A v \in Worker : Stack(v)' = Stack(v) /\ Public(v)' = Public(v)
        BY <2>1, SameStacks
  <2>3. TypeOK'  BY <2>1 DEF Inv, TypeOK
  <2>4. \A v \in Worker : SchedFor(v)'  BY <2>1, <2>2, SchedOthers
  <2>5. LinkInv' /\ LiveNodesReachable'
        BY <2>1, <2>2 DEF Inv, LinkInv, LiveNodesReachable
  <2> QED BY <2>1, <2>3, <2>4, <2>5, QuietInv DEF Running
<1>2. ASSUME NEW w \in Worker, Engine(w) PROVE Inv'
      BY <1>2, TryInv, RetryInv, GetAlternativeInv, EngineQuietInv DEF Engine
<1>3. ASSUME NEW w \in Worker, GetWork(w) PROVE Inv'
      BY <1>3, ScanInv, ToWorkInv, ResumeInv, PutNoWorkInv, PutIdleInv DEF GetWork
<1>4. ASSUME NEW w \in Worker, Climb(w) PROVE Inv'
      BY <1>4, ClimbingInv, ResumeInv DEF Climb
<1>5. ASSUME NEW w \in Worker, IdleLoop(w) PROVE Inv'
      BY <1>5, ClimbingInv, ResumeInv, IdleLoopInv DEF IdleLoop
<1>6. ASSUME NEW w \in Worker, NextRound(w) \/ PutBusy(w) PROVE Inv'
      BY <1>6, IdleLoopInv, ResumeInv
<1>7. ASSUME NEW w \in Worker, NEW p \in Worker,
             GoAbove(w, p) \/ Ask(w, p) \/ Refuse(w, p) \/ Share(w, p)
      PROVE  Inv'
      BY <1>7, SearchInv, RequestInv, ShareInv
<1>8. ASSUME NEW w \in Worker, NEW P \in SUBSET Worker, GoBetter(w, P) PROVE Inv'
      BY <1>8, SearchInv
<1>9. CASE Over  BY <1>9, <1>1 DEF Over
<1> QED BY <1>1, <1>2, <1>3, <1>4, <1>5, <1>6, <1>7, <1>8, <1>9 DEF Next

LEMMA SchedulerInv == Spec => []Inv
<1> QED BY InitInv, NextInv, PTL DEF Spec

-----------------------------------------------------------------------------
(***************************************************************************)
(* The scheduler implements the exploration of the search tree.            *)
(***************************************************************************)

\* What the steps of OrSearch see of the scheduler: `running' and `over'.
InFlight == {cur[w] : w \in {v \in Worker : pc[v] = "run"}}
Ended == \E w \in Worker : pc[w] = "end"

LEMMA SameTree ==
  /\ Search!Alternative = Alternative /\ Search!Query = Query
  /\ \A x : Search!Created(x) = Created(x)
  /\ \A x, y : Search!Within(y, x) <=> Within(y, x)
BY DEF Search!Alternative, Alternative, Search!Query, Query, Search!Created, Created,
       Search!Within, Within, Search!AtOrUnder, AtOrUnder

LEMMA SearchStutters ==
  ASSUME taken' = taken,
         \A v \in Worker : (pc[v] = "run" <=> pc'[v] = "run") /\ cur'[v] = cur[v],
         \A v \in Worker : pc[v] = "end" <=> pc'[v] = "end"
  PROVE  UNCHANGED Search!vars
<1>1. InFlight' = InFlight  BY DEF InFlight
<1>2. Ended' = Ended  BY DEF Ended
<1> QED BY <1>1, <1>2 DEF Search!vars, InFlight, Ended

\* try: the running alternative goes on with the first one of its new node.
LEMMA TryCalls ==
  ASSUME Inv, NEW w \in Worker, Try(w), NEW x \in Alternative, x = cur[w]
  PROVE  Search!Call(x)
<1> DEFINE y == <<Created(x), 1>>
<1>1. pc[w] = "run" /\ pc' = pc /\ Created(x) # Leaf
      BY DEF Inv, TypeOK, Try
<1>2. /\ y \notin taken /\ taken' = taken \cup {y}
      /\ cur'[w] = y /\ \A v \in Worker \ {w} : cur'[v] = cur[v]
      BY TryFacts
<1>3. \A v \in Worker \ {w} : pc[v] = "run" => cur[v] # x
      BY <1>1 DEF Inv, RunInv, Running
<1>4. InFlight' = (InFlight \ {x}) \cup {y}
      BY <1>1, <1>2, <1>3 DEF InFlight
<1>5. x \in InFlight  BY <1>1 DEF InFlight
<1>6. Ended' = Ended  BY <1>1 DEF Ended
<1> QED BY <1>1, <1>2, <1>4, <1>5, <1>6, SameTree, Zenon DEF Search!Call, InFlight, Ended

LEMMA FailEnds ==
  ASSUME Inv, NEW w \in Worker, Fail(w), NEW x \in Alternative, x = cur[w]
  PROVE  Search!End(x)
<1>1. /\ pc[w] = "run" /\ Created(x) = Leaf
      /\ cur' = cur /\ taken' = taken
      /\ pc'[w] = "fail" /\ \A v \in Worker \ {w} : pc'[v] = pc[v]
      BY DEF Inv, TypeOK, Fail, Goto
<1>2. \A v \in Worker \ {w} : pc[v] = "run" => cur[v] # x
      BY <1>1 DEF Inv, RunInv, Running
<1>3. InFlight' = InFlight \ {x}
      BY <1>1, <1>2 DEF InFlight
<1>4. x \in InFlight  BY <1>1 DEF InFlight
<1>5. Ended' = Ended  BY <1>1 DEF Ended
<1> QED BY <1>1, <1>3, <1>4, <1>5, SameTree, Zenon DEF Search!End, InFlight, Ended

\* When one worker alone has a choice point, as its youngest, everything below
\* the alternatives taken there has been explored.
LEMMA ExploredBelow ==
  ASSUME Inv, NEW w \in Worker, pc[w] # "run",
         NEW n \in Stack(w), \A m \in Stack(w) : AtOrUnder(n, m),
         \A v \in Worker \ {w} : n \notin Stack(v),
         NEW x \in taken, x[1] = n
  PROVE  x \notin InFlight /\ \A y \in Alternative : Within(y, x) => y \in taken \ InFlight
<1> DEFINE d == Created(x)
<1>1. n \in Node /\ x \in Alternative  BY DEF Stack, Inv, TypeOK
<1>2. \A y \in InFlight : ~ AtOrUnder(y[1], n)
      BY <1>1 DEF InFlight, Inv, RunInv, Running
<1>3. x \notin InFlight  BY <1>2 DEF AtOrUnder
<1>4. SUFFICES ASSUME d # Leaf
               PROVE  \A y \in Alternative : AtOrUnder(y[1], d) => y \in taken \ InFlight
      BY <1>3 DEF Within
<1>5. d \in Node \ {Root} /\ <<d, n>> \in Under
  <2>1. d \in Node \ {Root}  BY <1>1, <1>4, AlternativeFacts
  <2>2. <<d, n>> \in Under  BY <1>1, <1>4, OrderAssumption DEF AtOrUnder
  <2> QED BY <2>1, <2>2
<1> HIDE DEF d
<1> DEFINE S == {m \in Node : AtOrUnder(m, d) => \A b \in DOMAIN Tree[m] : <<m, b>> \in taken}
<1>6. \A e \in Node : AtOrUnder(e, d) => <<e, n>> \in Under
      BY <1>1, <1>5, UnderFacts
<1>7. \A y \in Alternative : y[1] \in Node /\ y = <<y[1], y[2]>> /\ y[2] \in DOMAIN Tree[y[1]]
  <2> SUFFICES ASSUME NEW y \in Alternative
      PROVE y[1] \in Node /\ y = <<y[1], y[2]>> /\ y[2] \in DOMAIN Tree[y[1]]
      OBVIOUS
  <2>1. PICK m \in Node : \E a \in DOMAIN Tree[m] : y = <<m, a>>  BY DEF Alternative
  <2>2. PICK a \in DOMAIN Tree[m] : y = <<m, a>>  BY <2>1
  <2> QED BY <2>2
<1>8. Root \in S
      BY <1>5, TreeAssumption, OrderAssumption DEF AtOrUnder
<1>9. ASSUME NEW z \in Alternative, z[1] \in S, Created(z) # Leaf
      PROVE  Created(z) \in S
  <2> DEFINE e == Created(z)
  <2>1. e \in Node /\ z[1] \in Node  BY <1>9, AlternativeFacts
  <2>2. SUFFICES ASSUME AtOrUnder(e, d)
                 PROVE  \A b \in DOMAIN Tree[e] : <<e, b>> \in taken
        BY <2>1
  <2>3. z \in taken /\ AtOrUnder(z[1], n)
    <3>1. CASE e = d
      <4>1. z = x  BY <1>1, <1>4, <1>9, <3>1, TreeAssumption DEF d
      <4> QED BY <4>1 DEF AtOrUnder
    <3>2. CASE e # d
      <4>1. AtOrUnder(z[1], d)
            BY <1>5, <1>9, <2>2, <3>2, OrderAssumption DEF AtOrUnder
      <4>2. z \in taken  BY <1>7, <1>9, <4>1
      <4> QED BY <4>1, <4>2, <1>6, <2>1 DEF AtOrUnder
    <3> QED BY <3>1, <3>2
  <2>4. <<e, 1>> \in taken
    <3>1. z \notin InFlight  BY <1>2, <2>3
    <3> QED BY <1>9, <2>3, <3>1 DEF InFlight, Inv, BornInv, Running
  <2>5. \A v \in Worker : e \notin Stack(v)
    <3>1. <<e, n>> \in Under  BY <1>6, <2>1, <2>2
    <3>2. ~ AtOrUnder(n, e)  BY <1>1, <2>1, <3>1, UnderFacts DEF AtOrUnder
    <3> HIDE DEF e
    <3> QED BY <3>1, <3>2 DEF Inv, ShapeInv
  <2>6. UpTo(taken, e, NULL)  BY <2>1, <2>4, <2>5 DEF Inv, TakenInv
  <2> QED BY <2>6 DEF UpTo
<1>10. S = Node
  <2>1. S \in SUBSET Node  OBVIOUS
  <2> HIDE DEF S
  <2> QED BY <1>8, <1>9, <2>1, GrowthAssumption
<1>11. ASSUME NEW y \in Alternative, AtOrUnder(y[1], d) PROVE y \in taken \ InFlight
  <2>1. y[1] \in S /\ y = <<y[1], y[2]>> /\ y[2] \in DOMAIN Tree[y[1]]  BY <1>7, <1>10
  <2>2. y \in taken  BY <1>11, <2>1
  <2>3. y \notin InFlight  BY <1>2, <1>6, <1>7, <1>11 DEF AtOrUnder
  <2> QED BY <2>2, <2>3
<1> QED BY <1>11

\* A worker goes on with alternative a of its youngest choice point.
LEMMA LaterTaken ==
  ASSUME Inv, NEW w \in Worker, Goto(w, "fail", "run"),
         NEW n \in Stack(w), \A m \in Stack(w) : AtOrUnder(n, m),
         n \in Sequential => \A v \in Worker \ {w} : n \notin Stack(v),
         NEW a \in 2 .. Len(Tree[n]), UpTo(taken, n, a), Take(w, <<n, a>>)
  PROVE  Search!Take(<<n, a>>) /\ <<n, a>> \in Alternative
<1> DEFINE x == <<n, a>>
           before == <<n, a - 1>>
<1>1. n \in Node /\ Len(Tree[n]) \in Nat  BY AlternativeFacts DEF Stack
<1>2. a \in Nat /\ a > 1 /\ a - 1 \in 1 .. Len(Tree[n]) /\ a \in 1 .. Len(Tree[n]) /\ a # NULL
      BY <1>1 DEF NULL
<1>3. x \in Alternative /\ before \in Alternative  BY <1>1, <1>2, AlternativeFacts
<1>4. x \notin taken /\ before \in taken
  <2>1. DOMAIN Tree[n] = 1 .. Len(Tree[n])  BY <1>1, AlternativeFacts
  <2> QED BY <1>1, <1>2, <2>1 DEF UpTo
<1>5. /\ pc[w] = "fail" /\ pc'[w] = "run" /\ \A v \in Worker \ {w} : pc'[v] = pc[v]
      /\ cur'[w] = x /\ \A v \in Worker \ {w} : cur'[v] = cur[v]
      /\ taken' = taken \cup {x}
      BY DEF Inv, TypeOK, Goto, Take
<1>6. InFlight' = InFlight \cup {x}  BY <1>5 DEF InFlight
<1>7. Ended' = Ended  BY <1>5 DEF Ended
<1>8. ASSUME n \in Sequential
      PROVE  before \notin InFlight /\ \A y \in Alternative : Within(y, before) => y \in taken \ InFlight
  <2>1. \A v \in Worker \ {w} : n \notin Stack(v)  BY <1>8
  <2>2. before \in taken /\ before[1] = n /\ pc[w] # "run"  BY <1>4, <1>5
  <2> HIDE DEF before
  <2> QED BY <2>1, <2>2, ExploredBelow
<1>9. x[1] = n /\ x[2] = a  OBVIOUS
<1> QED BY <1>2, <1>3, <1>4, <1>5, <1>6, <1>7, <1>8, <1>9, SameTree, Zenon
        DEF Search!Take, InFlight, Ended

LEMMA RetryTakes ==
  ASSUME Inv, NEW w \in Worker, Retry(w)
  PROVE  \E x \in Alternative : Search!Take(x)
<1> DEFINE n == B(w)
           a == cp_ap[w][n]
<1>1. n \in Private(w) /\ n \in Stack(w) /\ \A m \in Stack(w) : AtOrUnder(n, m)
      BY StackFacts DEF Inv, Retry
<1>2. a \in 2 .. Len(Tree[n]) /\ UpTo(taken, n, a)
      BY <1>1 DEF Inv, ShapeInv, ApRight, TakenInv
<1>3. \A v \in Worker \ {w} : n \notin Stack(v)  BY <1>1 DEF Inv, ShapeInv
<1>4. Goto(w, "fail", "run") /\ Take(w, <<n, a>>)  BY DEF Retry
<1> HIDE DEF n, a
<1> QED BY <1>1, <1>2, <1>3, <1>4, LaterTaken

LEMMA GetAlternativeTakes ==
  ASSUME Inv, NEW w \in Worker, GetAlternative(w)
  PROVE  \E x \in Alternative : Search!Take(x)
<1> DEFINE n == top_cp[w]
           a == alternative[n]
<1>1. n \in Public(w) /\ n \in Stack(w) /\ n \in Node /\ \A m \in Stack(w) : AtOrUnder(n, m)
      BY StackFacts DEF Inv, GetAlternative
<1>2. a \in 2 .. Len(Tree[n]) /\ UpTo(taken, n, a)
      BY <1>1 DEF Inv, TypeOK, TakenInv, GetAlternative, HasWork
<1>3. ASSUME n \in Sequential, NEW v \in Worker \ {w} PROVE n \notin Stack(v)
  <2>1. cp_ap[w][n] = GETWORK_SEQ  BY <1>1, <1>3 DEF Inv, ShapeInv, ApRight
  <2>2. members[n] = {w}  BY <2>1 DEF GetAlternative, HasWork
  <2>3. n \notin Public(v)  BY <1>1, <2>2 DEF Inv, MembersExact
  <2>4. n \notin Private(v)  BY <1>1 DEF Inv, ShapeInv
  <2> QED BY <2>3, <2>4 DEF Public
<1>4. Goto(w, "fail", "run") /\ Take(w, <<n, a>>)  BY DEF GetAlternative
<1> HIDE DEF n, a
<1> QED BY <1>1, <1>2, <1>3, <1>4, LaterTaken

\* When all are in the root node for good, the tree is explored.
LEMMA FinishExplored ==
  ASSUME Inv, NEW w \in Worker, Finish(w)
  PROVE  Search!Finish
<1>1. \A v \in Worker : /\ top_cp[v] = Root /\ pc[v] \in {"idle", "look", "ask", "end"}
      BY DEF Finish, Inv, SchedInv, SchedFor
<1>2. \A v \in Worker, n \in Node : n \in Stack(v) => n = Root
  <2> SUFFICES ASSUME NEW v \in Worker, NEW n \in Stack(v) PROVE n = Root
      OBVIOUS
  <2>1. AtOrUnder(Root, n) /\ n \in Node
        BY <1>1 DEF Inv, SchedInv, SchedFor, InEngine, Stack
  <2> QED BY <2>1, OrderAssumption DEF AtOrUnder
<1>3. InFlight = {}  BY <1>1 DEF InFlight
<1> DEFINE S == {n \in Node : \A b \in DOMAIN Tree[n] : <<n, b>> \in taken}
<1>4. Root \in S
  <2>1. Root \in Node /\ DOMAIN Tree[Root] = 1 .. 1  BY AlternativeFacts, TreeAssumption
  <2>2. <<Root, 1>> \in taken  BY DEF Inv, BornInv, Query
  <2> QED BY <2>1, <2>2
<1>5. ASSUME NEW x \in Alternative, x[1] \in S, Created(x) # Leaf
      PROVE  Created(x) \in S
  <2>1. Created(x) \in Node \ {Root}  BY <1>5, AlternativeFacts
  <2>2. x \in taken
    <3>1. PICK m \in Node : \E a \in DOMAIN Tree[m] : x = <<m, a>>  BY DEF Alternative
    <3>2. PICK a \in DOMAIN Tree[m] : x = <<m, a>>  BY <3>1
    <3> QED BY <3>2, <1>5
  <2>3. <<Created(x), 1>> \in taken
        BY <1>1, <1>5, <2>2 DEF Inv, BornInv, Running
  <2>4. UpTo(taken, Created(x), NULL)
        BY <1>2, <2>1, <2>3 DEF Inv, TakenInv
  <2> QED BY <2>1, <2>4 DEF UpTo
<1>6. S = Node
  <2>1. S \in SUBSET Node  OBVIOUS
  <2> HIDE DEF S
  <2> QED BY <1>4, <1>5, <2>1, GrowthAssumption
<1>7. taken = Alternative
  <2>1. taken \subseteq Alternative  BY DEF Inv, TypeOK
  <2>2. Alternative \subseteq taken  BY <1>6 DEF Alternative
  <2> QED BY <2>1, <2>2
<1>8. pc'[w] = "end" /\ taken' = taken /\ cur' = cur
      /\ \A v \in Worker \ {w} : pc'[v] = pc[v]
      BY DEF Inv, TypeOK, Finish, Goto
<1>9. InFlight' = {}  BY <1>1, <1>8 DEF InFlight
<1>10. Ended' = TRUE  BY <1>8 DEF Ended
<1> QED BY <1>3, <1>7, <1>8, <1>9, <1>10, SameTree, Zenon DEF Search!Finish, InFlight, Ended

\* The steps that take nothing and run nothing.
LEMMA OtherStutters ==
  ASSUME Inv, NEW w \in Worker,
         \/ EnterScheduler(w) \/ GetWork(w) \/ Climb(w) \/ NextRound(w) \/ PutBusy(w)
         \/ IdleUp(w) \/ IdleResume(w) \/ EnterRoot(w) \/ Look(w)
         \/ \E p \in Worker : GoAbove(w, p) \/ Ask(w, p) \/ Refuse(w, p) \/ Share(w, p)
         \/ \E P \in SUBSET Worker : GoBetter(w, P)
  PROVE  UNCHANGED Search!vars
<1> DEFINE Keeps == /\ taken' = taken /\ cur' = cur
                    /\ \A v \in Worker : (pc[v] = "run" <=> pc'[v] = "run")
                                         /\ (pc[v] = "end" <=> pc'[v] = "end")
<1>1. SUFFICES Keeps  BY <1>1, SearchStutters
<1>2. pc \in [Worker -> Location]  BY DEF Inv, TypeOK
<1>3. CASE \/ EnterScheduler(w) \/ NextRound(w) \/ PutBusy(w) \/ IdleUp(w) \/ IdleResume(w)
           \/ EnterRoot(w) \/ Look(w)
      BY <1>2, <1>3 DEF EnterScheduler, NextRound, PutBusy, IdleUp, IdleResume, Resume,
         EnterRoot, Look, Goto, locals
<1>4. CASE GetWork(w)
      BY <1>2, <1>4 DEF GetWork, Scan, ToWork, ToWorkStops, PutNoWork, PutIdle, Goto, locals
<1>5. CASE Climb(w)
      BY <1>2, <1>5 DEF Climb, AboveUp, AboveResume, BetterUp, BetterResume, Resume, Goto, locals
<1>6. ASSUME NEW p \in Worker, GoAbove(w, p) \/ Ask(w, p) \/ Refuse(w, p) \/ Share(w, p)
      PROVE  Keeps
      BY <1>2, <1>6 DEF GoAbove, Ask, Refuse, Share, Asked, Goto, locals
<1>7. ASSUME NEW P \in SUBSET Worker, GoBetter(w, P) PROVE Keeps
      BY <1>2, <1>7 DEF GoBetter, Goto
<1> HIDE DEF Keeps
<1> QED BY <1>3, <1>4, <1>5, <1>6, <1>7

LEMMA SearchInit == Init => Search!Init
<1> SUFFICES ASSUME Init PROVE Search!Init
    OBVIOUS
<1>1. PICK first \in Worker : InitFor(first)  BY DEF Init
<1>2. /\ taken = {Query} /\ cur[first] = Query
      /\ \A w \in Worker : pc[w] = "run" <=> w = first
      /\ \A w \in Worker : pc[w] # "end"
      BY <1>1 DEF InitFor
<1>3. InFlight = {Query}  BY <1>2 DEF InFlight
<1>4. Ended = FALSE  BY <1>2 DEF Ended
<1> QED BY <1>2, <1>3, <1>4, SameTree, Zenon DEF Search!Init, InFlight, Ended

LEMMA SearchStep == Inv /\ [Next]_vars => [Search!Next]_(Search!vars)
<1> SUFFICES ASSUME Inv, [Next]_vars PROVE Search!Next \/ UNCHANGED Search!vars
    OBVIOUS
<1>1. CASE UNCHANGED vars  BY <1>1, SearchStutters DEF vars
<1>2. ASSUME NEW w \in Worker, Try(w) PROVE Search!Next
  <2>1. PICK x \in Alternative : x = cur[w]  BY DEF Inv, TypeOK
  <2>2. Search!Call(x)  BY <1>2, <2>1, TryCalls
  <2> QED BY <2>2, SameTree, Zenon DEF Search!Next
<1>3. ASSUME NEW w \in Worker, Fail(w) PROVE Search!Next
  <2>1. PICK x \in Alternative : x = cur[w]  BY DEF Inv, TypeOK
  <2>2. Search!End(x)  BY <1>3, <2>1, FailEnds
  <2> QED BY <2>2, SameTree, Zenon DEF Search!Next
<1>4. ASSUME NEW w \in Worker, Retry(w) PROVE Search!Next
      BY <1>4, RetryTakes, SameTree, Zenon DEF Search!Next
<1>5. ASSUME NEW w \in Worker, GetAlternative(w) PROVE Search!Next
      BY <1>5, GetAlternativeTakes, SameTree, Zenon DEF Search!Next
<1>6. ASSUME NEW w \in Worker, Finish(w) PROVE Search!Next
      BY <1>6, FinishExplored, Zenon DEF Search!Next
<1>7. CASE Over  BY <1>1, <1>7 DEF Over
<1> QED BY <1>1, <1>2, <1>3, <1>4, <1>5, <1>6, <1>7, OtherStutters, Zenon
        DEF Next, Engine, IdleLoop

-----------------------------------------------------------------------------
(***************************************************************************)
(* The theorems.                                                           *)
(***************************************************************************)

\* Every variable keeps its type. In particular the next alternative that a
\* choice point or an or-frame names is one of its later alternatives.
THEOREM TypeCorrect == Spec => []TypeOK
<1>1. Inv => TypeOK  BY DEF Inv
<1> QED BY <1>1, SchedulerInv, PTL

\* Whoever moves up, shares or frees or-frames in whatever order, the members
\* of an or-frame are the workers that have its node on the public part of
\* their stack: a frame is freed by its last member and by nobody else.
THEOREM MembersAreExact == Spec => []MembersExact
<1>1. Inv => MembersExact  BY DEF Inv
<1> QED BY <1>1, SchedulerInv, PTL

\* Although get_work writes nearest_livenode while it moves up and resets it
\* without a lock in PUT_NO_WORK_IN_UPPER_NODES, no worker is ever led past a
\* parallel node above it that has alternatives left.
THEOREM LiveNodesAreReachable == Spec => []LiveNodesReachable
<1>1. Inv => LiveNodesReachable  BY DEF Inv
<1> QED BY <1>1, SchedulerInv, PTL

\* The engine, or-frames, get_work and sharing together explore the search
\* tree of the query: an alternative is taken once, after the ones before it,
\* in a sequential predicate after all that is below the one before it; and
\* get_work's return from the root node finds the whole tree explored.
THEOREM SchedulerExploresTheTree == Spec => ExploresTheTree
<1> QED BY SearchInit, SearchStep, SchedulerInv, PTL DEF Spec, ExploresTheTree, Search!Spec
=============================================================================
