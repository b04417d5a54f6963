------------------------------ MODULE MCPrune ------------------------------
\* Prune on two small search trees.
EXTENDS Prune, TLC

CONSTANTS n0, n1, n2, n3

\* The second of three clauses has the cut. It calls a goal of two clauses, the
\* first of which fails, and may fail itself after the cut. Whoever runs the
\* second one cuts while the first one, and the first of the three, may still
\* be running.
Outer == n0 :> <<n1>> @@ n1 :> <<Leaf, n2, Leaf>> @@ n2 :> <<Leaf, Leaf>>
OuterUnder == {<<n1, n0>>, <<n2, n0>>, <<n2, n1>>}
OuterCut == {<<n1, 2>>}
FirstFails == {{<<n1, 1>>, <<n1, 3>>, <<n2, 2>>} \cup after : after \in SUBSET OuterCut}

\* The cut is in the first clause of an inner goal, so that there are shared
\* choice points above the ones it prunes; the second clause calls a goal too.
Inner == n0 :> <<n1>> @@ n1 :> <<n2, Leaf>> @@ n2 :> <<Leaf, n3>> @@ n3 :> <<Leaf, Leaf>>
InnerUnder == {<<n1, n0>>, <<n2, n0>>, <<n3, n0>>, <<n2, n1>>, <<n3, n1>>, <<n3, n2>>}
InnerCut == {<<n2, 1>>}
AllSucceed == {InnerCut \cup {x \in Alternative : Created(x) = Leaf}}

\* Executions are followed up to the first of the races.
NotAstray == ~ astray

Alike == Permutations(Worker)

\* The local variables of a worker count only while they are in scope, and its
\* branch in a frame while it is a member, or somebody has chosen it there (both
\* trees have one choice point at each depth, so Read is this entry).
InScope(value, locations, otherwise) ==
  [w \in Worker |-> IF pc[w] \in locations THEN value[w] ELSE otherwise]
Pruning == {"cut", "lock", "send", "up", "store", "look", "more", "send_more", "done"}

Live ==
  <<pc, cp_ap, top_cp, prune_request, frames, cut, idle, history,
    InScope(cur, {"run", "exit"} \cup Pruning, Query),
    InScope(answer, {"exit"} \cup Pruning, Query),
    InScope(back, {"carry", "put"} \cup Pruning, "fail"),
    InScope(node, {"work"}, Root),
    InScope(partner, {"request", "ask", "share", "forward"}, None),
    [w \in Worker |-> [n \in Node |->
       IF w \in members[n] \/ \E q \in Worker : pc[q] = "request" /\ partner[q] = w /\ top_cp[q] = n
       THEN branch[w][n] ELSE None]]>>
=============================================================================
