--------------------------- MODULE MCOrScheduler ----------------------------
\* OrScheduler on a small search tree: a parallel goal whose alternatives call
\* a sequential and a parallel one, with alternatives that just fail.
EXTENDS OrScheduler, TLC

CONSTANTS n0, n1, n2, n3, n4

MCTree ==
  n0 :> <<n1>> @@ n1 :> <<n2, n3>> @@
  n2 :> <<n4, Leaf>> @@ n3 :> <<Leaf, Leaf>> @@ n4 :> <<Leaf, Leaf>>

MCUnder ==
  {<<n1, n0>>, <<n2, n0>>, <<n3, n0>>, <<n4, n0>>,
   <<n2, n1>>, <<n3, n1>>, <<n4, n1>>, <<n4, n2>>}

Alike == Permutations(Worker)

\* The local variables of a worker count only while they are in scope.
InScope(value, locations, otherwise) ==
  [w \in Worker |-> IF pc[w] \in locations THEN value[w] ELSE otherwise]

Live ==
  <<pc, cp_ap, top_cp, frames, bitmaps, taken,
    InScope(cur, {"run"}, Query),
    InScope(node, {"scan", "to_work", "no_work"}, Root),
    InScope(target, {"ask", "above", "better"}, {})>>
=============================================================================
