-------------------------- MODULE WorkSplitProofs ---------------------------
(***************************************************************************)
(* Proofs about WorkSplit, for any set of teams, any chain of choice       *)
(* points and any number of splits: the arithmetic of strides, then that   *)
(* splitting partitions the alternatives that have not been taken.         *)
(***************************************************************************)
EXTENDS WorkSplit, TLAPS

(***************************************************************************)
(* Strides.                                                                *)
(***************************************************************************)

\* Where k steps of s lead from a.
After(a, k, s) == a + k * s

LEMMA AfterFacts ==
  ASSUME NEW a \in Nat, NEW k \in Nat, NEW s \in Nat \ {0}
  PROVE  /\ After(a, 0, s) = a
         /\ After(a, k, s) \in Nat /\ a <= After(a, k, s) /\ k <= After(a, k, s)
         /\ After(a, k + 1, s) = After(a + s, k, s)
<1>1. k * s \in Nat /\ k <= k * s /\ 0 * s = 0
  OBVIOUS
<1>2. (k + 1) * s = k * s + s
  OBVIOUS
<1>3. /\ After(a, 0, s) = a
      /\ After(a, k, s) \in Nat /\ a <= After(a, k, s) /\ k <= After(a, k, s)
  BY <1>1 DEF After
<1>4. After(a, k + 1, s) = After(a + s, k, s)
  BY <1>2 DEF After
<1> QED
  BY <1>3, <1>4

\* Even and odd numbers of steps are steps of twice the size.
LEMMA AfterDoubled ==
  ASSUME NEW a \in Nat, NEW k \in Nat, NEW s \in Nat \ {0}
  PROVE  /\ After(a, 2 * k, s) = After(a, k, 2 * s)
         /\ After(a, 2 * k + 1, s) = After(a + s, k, 2 * s)
<1>1. (2 * k) * s = k * (2 * s) /\ (2 * k + 1) * s = k * (2 * s) + s
  OBVIOUS
<1> QED
  BY <1>1 DEF After

\* They never lead to the same place.
LEMMA AfterApart ==
  ASSUME NEW a \in Nat, NEW k \in Nat, NEW m \in Nat, NEW s \in Nat \ {0}
  PROVE  After(a, k, 2 * s) # After(a + s, m, 2 * s)
<1> SUFFICES ASSUME a + k * (2 * s) = a + s + m * (2 * s) PROVE FALSE
  BY DEF After
<1> DEFINE d == 2 * (k - m) - 1
<1>1. d * s = 0
  OBVIOUS
<1>2. d \in Int /\ d # 0
  OBVIOUS
<1> HIDE DEF d
<1> QED
  BY <1>1, <1>2

\* The bound that Left puts on the number of steps leaves nothing out.
LEMMA LeftMember ==
  ASSUME NEW c \in Cp, NEW a \in 1 .. Alts[c], NEW s \in Nat \ {0}, NEW j
  PROVE  j \in Left(c, a, s) <=> j \in Nat /\ j <= Alts[c] /\ \E k \in Nat : j = After(a, k, s)
<1> Alts[c] \in Nat
  BY AltsAssumption DEF Limit
<1>1. j \in Left(c, a, s) <=> j \in a .. Alts[c] /\ \E k \in 0 .. Alts[c] : j = After(a, k, s)
  <2> a # 0
    OBVIOUS
  <2> QED
    BY Zenon DEF Left, After
<1>2. ASSUME NEW k \in Nat, j = After(a, k, s)
      PROVE j \in Nat /\ a <= j /\ k <= j
  BY <1>2, AfterFacts
<1>3. ASSUME NEW k \in Nat, j = After(a, k, s), j <= Alts[c]
      PROVE j \in a .. Alts[c] /\ k \in 0 .. Alts[c]
  BY <1>2, <1>3
<1>4. ASSUME j \in Left(c, a, s)
      PROVE j \in Nat /\ j <= Alts[c] /\ \E k \in Nat : j = After(a, k, s)
  <2>1. j \in a .. Alts[c] /\ \E k \in 0 .. Alts[c] : j = After(a, k, s)
    BY <1>1, <1>4
  <2>2. j \in Nat /\ j <= Alts[c]
    BY <2>1
  <2>3. \A k \in 0 .. Alts[c] : k \in Nat
    OBVIOUS
  <2>4. \E k \in Nat : j = After(a, k, s)
    BY <2>1, <2>3, Zenon
  <2> QED
    BY <2>2, <2>4
<1>5. ASSUME j \in Nat, j <= Alts[c], \E k \in Nat : j = After(a, k, s)
      PROVE j \in Left(c, a, s)
  <2> PICK k \in Nat : j = After(a, k, s)
    BY <1>5
  <2> j \in a .. Alts[c] /\ k \in 0 .. Alts[c]
    BY <1>3, <1>5
  <2> QED
    BY <1>1
<1> QED
  BY <1>4, <1>5

LEMMA LeftNothing == \A c, s : Left(c, 0, s) = {}
  BY DEF Left

\* The limit of 200 never cuts anything off: a step stops at the end only.
LEMMA StepTo ==
  ASSUME NEW c \in Cp, NEW a \in 1 .. Alts[c], NEW s \in Nat \ {0}
  PROVE  /\ Step(c, a, s) = IF a + s <= Alts[c] THEN a + s ELSE 0
         /\ Step(c, a, s) \in 0 .. Alts[c]
  BY AltsAssumption DEF Step, LTT, Limit

\* Taking an alternative leaves exactly the others.
LEMMA LeftAfterStep ==
  ASSUME NEW c \in Cp, NEW a \in 1 .. Alts[c], NEW s \in Nat \ {0}
  PROVE  /\ Left(c, a, s) = {a} \cup Left(c, Step(c, a, s), s)
         /\ a \notin Left(c, Step(c, a, s), s)
<1> Alts[c] \in Nat
  BY AltsAssumption DEF Limit
<1>0. a \in Left(c, a, s)
  <2> a = After(a, 0, s)
    BY AfterFacts
  <2> QED
    BY LeftMember
<1>1. CASE a + s <= Alts[c]
  <2> DEFINE n == a + s
  <2> n \in 1 .. Alts[c] /\ n > a /\ Step(c, a, s) = n
    BY <1>1, StepTo
  <2>1. ASSUME NEW j \in Left(c, a, s), j # a PROVE j \in Left(c, n, s)
    <3> PICK k \in Nat : j = After(a, k, s)
      BY LeftMember
    <3>1. k # 0
      BY <2>1, AfterFacts
    <3> DEFINE m == k - 1
    <3>2. m \in Nat /\ k = m + 1
      BY <3>1
    <3> HIDE DEF n, m
    <3>3. j = After(n, m, s)
      BY <3>2, AfterFacts DEF n
    <3> QED
      BY <3>2, <3>3, LeftMember
  <2>2. ASSUME NEW j \in Left(c, n, s) PROVE j \in Left(c, a, s) /\ j # a
    <3> HIDE DEF n
    <3> PICK k \in Nat : j = After(n, k, s)
      BY LeftMember
    <3>1. j = After(a, k + 1, s) /\ n <= j
      BY AfterFacts DEF n
    <3> QED
      BY <3>1, LeftMember
  <2> QED
    BY <1>0, <2>1, <2>2
<1>2. CASE ~(a + s <= Alts[c])
  <2> Left(c, Step(c, a, s), s) = {}
    BY <1>2, StepTo, LeftNothing
  <2>1. ASSUME NEW j \in Left(c, a, s) PROVE j = a
    <3> PICK k \in Nat : j = After(a, k, s)
      BY LeftMember
    <3>1. CASE k = 0
      BY <3>1, AfterFacts
    <3>2. CASE k # 0
      <4> DEFINE m == k - 1
      <4>1. m \in Nat /\ k = m + 1 /\ a + s \in Nat
        BY <3>2
      <4> HIDE DEF m
      <4>2. j = After(a + s, m, s)
        BY <4>1, AfterFacts
      <4>3. a + s <= j
        BY <4>1, <4>2, AfterFacts
      <4> j \in Nat /\ j <= Alts[c]
        BY LeftMember
      <4> QED
        BY <1>2, <4>1, <4>3
    <3> QED
      BY <3>1, <3>2
  <2> QED
    BY <1>0, <2>1
<1> QED
  BY <1>1, <1>2

\* With no second alternative, the stride does not matter.
LEMMA LastLeft ==
  ASSUME NEW c \in Cp, NEW a \in 1 .. Alts[c], NEW s \in Nat \ {0}, Step(c, a, s) = 0
  PROVE  Left(c, a, s) = {a} /\ Left(c, a, 2 * s) = {a}
<1> Alts[c] \in Nat
  BY AltsAssumption DEF Limit
<1> 2 * s \in Nat \ {0} /\ Step(c, a, 2 * s) = 0
  BY StepTo
<1> QED
  BY LeftAfterStep, LeftNothing

\* Doubling the stride divides what is left between the one that goes on at
\* a and the one that goes on at the next.
LEMMA LeftDivided ==
  ASSUME NEW c \in Cp, NEW a \in 1 .. Alts[c], NEW s \in Nat \ {0}
  PROVE  LET n == Step(c, a, s) IN
         /\ Left(c, a, s) = Left(c, a, 2 * s) \cup Left(c, n, 2 * s)
         /\ Left(c, a, 2 * s) \cap Left(c, n, 2 * s) = {}
<1> Alts[c] \in Nat
  BY AltsAssumption DEF Limit
<1> DEFINE n == Step(c, a, s)
<1> 2 * s \in Nat \ {0}
  OBVIOUS
<1>1. CASE n = 0
  BY <1>1, LastLeft, LeftNothing
<1>2. CASE n # 0
  <2> n = a + s /\ n \in 1 .. Alts[c]
    BY <1>2, StepTo
  <2> HIDE DEF n
  <2>1. ASSUME NEW j \in Left(c, a, s)
        PROVE j \in Left(c, a, 2 * s) \cup Left(c, n, 2 * s)
    <3> PICK k \in Nat : j = After(a, k, s)
      BY LeftMember
    <3>1. PICK m \in Nat : k = 2 * m \/ k = 2 * m + 1
      <4> k \div 2 \in Nat /\ (k = 2 * (k \div 2) \/ k = 2 * (k \div 2) + 1)
        OBVIOUS
      <4> QED
        OBVIOUS
    <3>2. j = After(a, m, 2 * s) \/ j = After(n, m, 2 * s)
      <4>1. /\ After(a, 2 * m, s) = After(a, m, 2 * s)
            /\ After(a, 2 * m + 1, s) = After(a + s, m, 2 * s)
        <5> a \in Nat
          OBVIOUS
        <5> QED
          BY AfterDoubled, Zenon
      <4> QED
        BY <3>1, <4>1 DEF n
    <3>3. j \in Nat /\ j <= Alts[c]
      BY LeftMember
    <3> QED
      BY <3>2, <3>3, LeftMember
  <2>2. ASSUME NEW j \in Left(c, a, 2 * s) PROVE j \in Left(c, a, s)
    <3> PICK m \in Nat : j = After(a, m, 2 * s)
      BY LeftMember
    <3> 2 * m \in Nat /\ j = After(a, 2 * m, s)
      BY AfterDoubled
    <3> QED
      BY LeftMember
  <2>3. ASSUME NEW j \in Left(c, n, 2 * s) PROVE j \in Left(c, a, s)
    <3> PICK m \in Nat : j = After(n, m, 2 * s)
      BY LeftMember
    <3> 2 * m + 1 \in Nat /\ j = After(a, 2 * m + 1, s)
      BY AfterDoubled DEF n
    <3> QED
      BY LeftMember
  <2>4. ASSUME NEW j \in Left(c, a, 2 * s), j \in Left(c, n, 2 * s) PROVE FALSE
    <3> PICK k \in Nat : j = After(a, k, 2 * s)
      BY LeftMember
    <3> PICK m \in Nat : j = After(n, m, 2 * s)
      BY <2>4, LeftMember
    <3> QED
      BY AfterApart DEF n
  <2> QED
    BY <2>1, <2>2, <2>3, <2>4 DEF n
<1> QED
  BY <1>1, <1>2

-----------------------------------------------------------------------------
(***************************************************************************)
(* The inductive invariant.                                                *)
(***************************************************************************)

Copy == [to : Team \cup {Nobody}, at : Nat, worker : BOOLEAN,
         ap : [Cp -> Nat], so : [Cp -> Nat]]

\* The variables are functions and records of the right shape.
WellFormed ==
  /\ ap \in [Team -> [Cp -> Nat]]
  /\ so \in [Team -> [Cp -> Nat]]
  /\ public \in [Team -> Nat]
  /\ taken \in [Cp -> SUBSET Nat]
  /\ walk \in [Team -> Copy]

\* A team that waits for a copy has no work, splits nothing off, and waits for
\* one copy only.  A copy agrees with the team it comes from on the private
\* choice points that have not been split.
WalkInv ==
  \A p \in Team :
    /\ walk[p].to = Nobody => walk[p].at = 0
    /\ walk[p].to # Nobody =>
         LET q == walk[p].to IN
         /\ q # p /\ walk[q].to = Nobody
         /\ \A c \in Cp : ap[q][c] = 0
         /\ \A u \in Team : walk[u].to = q => u = p
         /\ \A c \in Cp : c > public[p] /\ c <= walk[p].at =>
              walk[p].ap[c] = ap[p][c] /\ walk[p].so[c] = so[p][c]

\* Who can hold alternatives: the teams, and the copies on their way.
Holder == Team \X {"team", "copy"}

\* The alternatives of c that each holder has.
Held(c) ==
  [h \in Holder |->
     LET t == h[1] IN
     IF h[2] = "team" THEN Left(c, ap[t][c], so[t][c])
     ELSE IF walk[t].to # Nobody /\ walk[t].at < c
          THEN Left(c, walk[t].ap[c], walk[t].so[c]) ELSE {}]

\* done and the sets that the holders hold partition all.
Partition(all, done, held) ==
  /\ \A j \in all : j \in done \/ \E h \in Holder : j \in held[h]
  /\ \A h \in Holder : held[h] \cap done = {}
  /\ \A g, h \in Holder : g # h => held[g] \cap held[h] = {}

PartitionInv == \A c \in Cp : Partition(1 .. Alts[c], taken[c], Held(c))

IInv == TypeOK /\ WellFormed /\ WalkInv /\ PartitionInv

-----------------------------------------------------------------------------
(***************************************************************************)
(* What splitting a choice point does.                                     *)
(***************************************************************************)

\* Two parts of what p has left of the choice point, by first alternative and
\* stride.
Divides(p, c, mine, myStride, its, itsStride) ==
  /\ mine \in 0 .. Alts[c] /\ its \in 0 .. Alts[c]
  /\ myStride \in Nat \ {0} /\ itsStride \in Nat \ {0}
  /\ Left(c, ap[p][c], so[p][c]) = Left(c, mine, myStride) \cup Left(c, its, itsStride)
  /\ Left(c, mine, myStride) \cap Left(c, its, itsStride) = {}

Split(p) == SplitNothing(p) \/ SplitPublic(p) \/ SplitPrivate(p)

LEMMA StepDivides ==
  ASSUME TypeOK, NEW p \in Team, NEW c \in Cp, ap[p][c] # 0
  PROVE  LET now == ap[p][c]  next == Step(c, now, so[p][c]) IN
         /\ Divides(p, c, now, 2 * so[p][c], next, 2 * so[p][c])
         /\ Divides(p, c, next, 2 * so[p][c], now, 2 * so[p][c])
         /\ next = 0 =>
              /\ Divides(p, c, now, so[p][c], 0, so[p][c])
              /\ Divides(p, c, 0, so[p][c], now, so[p][c])
<1> DEFINE now == ap[p][c]  s == so[p][c]  next == Step(c, now, s)
<1>1. now \in 1 .. Alts[c] /\ now \in 0 .. Alts[c] /\ s \in Nat \ {0}
      /\ 2 * s \in Nat \ {0} /\ 0 \in 0 .. Alts[c] /\ Alts[c] \in Nat
  BY AltsAssumption DEF TypeOK, Limit
<1>2. next \in 0 .. Alts[c]
  BY <1>1, StepTo
<1> HIDE DEF now, s, next
<1>3. /\ Left(c, now, s) = Left(c, now, 2 * s) \cup Left(c, next, 2 * s)
      /\ Left(c, now, 2 * s) \cap Left(c, next, 2 * s) = {}
  BY <1>1, LeftDivided DEF next
<1>4. Left(c, 0, s) = {}
  BY LeftNothing
<1> QED
  BY <1>1, <1>2, <1>3, <1>4 DEF Divides, now, s, next

LEMMA SplitIsDivision ==
  ASSUME TypeOK, WellFormed, WalkInv, NEW p \in Team, Split(p)
  PROVE  /\ walk[p].to # Nobody
         /\ walk[p].at \in Cp
         /\ \E mine, its, myStride, itsStride \in Nat, w \in BOOLEAN :
              /\ SplitInto(p, mine, its, myStride, itsStride, w)
              /\ Divides(p, walk[p].at, mine, myStride, its, itsStride)
<1> DEFINE c == walk[p].at  now == ap[p][c]  s == so[p][c]  next == Step(c, now, s)
<1>1. c \in Nat /\ c <= Depth /\ Depth \in Nat /\ public[p] \in Nat /\ walk[p].worker \in BOOLEAN
  BY BoundAssumption DEF TypeOK
<1>2. c # 0
  <2>1. SplitNothing(p) => c # 0
    BY DEF SplitNothing
  <2>2. SplitPublic(p) => c # 0
    BY DEF SplitPublic
  <2>3. SplitPrivate(p) => c > public[p]
    BY DEF SplitPrivate
  <2> QED
    BY <1>1, <2>1, <2>2, <2>3 DEF Split
<1>3. c \in Cp
  BY <1>1, <1>2 DEF Cp
<1>4. walk[p].to # Nobody
  BY <1>2 DEF WalkInv
<1>5. Alts[c] \in Nat /\ \A i \in 0 .. Alts[c] : i \in Nat
  BY <1>3, AltsAssumption DEF Limit
<1>6. CASE SplitNothing(p)
  <2>1. now = 0 /\ s \in Nat \ {0} /\ walk[p].so[c] \in Nat \ {0} /\ 0 \in 0 .. Alts[c]
    BY <1>3, <1>5, <1>6 DEF SplitNothing, TypeOK
  <2>2. Divides(p, c, 0, s, 0, walk[p].so[c])
    BY <2>1, LeftNothing DEF Divides
  <2>3. SplitInto(p, 0, 0, s, walk[p].so[c], walk[p].worker)
    BY <1>6 DEF SplitNothing
  <2> DEFINE r == walk[p].so[c]
             w == walk[p].worker
  <2>4. /\ s \in Nat /\ r \in Nat /\ w \in BOOLEAN /\ 0 \in Nat
        /\ SplitInto(p, 0, 0, s, r, w) /\ Divides(p, c, 0, s, 0, r)
    BY <1>1, <2>1, <2>2, <2>3
  <2> HIDE DEF s, r, w
  <2> QED
    BY <1>3, <1>4, <2>4
<1>7. CASE SplitPublic(p)
  <2>1. now # 0
    BY <1>7 DEF SplitPublic
  <2>2. /\ Divides(p, c, now, 2 * s, next, 2 * s)
        /\ Divides(p, c, next, 2 * s, now, 2 * s)
    BY <1>3, <2>1, StepDivides
  <2>3. 2 * s \in Nat /\ now \in Nat /\ next \in Nat
    BY <1>5, <2>2 DEF Divides
  <2>4. \/ SplitInto(p, next, now, 2 * s, 2 * s, FALSE)
        \/ SplitInto(p, now, next, 2 * s, 2 * s, TRUE)
    BY <1>7 DEF SplitPublic
  <2> HIDE DEF now, s, next
  <2> QED
    BY <1>3, <1>4, <2>2, <2>3, <2>4
<1>8. CASE SplitPrivate(p)
  <2>1. c > public[p] /\ walk[p].ap[c] # 0
    BY <1>8 DEF SplitPrivate
  <2>2. walk[p].ap[c] = now /\ walk[p].so[c] = s
    BY <1>1, <1>3, <1>4, <2>1 DEF WalkInv
  <2> DEFINE r == IF next # 0 THEN 2 * s ELSE s
  <2>3. now # 0
    BY <2>1, <2>2
  <2>4. /\ Divides(p, c, now, r, next, r)
        /\ Divides(p, c, next, r, now, r)
    BY <1>3, <2>3, StepDivides
  <2>5. r \in Nat /\ now \in Nat /\ next \in Nat
    BY <1>5, <2>4 DEF Divides
  <2>6. \/ SplitInto(p, next, now, r, r, FALSE)
        \/ SplitInto(p, now, next, r, r, TRUE)
    BY <1>8, <2>2 DEF SplitPrivate
  <2> HIDE DEF now, s, next, r
  <2> QED
    BY <1>3, <1>4, <2>4, <2>5, <2>6
<1> QED
  BY <1>6, <1>7, <1>8 DEF Split

-----------------------------------------------------------------------------
(***************************************************************************)
(* Types.                                                                  *)
(***************************************************************************)
LEMMA TypeInit == Init => TypeOK /\ WellFormed
<1> SUFFICES ASSUME Init PROVE TypeOK /\ WellFormed
  OBVIOUS
<1> USE TeamAssumption, BoundAssumption, AltsAssumption
<1>1. \A c \in Cp : Alts[c] \in Nat /\ Alts[c] >= 1
  BY DEF Limit
<1>2. TypeOK
  <2>1. \A t \in Team : \A c \in Cp : ap[t][c] \in 0 .. Alts[c]
    BY <1>1 DEF Init
  <2>2. \A t \in Team : so[t] \in [Cp -> Nat \ {0}] /\ public[t] \in 0 .. Depth
    <3> 1 \in Nat \ {0} /\ 0 \in 0 .. Depth
      OBVIOUS
    <3> QED
      BY DEF Init
  <2>3. \A c \in Cp : taken[c] \subseteq 1 .. Alts[c]
    BY <1>1 DEF Init
  <2>4. \A t \in Team : walk[t] = NoWalk
    BY DEF Init
  <2>5. /\ NoWalk.to = Nobody /\ NoWalk.at \in 0 .. Depth
        /\ NoWalk.worker \in BOOLEAN /\ NoWalk.so \in [Cp -> Nat \ {0}]
        /\ \A c \in Cp : NoWalk.ap[c] \in 0 .. Alts[c]
    BY <1>1 DEF NoWalk
  <2>6. splits \in 0 .. Splits
    BY DEF Init
  <2> QED
    BY <2>1, <2>2, <2>3, <2>4, <2>5, <2>6 DEF TypeOK
<1>3. WellFormed
  BY <1>1 DEF Init, WellFormed, Copy, NoWalk
<1> QED
  BY <1>2, <1>3

LEMMA TypeStep ==
  ASSUME TypeOK, WellFormed, WalkInv, [Next]_vars
  PROVE  TypeOK' /\ WellFormed'
<1> USE TeamAssumption, BoundAssumption, AltsAssumption
<1>0. \A c \in Cp : Alts[c] \in Nat /\ 0 \in 0 .. Alts[c]
  BY DEF Limit
<1>1. ASSUME NEW t \in Team, NEW c \in Cp, Take(t, c)
      PROVE TypeOK' /\ WellFormed'
  <2>1. ap[t][c] \in 1 .. Alts[c] /\ so[t][c] \in Nat \ {0}
    BY <1>0, <1>1 DEF Take, TypeOK
  <2>2. Step(c, ap[t][c], so[t][c]) \in 0 .. Alts[c]
    BY <2>1, StepTo
  <2>3. Step(c, ap[t][c], so[t][c]) \in Nat /\ ap[t][c] \in Nat
    BY <1>0, <2>1, <2>2
  <2>4. TypeOK'
    BY <1>0, <1>1, <2>1, <2>2 DEF Take, TypeOK, WellFormed, Copy
  <2>5. WellFormed'
    BY <1>1, <2>3 DEF Take, WellFormed
  <2> QED
    BY <2>4, <2>5
<1>2. ASSUME NEW t \in Team, Publish(t) PROVE TypeOK' /\ WellFormed'
  BY <1>2 DEF Publish, TypeOK, WellFormed, Copy
<1>3. ASSUME NEW p \in Team, NEW q \in Team, StartWalk(p, q)
      PROVE TypeOK' /\ WellFormed'
  <2>1. TypeOK'
    <3>1. /\ \A t \in Team : t # p => walk'[t] = walk[t]
          /\ walk'[p].to = q /\ walk'[p].at = Depth /\ walk'[p].worker = TRUE
          /\ walk'[p].ap = ap[p] /\ walk'[p].so = so[p]
      BY <1>3 DEF StartWalk, WellFormed, Copy
    <3>2. splits' \in 0 .. Splits
      BY <1>3 DEF StartWalk, TypeOK
    <3>3. Depth \in 0 .. Depth
      OBVIOUS
    <3>4. ap' = ap /\ so' = so /\ public' = public /\ taken' = taken
      BY <1>3 DEF StartWalk
    <3> QED
      BY <3>1, <3>2, <3>3, <3>4, ZenonT(60) DEF TypeOK
  <2>2. WellFormed'
    BY <1>3 DEF StartWalk, WellFormed, Copy
  <2> QED
    BY <2>1, <2>2
<1>4. ASSUME NEW p \in Team, Split(p) PROVE TypeOK' /\ WellFormed'
  <2> DEFINE c == walk[p].at
  <2>1. c \in Cp
    BY <1>4, SplitIsDivision
  <2>2. PICK mine, its, myStride, itsStride \in Nat, w \in BOOLEAN :
          /\ SplitInto(p, mine, its, myStride, itsStride, w)
          /\ Divides(p, c, mine, myStride, its, itsStride)
    BY <1>4, SplitIsDivision
  <2>3. /\ mine \in 0 .. Alts[c] /\ its \in 0 .. Alts[c]
        /\ myStride \in Nat \ {0} /\ itsStride \in Nat \ {0}
    BY <2>2 DEF Divides
  <2>4. c \in Nat /\ c - 1 \in 0 .. Depth /\ c - 1 \in Nat
    BY <2>1 DEF Cp
  <2>5. WellFormed'
    <3>1. ap' \in [Team -> [Cp -> Nat]] /\ so' \in [Team -> [Cp -> Nat]]
      BY <2>1, <2>2 DEF SplitInto, WellFormed
    <3>2. walk[p] \in Copy
      BY DEF WellFormed, Copy
    <3>3. [walk[p] EXCEPT !.at = c - 1, !.worker = w, !.ap[c] = its, !.so[c] = itsStride]
            \in Copy
      BY <2>1, <2>4, <3>2 DEF Copy
    <3>4. walk' \in [Team -> Copy]
      BY <2>2, <3>3 DEF SplitInto, WellFormed
    <3> QED
      BY <2>2, <3>1, <3>4 DEF SplitInto, WellFormed
  <2>6. TypeOK'
    <3>1. \A t \in Team : \A d \in Cp : ap'[t][d] \in 0 .. Alts[d]
      BY <2>1, <2>2, <2>3 DEF SplitInto, TypeOK, WellFormed, Copy
    <3>2. \A t \in Team : so'[t] \in [Cp -> Nat \ {0}]
      BY <2>1, <2>2, <2>3 DEF SplitInto, TypeOK, WellFormed, Copy
    <3>3. \A t \in Team : walk'[t].so \in [Cp -> Nat \ {0}]
      BY <2>1, <2>2, <2>3 DEF SplitInto, TypeOK, WellFormed, Copy
    <3>4. \A t \in Team : \A d \in Cp : walk'[t].ap[d] \in 0 .. Alts[d]
      BY <2>1, <2>2, <2>3 DEF SplitInto, TypeOK, WellFormed, Copy
    <3>5. \A t \in Team : walk'[t].at \in 0 .. Depth
      BY <2>2, <2>4 DEF SplitInto, TypeOK, WellFormed, Copy
    <3>6. \A t \in Team : walk'[t].to \in Team \cup {Nobody} /\ walk'[t].worker \in BOOLEAN
      BY <2>2 DEF SplitInto, TypeOK, WellFormed, Copy
    <3> QED
      BY <2>2, <3>1, <3>2, <3>3, <3>4, <3>5, <3>6 DEF SplitInto, TypeOK
  <2> QED
    BY <2>5, <2>6
<1>5. ASSUME NEW p \in Team, Install(p) PROVE TypeOK' /\ WellFormed'
  <2>1. walk[p].to \in Team
    BY <1>5 DEF Install, TypeOK
  <2> DEFINE q == walk[p].to
  <2>2. TypeOK'
    <3>1. /\ \A t \in Team : t # p => walk'[t] = walk[t]
          /\ walk'[p] = NoWalk
          /\ \A t \in Team : t # q => ap'[t] = ap[t] /\ so'[t] = so[t] /\ public'[t] = public[t]
          /\ ap'[q] = walk[p].ap /\ so'[q] = walk[p].so /\ public'[q] = 0
          /\ taken' = taken /\ splits' = splits
      BY <1>5, <2>1 DEF Install, WellFormed, Copy
    <3>2. /\ NoWalk.to = Nobody /\ NoWalk.at \in 0 .. Depth
          /\ NoWalk.worker \in BOOLEAN /\ NoWalk.so \in [Cp -> Nat \ {0}]
          /\ \A c \in Cp : NoWalk.ap[c] \in 0 .. Alts[c]
      BY <1>0 DEF NoWalk
    <3>3. 0 \in 0 .. Depth
      OBVIOUS
    <3> HIDE DEF q
    <3> QED
      BY <3>1, <3>2, <3>3 DEF TypeOK
  <2>3. WellFormed'
    BY <1>5, <2>1 DEF Install, WellFormed, Copy, NoWalk
  <2> QED
    BY <2>2, <2>3
<1>6. CASE UNCHANGED vars
  BY <1>6 DEF vars, TypeOK, WellFormed, Copy
<1> QED
  BY <1>1, <1>2, <1>3, <1>4, <1>5, <1>6 DEF Next, Split

-----------------------------------------------------------------------------
(***************************************************************************)
(* Walks.                                                                  *)
(***************************************************************************)
LEMMA WalkStep ==
  ASSUME TypeOK, WellFormed, WalkInv, [Next]_vars
  PROVE  WalkInv'
<1> USE TeamAssumption, BoundAssumption
<1>0. /\ \A c \in Cp : c \in Nat
      /\ \A t \in Team : public[t] \in Nat /\ walk[t].to \in Team \cup {Nobody}
  BY DEF WellFormed, Copy, Cp
<1>1. ASSUME NEW t \in Team, NEW c \in Cp, Take(t, c) PROVE WalkInv'
  <2>1. \A u \in Team : walk[u].to # t
    BY <1>1 DEF Take, WalkInv
  <2>2. c <= public[t] \/ walk[t].to = Nobody
    BY <1>1 DEF Take, Open
  <2> SUFFICES ASSUME NEW p \in Team, walk[p].to # Nobody
               PROVE  /\ \A d \in Cp : ap'[walk[p].to][d] = 0
                      /\ \A d \in Cp : d > public[p] /\ d <= walk[p].at =>
                           walk[p].ap[d] = ap'[p][d]
    BY <1>1 DEF Take, WalkInv
  <2>3. walk[p].to \in Team /\ walk[p].to # t
    BY <1>0, <2>1
  <2>4. \A d \in Cp : ap'[walk[p].to][d] = 0
    BY <1>1, <2>3 DEF Take, WalkInv, WellFormed, Copy
  <2>5. ASSUME NEW d \in Cp, d > public[p], d <= walk[p].at
        PROVE walk[p].ap[d] = ap'[p][d]
    <3>1. p # t \/ d # c
      BY <1>0, <2>2, <2>5
    <3>2. ap'[p][d] = ap[p][d]
      BY <1>1, <3>1 DEF Take, WellFormed
    <3> QED
      BY <2>5, <3>2 DEF WalkInv
  <2> QED
    BY <2>4, <2>5
<1>2. ASSUME NEW t \in Team, Publish(t) PROVE WalkInv'
  BY <1>2 DEF Publish, WalkInv
<1>3. ASSUME NEW p \in Team, NEW q \in Team, StartWalk(p, q) PROVE WalkInv'
  <2>1. /\ walk' = [walk EXCEPT ![p] = [to |-> q, at |-> Depth, worker |-> TRUE,
                                         ap |-> ap[p], so |-> so[p]]]
        /\ ap' = ap /\ so' = so /\ public' = public
        /\ walk[p].to = Nobody /\ q # p /\ q # Nobody
    BY <1>3 DEF StartWalk
  <2>2. /\ \A c \in Cp : ap[q][c] = 0
        /\ walk[q].to = Nobody
        /\ \A u \in Team : walk[u].to # q
        /\ \E c \in Cp : ap[p][c] # 0
    BY <1>3 DEF StartWalk, Idle
  <2>3. \A u \in Team : walk[u].to # p
    BY <2>2 DEF WalkInv
  <2> QED
    BY <2>1, <2>2, <2>3 DEF WalkInv, WellFormed, Copy
<1>4. ASSUME NEW p \in Team, Split(p) PROVE WalkInv'
  <2> DEFINE c == walk[p].at
  <2>1. walk[p].to # Nobody /\ c \in Cp
    BY <1>4, SplitIsDivision
  <2>2. PICK mine, its, myStride, itsStride \in Nat, w \in BOOLEAN :
          SplitInto(p, mine, its, myStride, itsStride, w)
    BY <1>4, SplitIsDivision
  <2>3. /\ \A t \in Team : walk'[t].to = walk[t].to
        /\ \A t \in Team : t # p => walk'[t] = walk[t] /\ ap'[t] = ap[t] /\ so'[t] = so[t]
        /\ walk'[p].at = c - 1
        /\ public' = public
        /\ \A d \in Cp : d # c => /\ walk'[p].ap[d] = walk[p].ap[d]
                                  /\ walk'[p].so[d] = walk[p].so[d]
                                  /\ ap'[p][d] = ap[p][d]
                                  /\ so'[p][d] = so[p][d]
    BY <2>1, <2>2 DEF SplitInto, WellFormed, Copy
  <2>4. \A u \in Team : walk[u].to # p
    BY <2>1 DEF WalkInv
  <2>5. c \in Nat /\ \A d \in Cp : d \in Nat /\ (d <= c - 1 => d <= c /\ d # c)
    BY <1>0, <2>1
  <2> HIDE DEF c
  <2>6. ASSUME NEW t \in Team, walk'[t].to # Nobody
        PROVE  LET q == walk'[t].to IN
               /\ q # t /\ walk'[q].to = Nobody
               /\ \A d \in Cp : ap'[q][d] = 0
               /\ \A u \in Team : walk'[u].to = q => u = t
    <3>1. walk[t].to \in Team /\ walk[t].to # p
      BY <1>0, <2>3, <2>4, <2>6
    <3> QED
      BY <2>3, <2>6, <3>1 DEF WalkInv
  <2>7. ASSUME NEW t \in Team, walk'[t].to # Nobody, NEW d \in Cp,
               d > public'[t], d <= walk'[t].at
        PROVE  walk'[t].ap[d] = ap'[t][d] /\ walk'[t].so[d] = so'[t][d]
    <3>1. CASE t = p
      <4>1. d <= c /\ d # c
        BY <2>3, <2>5, <2>7, <3>1
      <4> QED
        BY <2>1, <2>3, <2>7, <3>1, <4>1 DEF WalkInv, c
    <3>2. CASE t # p
      BY <2>3, <2>7, <3>2 DEF WalkInv
    <3> QED
      BY <3>1, <3>2
  <2>8. ASSUME NEW t \in Team, walk'[t].to = Nobody PROVE walk'[t].at = 0
    <3>1. t # p /\ walk[t].to = Nobody
      BY <2>1, <2>3, <2>8
    <3> QED
      BY <2>3, <3>1 DEF WalkInv
  <2> QED
    BY <2>6, <2>7, <2>8 DEF WalkInv
<1>5. ASSUME NEW p \in Team, Install(p) PROVE WalkInv'
  <2> DEFINE q == walk[p].to
  <2>1. q \in Team /\ q # p /\ q # Nobody /\ \A u \in Team : walk[u].to = q => u = p
    BY <1>0, <1>5 DEF Install, WalkInv
  <2>2. walk[q].to = Nobody
    BY <2>1 DEF WalkInv
  <2>3. /\ walk'[p].to = Nobody /\ walk'[p].at = 0
        /\ \A t \in Team : t # p => walk'[t] = walk[t]
        /\ \A t \in Team : t # q => ap'[t] = ap[t] /\ so'[t] = so[t] /\ public'[t] = public[t]
    BY <1>5 DEF Install, NoWalk, WellFormed, Copy
  <2> HIDE DEF q
  <2>4. \A u \in Team : walk[u].to # p
    BY <2>1, <2>2 DEF WalkInv, q
  <2>5. ASSUME NEW t \in Team, t # p, walk[t].to # Nobody
        PROVE t # q /\ walk[t].to \in Team /\ walk[t].to # q /\ walk[t].to # p
    BY <1>0, <2>1, <2>2, <2>4, <2>5
  <2> SUFFICES ASSUME NEW t \in Team
               PROVE  WalkInv!(t)'
    BY DEF WalkInv
  <2>6. CASE t = p
    BY <2>3, <2>6
  <2>7. CASE t # p /\ walk[t].to = Nobody
    BY <2>3, <2>7 DEF WalkInv
  <2>8. CASE t # p /\ walk[t].to # Nobody
    <3> DEFINE r == walk[t].to
    <3>1. t # q /\ r \in Team /\ r # q /\ r # p /\ walk'[t] = walk[t]
      BY <2>3, <2>5, <2>8
    <3>2. /\ r # t /\ walk'[r].to = Nobody
          /\ \A c \in Cp : ap'[r][c] = 0
      BY <2>3, <2>8, <3>1 DEF WalkInv
    <3>3. ASSUME NEW u \in Team, walk'[u].to = r PROVE u = t
      <4>1. u # p
        BY <2>3, <2>8, <3>3
      <4> QED
        BY <2>3, <2>8, <3>3, <4>1 DEF WalkInv
    <3>4. ASSUME NEW c \in Cp, c > public'[t], c <= walk'[t].at
          PROVE walk'[t].ap[c] = ap'[t][c] /\ walk'[t].so[c] = so'[t][c]
      BY <2>3, <2>8, <3>1, <3>4 DEF WalkInv
    <3> QED
      BY <2>8, <3>1, <3>2, <3>3, <3>4
  <2> QED
    BY <2>6, <2>7, <2>8
<1>6. CASE UNCHANGED vars
  BY <1>6 DEF vars, WalkInv
<1> QED
  BY <1>1, <1>2, <1>3, <1>4, <1>5, <1>6 DEF Next, Split

-----------------------------------------------------------------------------
(***************************************************************************)
(* Partitions: taking one alternative, dividing a share, handing one over. *)
(***************************************************************************)
LEMMA PartitionTake ==
  ASSUME NEW all, NEW done, NEW held, NEW after, NEW h \in Holder, NEW j,
         Partition(all, done, held),
         held[h] = {j} \cup after[h], j \notin after[h],
         \A g \in Holder : g # h => after[g] = held[g]
  PROVE  Partition(all, done \cup {j}, after)
<1>1. \A i \in all : i \in done \cup {j} \/ \E g \in Holder : i \in after[g]
  BY DEF Partition
<1>2. \A g \in Holder : after[g] \cap (done \cup {j}) = {}
  BY DEF Partition
<1>3. \A g, k \in Holder : g # k => after[g] \cap after[k] = {}
  BY DEF Partition
<1> QED
  BY <1>1, <1>2, <1>3 DEF Partition

LEMMA PartitionDivide ==
  ASSUME NEW all, NEW done, NEW held, NEW after,
         NEW g \in Holder, NEW h \in Holder, g # h,
         Partition(all, done, held),
         held[h] = {}, held[g] = after[g] \cup after[h], after[g] \cap after[h] = {},
         \A k \in Holder : k \notin {g, h} => after[k] = held[k]
  PROVE  Partition(all, done, after)
<1>1. \A i \in all : i \in done \/ \E k \in Holder : i \in after[k]
  BY DEF Partition
<1>2. \A k \in Holder : after[k] \cap done = {}
  BY DEF Partition
<1>3. ASSUME NEW k \in Holder, NEW l \in Holder, k # l PROVE after[k] \cap after[l] = {}
  <2>1. after[g] \subseteq held[g] /\ after[h] \subseteq held[g]
    OBVIOUS
  <2>2. CASE k \in {g, h} /\ l \in {g, h}
    BY <1>3, <2>2
  <2>3. CASE k \in {g, h} /\ l \notin {g, h}
    BY <2>1, <2>3 DEF Partition
  <2>4. CASE k \notin {g, h} /\ l \in {g, h}
    BY <2>1, <2>4 DEF Partition
  <2>5. CASE k \notin {g, h} /\ l \notin {g, h}
    BY <1>3, <2>5 DEF Partition
  <2> QED
    BY <2>2, <2>3, <2>4, <2>5
<1> QED
  BY <1>1, <1>2, <1>3 DEF Partition

LEMMA PartitionSame ==
  ASSUME NEW all, NEW done, NEW held, NEW after,
         Partition(all, done, held), \A h \in Holder : after[h] = held[h]
  PROVE  Partition(all, done, after)
  BY DEF Partition

\* What a team and a copy hold.
LEMMA HeldBy ==
  ASSUME NEW c \in Cp, NEW t \in Team
  PROVE  /\ <<t, "team">> \in Holder /\ <<t, "copy">> \in Holder
         /\ Held(c)[<<t, "team">>] = Left(c, ap[t][c], so[t][c])
         /\ walk[t].to # Nobody /\ walk[t].at < c =>
              Held(c)[<<t, "copy">>] = Left(c, walk[t].ap[c], walk[t].so[c])
         /\ ~(walk[t].to # Nobody /\ walk[t].at < c) => Held(c)[<<t, "copy">>] = {}
  BY DEF Held, Holder

LEMMA HolderIs ==
  ASSUME NEW h \in Holder
  PROVE  \E t \in Team : h = <<t, "team">> \/ h = <<t, "copy">>
  BY DEF Holder

LEMMA HeldByNext ==
  ASSUME NEW c \in Cp, NEW t \in Team
  PROVE  /\ Held(c)'[<<t, "team">>] = Left(c, ap'[t][c], so'[t][c])
         /\ walk'[t].to # Nobody /\ walk'[t].at < c =>
              Held(c)'[<<t, "copy">>] = Left(c, walk'[t].ap[c], walk'[t].so[c])
         /\ ~(walk'[t].to # Nobody /\ walk'[t].at < c) => Held(c)'[<<t, "copy">>] = {}
  BY DEF Held, Holder

\* Nothing changes for a holder whose team and copy stay as they are.
LEMMA HeldSame ==
  ASSUME NEW c \in Cp, NEW t \in Team
  PROVE  /\ ap'[t][c] = ap[t][c] /\ so'[t][c] = so[t][c] =>
              Held(c)'[<<t, "team">>] = Held(c)[<<t, "team">>]
         /\ /\ walk'[t].to = walk[t].to /\ (walk'[t].at < c <=> walk[t].at < c)
            /\ walk'[t].ap[c] = walk[t].ap[c] /\ walk'[t].so[c] = walk[t].so[c]
            => Held(c)'[<<t, "copy">>] = Held(c)[<<t, "copy">>]
<1>1. ap'[t][c] = ap[t][c] /\ so'[t][c] = so[t][c] =>
        Held(c)'[<<t, "team">>] = Held(c)[<<t, "team">>]
  <2>1. Held(c)[<<t, "team">>] = Left(c, ap[t][c], so[t][c])
    BY HeldBy
  <2>2. Held(c)'[<<t, "team">>] = Left(c, ap'[t][c], so'[t][c])
    BY HeldByNext
  <2> QED
    BY <2>1, <2>2
<1>2. ASSUME walk'[t].to = walk[t].to, walk'[t].at < c <=> walk[t].at < c,
             walk'[t].ap[c] = walk[t].ap[c], walk'[t].so[c] = walk[t].so[c]
      PROVE  Held(c)'[<<t, "copy">>] = Held(c)[<<t, "copy">>]
  <2>1. CASE walk[t].to # Nobody /\ walk[t].at < c
    <3>1. Held(c)[<<t, "copy">>] = Left(c, walk[t].ap[c], walk[t].so[c])
      BY <2>1, HeldBy
    <3>2. Held(c)'[<<t, "copy">>] = Left(c, walk'[t].ap[c], walk'[t].so[c])
      BY <1>2, <2>1, HeldByNext
    <3> QED
      BY <1>2, <3>1, <3>2
  <2>2. CASE ~(walk[t].to # Nobody /\ walk[t].at < c)
    <3>1. Held(c)[<<t, "copy">>] = {}
      BY <2>2, HeldBy
    <3>2. Held(c)'[<<t, "copy">>] = {}
      BY <1>2, <2>2, HeldByNext
    <3> QED
      BY <3>1, <3>2
  <2> QED
    BY <2>1, <2>2
<1> QED
  BY <1>1, <1>2

LEMMA PartitionStep ==
  ASSUME TypeOK, WellFormed, WalkInv, PartitionInv, [Next]_vars
  PROVE  PartitionInv'
<1> SUFFICES ASSUME NEW c \in Cp
             PROVE  Partition(1 .. Alts[c], taken'[c], Held(c)')
  BY DEF PartitionInv, Partition
<1>0. Partition(1 .. Alts[c], taken[c], Held(c)) /\ c \in Nat /\ c > 0 /\ c <= Depth
      /\ Depth \in Nat /\ \A t \in Team : walk[t].at \in Nat
  BY BoundAssumption DEF PartitionInv, Cp, WellFormed, Copy
<1>1. ASSUME NEW t \in Team, NEW d \in Cp, Take(t, d)
      PROVE Partition(1 .. Alts[c], taken'[c], Held(c)')
  <2>1. /\ so' = so /\ walk' = walk /\ \A u \in Team : u # t => ap'[u] = ap[u]
        /\ \A e \in Cp : e # d => ap'[t][e] = ap[t][e] /\ taken'[e] = taken[e]
    BY <1>1 DEF Take, WellFormed
  <2>2. CASE c # d
    <3>1. \A h \in Holder : Held(c)'[h] = Held(c)[h]
      BY <2>1, <2>2, HolderIs, HeldSame, ZenonT(60)
    <3> QED
      BY <1>0, <2>1, <2>2, <3>1, PartitionSame
  <2>3. CASE c = d
    <3> DEFINE j == ap[t][c]  h == <<t, "team">>
    <3>1. j \in 1 .. Alts[c] /\ so[t][c] \in Nat \ {0}
      BY <1>1, <2>3, AltsAssumption DEF Take, TypeOK, Limit
    <3>2. /\ taken'[c] = taken[c] \cup {j}
          /\ ap'[t][c] = Step(c, j, so[t][c])
      BY <1>1, <2>3 DEF Take, WellFormed
    <3> HIDE DEF j
    <3>3. h \in Holder /\ Held(c)[h] = {j} \cup Held(c)'[h] /\ j \notin Held(c)'[h]
      <4>1. h \in Holder /\ Held(c)[h] = Left(c, j, so[t][c])
        BY HeldBy DEF j
      <4>2. Held(c)'[h] = Left(c, Step(c, j, so[t][c]), so[t][c])
        <5>1. Held(c)'[h] = Left(c, ap'[t][c], so'[t][c])
          BY HeldByNext
        <5> QED
          BY <2>1, <3>2, <5>1
      <4> QED
        BY <3>1, <4>1, <4>2, LeftAfterStep
    <3>4. \A g \in Holder : g # h => Held(c)'[g] = Held(c)[g]
      BY <2>1, HolderIs, HeldSame, ZenonT(60)
    <3> HIDE DEF h
    <3> QED
      BY <1>0, <3>2, <3>3, <3>4, PartitionTake, SMTT(30)
  <2> QED
    BY <2>2, <2>3
<1>2. ASSUME NEW t \in Team, Publish(t)
      PROVE Partition(1 .. Alts[c], taken'[c], Held(c)')
  <2>1. \A h \in Holder : Held(c)'[h] = Held(c)[h]
    BY <1>2, HolderIs, HeldSame DEF Publish
  <2> QED
    BY <1>0, <1>2, <2>1, PartitionSame DEF Publish
<1>3. ASSUME NEW p \in Team, NEW q \in Team, StartWalk(p, q)
      PROVE Partition(1 .. Alts[c], taken'[c], Held(c)')
  <2>1. /\ ap' = ap /\ so' = so /\ taken' = taken
        /\ walk[p].to = Nobody /\ walk'[p].at = Depth
        /\ \A t \in Team : t # p => walk'[t] = walk[t]
    BY <1>3 DEF StartWalk, WellFormed, Copy
  <2>2. Held(c)[<<p, "copy">>] = {} /\ Held(c)'[<<p, "copy">>] = {}
    <3>1. ~(Depth < c)
      BY <1>0
    <3> QED
      BY <2>1, <3>1, HeldBy, HeldByNext
  <2>3. \A h \in Holder : Held(c)'[h] = Held(c)[h]
    BY <2>1, <2>2, HolderIs, HeldSame
  <2> QED
    BY <1>0, <2>1, <2>3, PartitionSame
<1>4. ASSUME NEW p \in Team, Split(p)
      PROVE Partition(1 .. Alts[c], taken'[c], Held(c)')
  <2> DEFINE d == walk[p].at  g == <<p, "team">>  h == <<p, "copy">>
  <2>1. walk[p].to # Nobody /\ d \in Cp
    BY <1>4, SplitIsDivision
  <2>2. PICK mine, its, myStride, itsStride \in Nat, w \in BOOLEAN :
          /\ SplitInto(p, mine, its, myStride, itsStride, w)
          /\ Divides(p, d, mine, myStride, its, itsStride)
    BY <1>4, SplitIsDivision
  <2>3. /\ \A t \in Team : t # p => walk'[t] = walk[t] /\ ap'[t] = ap[t] /\ so'[t] = so[t]
        /\ walk'[p].to = walk[p].to /\ walk'[p].at = d - 1 /\ taken' = taken
        /\ ap'[p][d] = mine /\ so'[p][d] = myStride
        /\ walk'[p].ap[d] = its /\ walk'[p].so[d] = itsStride
        /\ \A e \in Cp : e # d => /\ walk'[p].ap[e] = walk[p].ap[e]
                                  /\ walk'[p].so[e] = walk[p].so[e]
                                  /\ ap'[p][e] = ap[p][e]
                                  /\ so'[p][e] = so[p][e]
    BY <2>1, <2>2 DEF SplitInto, WellFormed, Copy
  <2>4. d \in Nat
    BY <1>0
  <2> HIDE DEF d
  <2>5. CASE c # d
    <3>1. walk'[p].at < c <=> walk[p].at < c
      BY <1>0, <2>3, <2>4, <2>5 DEF d
    <3>2. \A t \in Team : /\ Held(c)'[<<t, "team">>] = Held(c)[<<t, "team">>]
                           /\ Held(c)'[<<t, "copy">>] = Held(c)[<<t, "copy">>]
      <4>1. /\ ap'[p][c] = ap[p][c] /\ so'[p][c] = so[p][c]
            /\ walk'[p].ap[c] = walk[p].ap[c] /\ walk'[p].so[c] = walk[p].so[c]
        BY <2>3, <2>5
      <4>2. /\ Held(c)'[<<p, "team">>] = Held(c)[<<p, "team">>]
            /\ Held(c)'[<<p, "copy">>] = Held(c)[<<p, "copy">>]
        BY <2>3, <3>1, <4>1, HeldSame
      <4> QED
        BY <2>3, <4>2, HeldSame
    <3>3. \A k \in Holder : Held(c)'[k] = Held(c)[k]
      BY <3>2, HolderIs
    <3> QED
      BY <1>0, <2>3, <3>3, PartitionSame
  <2>6. CASE c = d
    <3>1. walk'[p].at < c /\ ~(walk[p].at < c)
      BY <1>0, <2>3, <2>4, <2>6 DEF d
    <3>2. /\ Held(c)[g] = Left(c, ap[p][c], so[p][c]) /\ Held(c)[h] = {}
          /\ Held(c)'[g] = Left(c, mine, myStride)
          /\ Held(c)'[h] = Left(c, its, itsStride)
      BY <2>1, <2>3, <2>6, <3>1, HeldBy, HeldByNext
    <3>3. /\ Held(c)[g] = Held(c)'[g] \cup Held(c)'[h]
          /\ Held(c)'[g] \cap Held(c)'[h] = {}
      BY <2>2, <2>6, <3>2 DEF Divides, d
    <3>4. \A k \in Holder : k \notin {g, h} => Held(c)'[k] = Held(c)[k]
      <4>1. \A t \in Team : t # p =>
              /\ Held(c)'[<<t, "team">>] = Held(c)[<<t, "team">>]
              /\ Held(c)'[<<t, "copy">>] = Held(c)[<<t, "copy">>]
        BY <2>3, HeldSame
      <4> QED
        BY <4>1, HolderIs
    <3>5. g \in Holder /\ h \in Holder /\ g # h
      BY DEF Holder
    <3>6. taken'[c] = taken[c] /\ Held(c)[h] = {} /\ Partition(1 .. Alts[c], taken[c], Held(c))
      BY <1>0, <2>3, <3>2
    <3> HIDE DEF g, h
    <3>7. Partition(1 .. Alts[c], taken[c], Held(c)')
      <4> DEFINE now == Held(c)  next == Held(c)'
      <4>1. /\ now[g] = next[g] \cup next[h] /\ next[g] \cap next[h] = {} /\ now[h] = {}
            /\ \A k \in Holder : k \notin {g, h} => next[k] = now[k]
            /\ g \in Holder /\ h \in Holder /\ g # h
            /\ Partition(1 .. Alts[c], taken[c], now)
        BY <3>3, <3>4, <3>5, <3>6
      <4> HIDE DEF now, next
      <4>2. Partition(1 .. Alts[c], taken[c], next)
        BY <4>1, PartitionDivide
      <4> QED
        BY <4>2 DEF next
    <3> QED
      BY <3>6, <3>7
  <2> QED
    BY <2>5, <2>6
<1>5. ASSUME NEW p \in Team, Install(p)
      PROVE Partition(1 .. Alts[c], taken'[c], Held(c)')
  <2> DEFINE q == walk[p].to  g == <<p, "copy">>  h == <<q, "team">>
  <2>1. q \in Team /\ q # p /\ q # Nobody /\ ap[q][c] = 0 /\ walk[p].at = 0
    BY <1>5 DEF Install, WalkInv, WellFormed, Copy
  <2>2. /\ walk'[p].to = Nobody /\ taken' = taken
        /\ \A t \in Team : t # p => walk'[t] = walk[t]
        /\ ap'[q] = walk[p].ap /\ so'[q] = walk[p].so
        /\ \A t \in Team : t # q => ap'[t] = ap[t] /\ so'[t] = so[t]
    BY <1>5, <2>1 DEF Install, NoWalk, WellFormed, Copy
  <2>3. walk[p].at < c
    BY <1>0, <2>1
  <2> HIDE DEF q
  <2>4. /\ Held(c)[h] = {} /\ Held(c)'[g] = {}
        /\ Held(c)[g] = Left(c, walk[p].ap[c], walk[p].so[c])
        /\ Held(c)'[h] = Left(c, walk[p].ap[c], walk[p].so[c])
    <3>1. Held(c)[h] = {}
      <4>1. Held(c)[h] = Left(c, ap[q][c], so[q][c])
        BY <2>1, HeldBy
      <4> QED
        BY <2>1, <4>1, LeftNothing
    <3>2. Held(c)'[g] = {}
      BY <2>2, HeldByNext
    <3>3. Held(c)[g] = Left(c, walk[p].ap[c], walk[p].so[c])
      BY <2>1, <2>3, HeldBy DEF q
    <3>4. Held(c)'[h] = Left(c, walk[p].ap[c], walk[p].so[c])
      <4>1. Held(c)'[h] = Left(c, ap'[q][c], so'[q][c])
        BY <2>1, HeldByNext
      <4> QED
        BY <2>2, <4>1
    <3> QED
      BY <3>1, <3>2, <3>3, <3>4
  <2>5. \A k \in Holder : k \notin {g, h} => Held(c)'[k] = Held(c)[k]
    BY <2>2, HolderIs, HeldSame, ZenonT(60)
  <2>6. g \in Holder /\ h \in Holder /\ g # h
    BY <2>1 DEF Holder
  <2>7. /\ taken'[c] = taken[c] /\ Partition(1 .. Alts[c], taken[c], Held(c))
        /\ Held(c)[g] = Held(c)'[g] \cup Held(c)'[h]
        /\ Held(c)'[g] \cap Held(c)'[h] = {} /\ Held(c)[h] = {}
    BY <1>0, <2>2, <2>4
  <2> HIDE DEF g, h
  <2> QED
    BY <2>5, <2>6, <2>7, PartitionDivide
<1>6. CASE UNCHANGED vars
  <2>1. \A h \in Holder : Held(c)'[h] = Held(c)[h]
    BY <1>6, HolderIs, HeldSame DEF vars
  <2> QED
    BY <1>0, <1>6, <2>1, PartitionSame DEF vars
<1> QED
  BY <1>1, <1>2, <1>3, <1>4, <1>5, <1>6 DEF Next, Split

-----------------------------------------------------------------------------
(***************************************************************************)
(* The theorems.                                                           *)
(***************************************************************************)
LEMMA InvInit == Init => IInv
<1> SUFFICES ASSUME Init PROVE IInv
  OBVIOUS
<1>1. TypeOK /\ WellFormed
  BY TypeInit
<1>2. \A t \in Team : walk[t].to = Nobody /\ walk[t].at = 0
  BY DEF Init, NoWalk
<1>3. WalkInv
  BY <1>2 DEF WalkInv
<1>4. ASSUME NEW c \in Cp PROVE Partition(1 .. Alts[c], taken[c], Held(c))
  <2>1. Alts[c] \in Nat /\ Alts[c] >= 1 /\ 1 \in 1 .. Alts[c] /\ taken[c] = {1}
    <3>1. Alts[c] \in 1 .. Limit + 1
      BY AltsAssumption
    <3>2. taken[c] = {1}
      BY DEF Init
    <3> QED
      BY <3>1, <3>2 DEF Limit
  <2> DEFINE h == <<First, "team">>
  <2>2. h \in Holder
    BY TeamAssumption DEF Holder
  <2>3. ASSUME NEW t \in Team
        PROVE  /\ Held(c)[<<t, "copy">>] = {}
               /\ t # First => Held(c)[<<t, "team">>] = {}
    <3>1. Held(c)[<<t, "copy">>] = {}
      BY <1>2, HeldBy
    <3>2. Held(c)[<<t, "team">>] = Left(c, ap[t][c], so[t][c])
      BY HeldBy
    <3>3. t # First => ap[t][c] = 0
      BY DEF Init
    <3> QED
      BY <3>1, <3>2, <3>3, LeftNothing
  <2>4. \A g \in Holder : g # h => Held(c)[g] = {}
    BY <2>3, HolderIs
  \* The first team has gone on from alternative 1 with stride 1.
  <2>5. Left(c, 1, 1) = {1} \cup Held(c)[h] /\ 1 \notin Held(c)[h]
    <3>1. Held(c)[h] = Left(c, ap[First][c], so[First][c])
      BY TeamAssumption, HeldBy
    <3>2. so[First][c] = 1 /\ ap[First][c] = Step(c, 1, 1)
      BY <2>1, StepTo, TeamAssumption DEF Init
    <3> QED
      BY <2>1, <3>1, <3>2, LeftAfterStep
  <2>6. \A j \in 1 .. Alts[c] : j \in Left(c, 1, 1)
    <3> TAKE j \in 1 .. Alts[c]
    <3> DEFINE k == j - 1
    <3>1. k \in Nat /\ j = After(1, k, 1)
      BY <2>1 DEF After
    <3>2. 1 \in Nat \ {0} /\ j \in Nat /\ j <= Alts[c]
      BY <2>1
    <3> HIDE DEF k
    <3> QED
      BY <2>1, <3>1, <3>2, LeftMember
  <2> HIDE DEF h
  <2> QED
    BY <2>1, <2>2, <2>4, <2>5, <2>6 DEF Partition
<1> QED
  BY <1>1, <1>3, <1>4 DEF IInv, PartitionInv

THEOREM InvStep == IInv /\ [Next]_vars => IInv'
  BY TypeStep, WalkStep, PartitionStep DEF IInv

\* The choice points, strides, copies and walks keep their types: no step of a
\* walk leaves the chain and no alternative beyond the last is ever named
\* (SCH_new_alternative, mpi_invalidar_alternativas2).
THEOREM TypeCorrect == Spec => []TypeOK
<1>1. IInv => TypeOK
  BY DEF IInv
<1> QED
  BY InvInit, InvStep, <1>1, PTL DEF Spec

LEMMA PartitionIsExactlyOnce == ASSUME IInv PROVE ExactlyOnce
<1> SUFFICES ASSUME NEW c \in Cp, NEW j \in 1 .. Alts[c]
             PROVE  IF j \in taken[c] THEN Holders(c, j) = {}
                    ELSE \E h \in Holders(c, j) : Holders(c, j) = {h}
  BY DEF ExactlyOnce
<1>1. Partition(1 .. Alts[c], taken[c], Held(c))
  BY DEF IInv, PartitionInv
<1>2. Holders(c, j) = {h \in Holder : j \in Held(c)[h]}
  <2>1. ASSUME NEW h \in Holders(c, j) PROVE h \in Holder /\ j \in Held(c)[h]
    <3>1. CASE \E t \in Team : h = <<t, "team">> /\ j \in Left(c, ap[t][c], so[t][c])
      BY <3>1, HeldBy
    <3>2. CASE \E t \in Team : /\ h = <<t, "copy">> /\ walk[t].to # Nobody /\ walk[t].at < c
                               /\ j \in Left(c, walk[t].ap[c], walk[t].so[c])
      <4> PICK t \in Team : /\ h = <<t, "copy">> /\ walk[t].to # Nobody /\ walk[t].at < c
                            /\ j \in Left(c, walk[t].ap[c], walk[t].so[c])
        BY <3>2
      <4> QED
        BY HeldBy
    <3> QED
      BY <3>1, <3>2 DEF Holders
  <2>2. ASSUME NEW h \in Holder, j \in Held(c)[h] PROVE h \in Holders(c, j)
    <3> PICK t \in Team : h = <<t, "team">> \/ h = <<t, "copy">>
      BY HolderIs
    <3>1. CASE h = <<t, "team">>
      <4> j \in Left(c, ap[t][c], so[t][c])
        BY <2>2, <3>1, HeldBy
      <4> QED
        BY <3>1 DEF Holders
    <3>2. CASE h = <<t, "copy">>
      <4>1. walk[t].to # Nobody /\ walk[t].at < c
        BY <2>2, <3>2, HeldBy
      <4>2. j \in Left(c, walk[t].ap[c], walk[t].so[c])
        BY <2>2, <3>2, <4>1, HeldBy
      <4> QED
        BY <3>2, <4>1, <4>2 DEF Holders
    <3> QED
      BY <3>1, <3>2
  <2> QED
    BY <2>1, <2>2
<1>3. CASE j \in taken[c]
  BY <1>1, <1>2, <1>3 DEF Partition
<1>4. CASE j \notin taken[c]
  <2> PICK h \in Holder : j \in Held(c)[h]
    BY <1>1, <1>4 DEF Partition
  <2> \A g \in Holder : j \in Held(c)[g] => g = h
    BY <1>1 DEF Partition
  <2> QED
    BY <1>2, <1>4
<1> QED
  BY <1>3, <1>4

\* Whatever teams split, take and copy, an alternative that has not been taken
\* is held by exactly one team or copy and one that has been taken by none
\* (mpi_invalidar_alternativas2 under the locks of the or-frames against
\* getwork and SCH_new_alternative of the other workers of the team).
THEOREM SplittingIsExact == Spec => []ExactlyOnce
<1>1. IInv => ExactlyOnce
  BY PartitionIsExactlyOnce
<1> QED
  BY InvInit, InvStep, <1>1, PTL DEF Spec
=============================================================================
