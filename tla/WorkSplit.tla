----------------------------- MODULE WorkSplit ------------------------------
(***************************************************************************)
(* Splitting of work between teams (YAPOR_SPLIT): SCH_new_alternative      *)
(* (OPTYap/or.macros.h), SCH_retrieve_alternative and                      *)
(* mpi_invalidar_alternativas2 (OPTYap/or.copy_engine.c).                  *)
(*                                                                         *)
(* A team takes every cp_so-th alternative of a choice point.  To share,   *)
(* it copies its chain of choice points and walks it from the youngest to  *)
(* the root: the two copies double their strides, and one of them, by      *)
(* turns, goes on with the alternative after the next.                     *)
(*                                                                         *)
(* The model has the choice points that are open when splitting starts, on *)
(* one branch: 1 is the oldest.  Those a team has made public have an      *)
(* or-frame, from which its other workers take alternatives at any time,   *)
(* also between two steps of the walk.  Sequential choice points (their    *)
(* GETWORK_SEQ is not an alternative) and loads are left out.              *)
(***************************************************************************)
EXTENDS Integers

CONSTANTS Team,     \* the teams
          First,    \* the team that starts the query
          Nobody,   \* no team
          Depth,    \* the number of open choice points
          Alts,     \* Alts[c]: the number of alternatives of c
          Splits    \* bound: how often work is split

ASSUME TeamAssumption == First \in Team /\ Nobody \notin Team
ASSUME BoundAssumption == Depth \in Nat /\ Splits \in Nat

Cp == 1 .. Depth

\* "if (YAMOP_LTT(code_ap) > 200) code_ap = NULL": what is left of a choice
\* point with more alternatives would be dropped.
Limit == 200

ASSUME AltsAssumption == Alts \in [Cp -> 1 .. Limit + 1]

VARIABLES
  ap,      \* ap[t][c]: cp_ap or OrFr_alternative, 0 for NULL and INVALIDWORK
  so,      \* so[t][c]: cp_so or OrFr_so
  public,  \* public[t]: the choice points 1 .. public[t] are public
  taken,   \* taken[c]: the alternatives of c that have been taken
  walk,    \* walk[t]: the copy that t splits off, and how far it is
  splits   \* the splits that are left

vars == <<ap, so, public, taken, walk, splits>>

\* No copy: nobody is to get it.
NoWalk == [to |-> Nobody, at |-> 0, worker |-> TRUE,
           ap |-> [c \in Cp |-> 0], so |-> [c \in Cp |-> 1]]

TypeOK ==
  /\ \A t \in Team : \A c \in Cp : ap[t][c] \in 0 .. Alts[c]
  /\ \A t \in Team : so[t] \in [Cp -> Nat \ {0}] /\ public[t] \in 0 .. Depth
  /\ \A c \in Cp : taken[c] \subseteq 1 .. Alts[c]
  /\ \A t \in Team :
       /\ walk[t].to \in Team \cup {Nobody} /\ walk[t].at \in 0 .. Depth
       /\ walk[t].worker \in BOOLEAN /\ walk[t].so \in [Cp -> Nat \ {0}]
       /\ \A c \in Cp : walk[t].ap[c] \in 0 .. Alts[c]
  /\ splits \in 0 .. Splits

\* YAMOP_LTT: the alternatives left from a on.
LTT(c, a) == Alts[c] - a + 1

\* The first team has taken the first alternative of every choice point.
Init ==
  /\ ap = [t \in Team |-> [c \in Cp |-> IF t = First /\ Alts[c] > 1 THEN 2 ELSE 0]]
  /\ so = [t \in Team |-> [c \in Cp |-> 1]]
  /\ public = [t \in Team |-> 0]
  /\ taken = [c \in Cp |-> {1}]
  /\ walk = [t \in Team |-> NoWalk]
  /\ splits = Splits

-----------------------------------------------------------------------------
\* Mistake: a step to the end of the alternatives is allowed.
Step_OffByOne(c, a, s) ==
  IF s <= LTT(c, a) /\ LTT(c, a + s) <= Limit THEN a + s ELSE 0

\* The alternative s after a.
Step(c, a, s) ==
  IF s < LTT(c, a) /\ LTT(c, a + s) <= Limit THEN a + s ELSE 0

\* The choice points that a worker of t can go back to: the public ones, and
\* the youngest private one that is not exhausted, when its owner is not
\* splitting.
Open(t, c) ==
  \/ c <= public[t]
  \/ walk[t].to = Nobody /\ \A d \in c + 1 .. Depth : ap[t][d] = 0

\* getwork or retry, with SCH_new_alternative.
Take(t, c) ==
  /\ ap[t][c] # 0
  /\ Open(t, c)
  /\ taken' = [taken EXCEPT ![c] = @ \cup {ap[t][c]}]
  /\ ap' = [ap EXCEPT ![t][c] = Step(c, @, so[t][c])]
  /\ UNCHANGED <<so, public, walk, splits>>

\* share_private_nodes: or-frames take over cp_so and cp_ap.
Publish(t) ==
  /\ walk[t].to = Nobody
  /\ public[t] < Depth
  /\ \E c \in Cp : ap[t][c] # 0
  /\ public' = [public EXCEPT ![t] = Depth]
  /\ UNCHANGED <<ap, so, taken, walk, splits>>

\* A team without work: it waits for a copy.
Idle(t) ==
  /\ \A c \in Cp : ap[t][c] = 0
  /\ walk[t].to = Nobody
  /\ \A u \in Team : walk[u].to # t

\* mpi_delegate_team_p_share_work: p copies its stacks for q. One walk of a team
\* at a time; in the code each of its workers may be at one of its own.
StartWalk(p, q) ==
  /\ splits > 0
  /\ walk[p].to = Nobody
  /\ \E c \in Cp : ap[p][c] # 0
  /\ p # q /\ Idle(q)
  /\ walk' = [walk EXCEPT ![p] = [to |-> q, at |-> Depth, worker |-> TRUE,
                                  ap |-> ap[p], so |-> so[p]]]
  /\ splits' = splits - 1
  /\ UNCHANGED <<ap, so, public, taken>>

\* One call of mpi_invalidar_alternativas2 ends: p has mine left of the
\* choice point, q's copy has its, with their strides; if both could, it is
\* the other's turn to go on at the next.
SplitInto(p, mine, its, myStride, itsStride, worker) ==
  LET c == walk[p].at IN
  /\ ap' = [ap EXCEPT ![p][c] = mine]
  /\ so' = [so EXCEPT ![p][c] = myStride]
  /\ walk' = [walk EXCEPT ![p].at = c - 1, ![p].worker = worker,
                          ![p].ap[c] = its, ![p].so[c] = itsStride]
  /\ UNCHANGED <<public, taken, splits>>

\* The or-frame has no alternative: neither has the copy.
SplitNothing(p) ==
  LET c == walk[p].at IN
  /\ c # 0 /\ ap[p][c] = 0
  /\ SplitInto(p, 0, 0, so[p][c], walk[p].so[c], walk[p].worker)

\* Mistake: the or-frame keeps its stride.
SplitPublic_KeepsStride(p) ==
  LET c == walk[p].at  now == ap[p][c]  s == so[p][c]  next == Step(c, now, s) IN
  /\ c # 0 /\ c <= public[p] /\ now # 0
  /\ IF walk[p].worker THEN SplitInto(p, next, now, s, 2 * s, FALSE)
                       ELSE SplitInto(p, now, next, s, 2 * s, TRUE)

\* A public choice point, under the lock of its or-frame: the copy gets what
\* is in the or-frame now, or p's team goes on from there.
SplitPublic(p) ==
  LET c == walk[p].at  now == ap[p][c]  s == so[p][c]  next == Step(c, now, s) IN
  /\ c # 0 /\ c <= public[p] /\ now # 0
  /\ IF walk[p].worker THEN SplitInto(p, next, now, 2 * s, 2 * s, FALSE)
                       ELSE SplitInto(p, now, next, 2 * s, 2 * s, TRUE)

\* A private choice point: the strides double when there is a second
\* alternative.
SplitPrivate(p) ==
  LET c == walk[p].at  now == walk[p].ap[c]
      next == Step(c, now, walk[p].so[c])
      s == IF next # 0 THEN 2 * so[p][c] ELSE so[p][c] IN
  /\ c > public[p] /\ now # 0
  /\ IF walk[p].worker THEN SplitInto(p, next, now, s, s, FALSE)
                       ELSE SplitInto(p, now, next, s, s, TRUE)

\* The copy arrives and is installed: mpi_delegate_team_q_share_work.  All its
\* choice points are private to the worker of q that goes on with it.
Install(p) ==
  LET q == walk[p].to IN
  /\ q # Nobody /\ walk[p].at = 0
  /\ ap' = [ap EXCEPT ![q] = walk[p].ap]
  /\ so' = [so EXCEPT ![q] = walk[p].so]
  /\ public' = [public EXCEPT ![q] = 0]
  /\ walk' = [walk EXCEPT ![p] = NoWalk]
  /\ UNCHANGED <<taken, splits>>

Next ==
  \E t \in Team :
    \/ \E c \in Cp : Take(t, c)
    \/ Publish(t)
    \/ \E q \in Team : StartWalk(t, q)
    \/ SplitNothing(t) \/ SplitPublic(t) \/ SplitPrivate(t) \/ Install(t)

Spec == Init /\ [][Next]_vars
-----------------------------------------------------------------------------
(***************************************************************************)
(* Properties.                                                             *)
(***************************************************************************)

\* What is reached from a in steps of s.
Left(c, a, s) ==
  IF a = 0 THEN {} ELSE {j \in a .. Alts[c] : \E k \in 0 .. Alts[c] : j = a + k * s}

\* Who still has alternative j of c: teams, and copies on their way as far
\* as they have been split.
Holders(c, j) ==
  {<<t, "team">> : t \in {t \in Team : j \in Left(c, ap[t][c], so[t][c])}}
  \cup
  {<<t, "copy">> : t \in {t \in Team : /\ walk[t].to # Nobody /\ walk[t].at < c
                                       /\ j \in Left(c, walk[t].ap[c], walk[t].so[c])}}

\* Splitting neither loses an alternative nor gives it to two teams: one that
\* has not been taken is held by exactly one team or copy, and one that has
\* been taken by none, between any two steps of takers and splitters.
ExactlyOnce ==
  \A c \in Cp : \A j \in 1 .. Alts[c] :
    IF j \in taken[c] THEN Holders(c, j) = {} ELSE \E h \in Holders(c, j) : Holders(c, j) = {h}
=============================================================================
