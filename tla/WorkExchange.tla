---------------------------- MODULE WorkExchange ----------------------------
(***************************************************************************)
(* What the workers of one team promise each other, whatever the signals,  *)
(* bitmaps and copies that implement it:                                   *)
(*                                                                         *)
(*   - an idle worker asks one busy worker for work and stays with that    *)
(*     request until it is granted or refused;                             *)
(*   - granting is one atomic step: the idle worker becomes busy with      *)
(*     exactly the computation the other one has at that moment;           *)
(*   - a worker leaves the scheduler only when nobody has work.            *)
(*                                                                         *)
(* WorkSharing.tla implements it (p_share_work, q_share_work and get_work  *)
(* of OPTYap).                                                             *)
(***************************************************************************)
CONSTANTS Worker,     \* the workers of the team
          Nobody,     \* no worker: asking[w] when w asks nobody
          Version     \* the computations a worker can be in the middle of

VARIABLES busy,       \* the workers that have work
          left,       \* the workers that have left the scheduler
          asking,     \* asking[w] is the worker w has asked for work
          work        \* work[w] is the computation of a busy worker w

vars == <<busy, left, asking, work>>

TypeOK ==
  /\ busy \subseteq Worker
  /\ left \subseteq Worker
  /\ asking \in [Worker -> Worker \cup {Nobody}]
  /\ work \in [Worker -> Version \cup {Nobody}]

Init ==
  /\ \E w \in Worker : busy = {w}
  /\ left = {}
  /\ asking = [w \in Worker |-> Nobody]
  /\ \E v \in Version : work = [w \in Worker |-> IF w \in busy THEN v ELSE Nobody]

\* A busy worker goes on with its computation.
Run(w) ==
  /\ w \in busy
  /\ \E v \in Version : work' = [work EXCEPT ![w] = v]
  /\ UNCHANGED <<busy, left, asking>>

\* A busy worker has run out of work.
BecomeIdle(w) ==
  /\ w \in busy
  /\ busy' = busy \ {w}
  /\ work' = [work EXCEPT ![w] = Nobody]
  /\ UNCHANGED <<left, asking>>

\* An idle worker goes on with a sequential predicate nobody else may resume.
Resume(w) ==
  /\ w \notin busy \cup left
  /\ asking[w] = Nobody
  /\ busy' = busy \cup {w}
  /\ \E v \in Version : work' = [work EXCEPT ![w] = v]
  /\ UNCHANGED <<left, asking>>

Ask(q, p) ==
  /\ q \notin busy \cup left
  /\ asking[q] = Nobody
  /\ q # p
  /\ asking' = [asking EXCEPT ![q] = p]
  /\ UNCHANGED <<busy, left, work>>

Refuse(q) ==
  /\ asking[q] # Nobody
  /\ asking' = [asking EXCEPT ![q] = Nobody]
  /\ UNCHANGED <<busy, left, work>>

\* The worker q asked gives it a copy of its whole computation, at once.
Grant(q) ==
  /\ asking[q] \in busy
  /\ q \notin busy
  /\ busy' = busy \cup {q}
  /\ work' = [work EXCEPT ![q] = work[asking[q]]]
  /\ asking' = [asking EXCEPT ![q] = Nobody]
  /\ UNCHANGED left

Leave(w) ==
  /\ busy = {}
  /\ w \notin left
  /\ left' = left \cup {w}
  /\ UNCHANGED <<busy, asking, work>>

Next ==
  \E w \in Worker :
    \/ Run(w) \/ BecomeIdle(w) \/ Resume(w)
    \/ \E p \in Worker : Ask(w, p)
    \/ Refuse(w) \/ Grant(w) \/ Leave(w)

Spec == Init /\ [][Next]_vars
=============================================================================
