------------------------------ MODULE OrSearch ------------------------------
(***************************************************************************)
(* What an or-parallel execution of a query promises, whoever runs what:   *)
(*                                                                         *)
(*   - an alternative of a choice point is taken at most once, after the   *)
(*     ones before it, and never before its choice point exists;           *)
(*   - an alternative of a sequential predicate is taken only when         *)
(*     everything below the one before it has been explored;               *)
(*   - the execution is over only when the whole search tree is explored.  *)
(*                                                                         *)
(* OrScheduler.tla implements this.                                        *)
(***************************************************************************)
EXTENDS SearchTree

VARIABLES taken,       \* the alternatives that have been taken
          running,     \* those whose first goal is being run
          over         \* the execution has ended

vars == <<taken, running, over>>

Init == taken = {Query} /\ running = {Query} /\ over = FALSE

\* The alternative x that is being run creates a choice point and goes on
\* with the first alternative of that.
Call(x) ==
  /\ x \in running
  /\ Created(x) # Leaf
  /\ LET y == <<Created(x), 1>> IN
     /\ y \notin taken
     /\ taken' = taken \cup {y}
     /\ running' = (running \ {x}) \cup {y}
  /\ UNCHANGED over

\* The alternative x ends.
End(x) ==
  /\ x \in running
  /\ Created(x) = Leaf
  /\ running' = running \ {x}
  /\ UNCHANGED <<taken, over>>

\* A later alternative of a choice point is taken.
Take(x) ==
  /\ x \in Alternative \ taken
  /\ x[2] > 1
  /\ LET before == <<x[1], x[2] - 1>> IN
     /\ before \in taken
     /\ x[1] \in Sequential =>
          /\ before \notin running
          /\ \A y \in Alternative : Within(y, before) => y \in taken \ running
  /\ taken' = taken \cup {x}
  /\ running' = running \cup {x}
  /\ UNCHANGED over

Finish ==
  /\ taken = Alternative /\ running = {}
  /\ over' = TRUE
  /\ UNCHANGED <<taken, running>>

Next == (\E x \in Alternative : Call(x) \/ End(x) \/ Take(x)) \/ Finish

Spec == Init /\ [][Next]_vars
=============================================================================
