------------------------ MODULE TeamLifecycleProofs ------------------------
(***************************************************************************)
(* Proofs about TeamLifecycle, for any team and any number of queries and  *)
(* shares: type correctness, that no work is left behind when worker 0     *)
(* ends a query, and that get_work returns FALSE only when nobody has any. *)
(***************************************************************************)
EXTENDS TeamLifecycle, TLAPS

(***************************************************************************)
(* The inductive invariant.  The bitmaps free, finished and idle take no   *)
(* part in it: whatever their races lose, it holds.                        *)
(***************************************************************************)

\* A worker that has work is not in the root choice point.
WorkersOutside == below \cap root = {}

\* A worker that runs, or is about to, has work.
BusyHasWork ==
  \A w \in Worker : pc[w] \in {"run", "put_busy", "put_busy2"} => w \in below

\* Only worker 0 takes goals and ends queries, and it never enlists.
ZeroLeads ==
  /\ \A w \in Worker \ {Zero} :
       pc[w] \notin {"wait_team", "goal", "join"} \cup Starting
  /\ pc[Zero] \notin Joining

\* Once p_yapor_start has taken worker 0 out of the root bitmap, it stays
\* out until it has work.
ZeroOutside ==
  pc[Zero] \in {"start_free", "start_free2", "start_free3", "start_unlock"} =>
    Zero \notin root

IInv ==
  /\ TypeOK /\ WorkersOutside /\ BusyHasWork /\ ZeroLeads /\ ZeroOutside
  /\ NoWorkLeftBehind

-----------------------------------------------------------------------------
(***************************************************************************)
(* Type correctness.                                                       *)
(***************************************************************************)
LEMMA TypeInit == Init => TypeOK
<1> SUFFICES ASSUME Init PROVE TypeOK
  OBVIOUS
<1> USE DEF Init
<1>1. pc \in [Worker -> Location]
  BY DEF Location, Waiting
<1>2. queries \in 0 .. Queries /\ shares \in 0 .. Shares
  BY BoundAssumption
<1> QED
  BY <1>1, <1>2 DEF TypeOK

\* Every action keeps the types.
LEMMA TypeStep == TypeOK /\ [Next]_vars => TypeOK'
<1> SUFFICES ASSUME TypeOK, [Next]_vars PROVE TypeOK'
  OBVIOUS
<1> USE ZeroAssumption, BoundAssumption
<1> USE DEF Waiting, Starting, Ending, Joining, GetWork, Location
<1>1. ASSUME NEW w \in Worker, Arrive(w) PROVE TypeOK'
  BY <1>1 DEF Arrive, TypeOK, Goto, bitmaps, locks, tree
<1>2. ASSUME NEW w \in Worker, TeamPresent(w) PROVE TypeOK'
  BY <1>2 DEF TeamPresent, TypeOK, Goto, bitmaps, locks, tree
<1>3. ASSUME NEW w \in Worker, ReceiveGoal(w) PROVE TypeOK'
  BY <1>3 DEF ReceiveGoal, TypeOK, Goto, bitmaps, locks, tree
<1>4. ASSUME NEW w \in Worker, SeeGoal(w) PROVE TypeOK'
  BY <1>4 DEF SeeGoal, TypeOK, Goto, bitmaps, locks, tree
<1>5. ASSUME NEW w \in Worker, Wake(w) PROVE TypeOK'
  BY <1>5 DEF Wake, TypeOK, Goto, bitmaps, locks, tree
<1>6. ASSUME NEW w \in Worker, EnlistRead(w) PROVE TypeOK'
  BY <1>6 DEF EnlistRead, TypeOK, Goto, bitmaps, locks, tree
<1>7. ASSUME NEW w \in Worker, Enlist(w) PROVE TypeOK'
  BY <1>7 DEF Enlist, TypeOK, Goto, bitmaps, locks, tree
<1>8. ASSUME NEW w \in Worker, PutInFinished(w) PROVE TypeOK'
  BY <1>8 DEF PutInFinished, TypeOK, Goto, bitmaps, locks, tree
<1>9. ASSUME NEW w \in Worker, Join(w) PROVE TypeOK'
  BY <1>9 DEF Join, TypeOK, Goto, bitmaps, locks, tree
<1>10. ASSUME NEW w \in Worker, StartIdleRead(w) PROVE TypeOK'
  BY <1>10 DEF StartIdleRead, TypeOK, Goto, bitmaps, locks, tree
<1>11. ASSUME NEW w \in Worker, StartIdle(w) PROVE TypeOK'
  BY <1>11 DEF StartIdle, TypeOK, Goto, bitmaps, locks, tree
<1>12. ASSUME NEW w \in Worker, StartRoot(w) PROVE TypeOK'
  BY <1>12 DEF StartRoot, TypeOK, Goto, bitmaps, locks, tree
<1>13. ASSUME NEW w \in Worker, StartFree(w) PROVE TypeOK'
  BY <1>13 DEF StartFree, TypeOK, Goto, bitmaps, locks, tree
<1>14. ASSUME NEW w \in Worker, StartFreeRead(w) PROVE TypeOK'
  BY <1>14 DEF StartFreeRead, TypeOK, Goto, bitmaps, locks, tree
<1>15. ASSUME NEW w \in Worker, StartFreeInsert(w) PROVE TypeOK'
  BY <1>15 DEF StartFreeInsert, TypeOK, Goto, bitmaps, locks, tree
<1>16. ASSUME NEW w \in Worker, StartUnlock(w) PROVE TypeOK'
  <2>1. shares' \in 0 .. Shares
    BY <1>16 DEF StartUnlock
  <2> QED
    BY <1>16, <2>1 DEF StartUnlock, TypeOK, Goto, bitmaps, locks, tree
<1>17. ASSUME NEW w \in Worker, Exhaust(w) PROVE TypeOK'
  BY <1>17 DEF Exhaust, TypeOK, Goto, bitmaps, locks, tree
<1>18. ASSUME NEW w \in Worker, OutRoot(w) PROVE TypeOK'
  BY <1>18 DEF OutRoot, TypeOK, Goto, bitmaps, locks, tree
<1>19. ASSUME NEW w \in Worker, PutIdleRead(w) PROVE TypeOK'
  BY <1>19 DEF PutIdleRead, TypeOK, Goto, bitmaps, locks, tree, ReadIdle
<1>20. ASSUME NEW w \in Worker, PutIdle(w) PROVE TypeOK'
  BY <1>20 DEF PutIdle, TypeOK, Goto, bitmaps, locks, tree, WriteIdle
<1>21. ASSUME NEW w \in Worker, RefuseIfAny(w) PROVE TypeOK'
  BY <1>21 DEF RefuseIfAny, TypeOK, Goto, bitmaps, locks, tree
<1>22. ASSUME NEW w \in Worker, MoveUp(w) PROVE TypeOK'
  BY <1>22 DEF MoveUp, TypeOK, Goto, bitmaps, locks, tree
<1>23. ASSUME NEW w \in Worker, Resume(w) PROVE TypeOK'
  BY <1>23 DEF Resume, TypeOK, Goto, bitmaps, locks, tree
<1>24. ASSUME NEW w \in Worker, EnterRoot(w) PROVE TypeOK'
  BY <1>24 DEF EnterRoot, TypeOK, Goto, bitmaps, locks, tree
<1>25. ASSUME NEW w \in Worker, Finish(w) PROVE TypeOK'
  BY <1>25 DEF Finish, TypeOK, Goto, bitmaps, locks, tree
<1>26. ASSUME NEW w \in Worker, Refused(w) PROVE TypeOK'
  BY <1>26 DEF Refused, TypeOK, Goto, bitmaps, locks, tree
<1>27. ASSUME NEW w \in Worker, PutBusyRead(w) PROVE TypeOK'
  BY <1>27 DEF PutBusyRead, TypeOK, Goto, bitmaps, locks, tree, ReadIdle
<1>28. ASSUME NEW w \in Worker, PutBusy(w) PROVE TypeOK'
  BY <1>28 DEF PutBusy, TypeOK, Goto, bitmaps, locks, tree, WriteIdle
<1>29. ASSUME NEW w \in Worker, NEW p \in Worker, Ask(w, p) PROVE TypeOK'
  BY <1>29 DEF Ask, TypeOK, Goto, bitmaps, locks, tree
<1>30. ASSUME NEW w \in Worker, NEW p \in Worker, Refuse(w, p) PROVE TypeOK'
  BY <1>30 DEF Refuse, TypeOK, Goto, bitmaps, locks, tree
<1>31. ASSUME NEW w \in Worker, NEW p \in Worker, Share(w, p) PROVE TypeOK'
  BY <1>31 DEF Share, TypeOK, Goto, bitmaps, locks, tree
<1>32. CASE UNCHANGED vars
  BY <1>32 DEF TypeOK, vars, bitmaps, locks, tree
<1> QED
  BY <1>1, <1>2, <1>3, <1>4, <1>5, <1>6, <1>7, <1>8, <1>9, <1>10, <1>11, <1>12, <1>13, <1>14, <1>15, <1>16, <1>17, <1>18, <1>19, <1>20, <1>21, <1>22, <1>23, <1>24, <1>25, <1>26, <1>27, <1>28, <1>29, <1>30, <1>31, <1>32
     DEF Next, Step, FirstTime, YaporStart, Schedule, AtRest

\* TypeOK: every bitmap, location and request of TeamLifecycle keeps its type.
THEOREM TypeCorrect == Spec => []TypeOK
<1>1. Init => TypeOK
  BY TypeInit
<1>2. TypeOK /\ [Next]_vars => TypeOK'
  BY TypeStep
<1> QED
  BY <1>1, <1>2, PTL DEF Spec

-----------------------------------------------------------------------------
(***************************************************************************)
(* The safety invariant.                                                   *)
(***************************************************************************)
LEMMA InvInit == Init => IInv
<1> SUFFICES ASSUME Init PROVE IInv
  OBVIOUS
<1>1. TypeOK
  BY TypeInit
<1>2. \A w \in Worker : pc[w] = "first"
  BY DEF Init
<1>3. BusyHasWork /\ ZeroLeads /\ ZeroOutside
  BY <1>2, ZeroAssumption DEF BusyHasWork, ZeroLeads, ZeroOutside, Starting, Joining
<1> QED
  BY <1>1, <1>3 DEF Init, IInv, WorkersOutside, NoWorkLeftBehind

\* get_work lets a worker out only when nobody is below the root.
LEMMA RootFullNobodyBelow ==
  ASSUME TypeOK, WorkersOutside, root = Worker
  PROVE  below = {}
BY DEF TypeOK, WorkersOutside

\* Every action keeps the invariant.
LEMMA InvStep == IInv /\ [Next]_vars => IInv'
<1> SUFFICES ASSUME IInv, [Next]_vars PROVE IInv'
  OBVIOUS
<1>0. TypeOK /\ TypeOK'
  BY TypeStep DEF IInv
<1> USE <1>0, ZeroAssumption
<1> USE DEF IInv, WorkersOutside, BusyHasWork, ZeroLeads, ZeroOutside, NoWorkLeftBehind,
            BetweenQueries, Waiting, Starting, Ending, Joining
<1>1. ASSUME NEW w \in Worker, Arrive(w) PROVE IInv'
  BY <1>1 DEF Arrive, TypeOK, Goto, bitmaps, locks, tree
<1>2. ASSUME NEW w \in Worker, TeamPresent(w) PROVE IInv'
  BY <1>2 DEF TeamPresent, TypeOK, Goto, bitmaps, locks, tree
<1>3. ASSUME NEW w \in Worker, ReceiveGoal(w) PROVE IInv'
  BY <1>3 DEF ReceiveGoal, TypeOK, Goto, bitmaps, locks, tree
<1>4. ASSUME NEW w \in Worker, SeeGoal(w) PROVE IInv'
  BY <1>4 DEF SeeGoal, TypeOK, Goto, bitmaps, locks, tree
<1>5. ASSUME NEW w \in Worker, Wake(w) PROVE IInv'
  BY <1>5 DEF Wake, TypeOK, Goto, bitmaps, locks, tree
<1>6. ASSUME NEW w \in Worker, EnlistRead(w) PROVE IInv'
  BY <1>6 DEF EnlistRead, TypeOK, Goto, bitmaps, locks, tree
<1>7. ASSUME NEW w \in Worker, Enlist(w) PROVE IInv'
  BY <1>7 DEF Enlist, TypeOK, Goto, bitmaps, locks, tree
<1>8. ASSUME NEW w \in Worker, PutInFinished(w) PROVE IInv'
  BY <1>8 DEF PutInFinished, TypeOK, Goto, bitmaps, locks, tree
<1>9. ASSUME NEW w \in Worker, Join(w) PROVE IInv'
  BY <1>9 DEF Join, TypeOK, Goto, bitmaps, locks, tree
<1>10. ASSUME NEW w \in Worker, StartIdleRead(w) PROVE IInv'
  BY <1>10 DEF StartIdleRead, TypeOK, Goto, bitmaps, locks, tree
<1>11. ASSUME NEW w \in Worker, StartIdle(w) PROVE IInv'
  BY <1>11 DEF StartIdle, TypeOK, Goto, bitmaps, locks, tree
<1>12. ASSUME NEW w \in Worker, StartRoot(w) PROVE IInv'
  BY <1>12 DEF StartRoot, TypeOK, Goto, bitmaps, locks, tree
<1>13. ASSUME NEW w \in Worker, StartFree(w) PROVE IInv'
  BY <1>13 DEF StartFree, TypeOK, Goto, bitmaps, locks, tree
<1>14. ASSUME NEW w \in Worker, StartFreeRead(w) PROVE IInv'
  BY <1>14 DEF StartFreeRead, TypeOK, Goto, bitmaps, locks, tree
<1>15. ASSUME NEW w \in Worker, StartFreeInsert(w) PROVE IInv'
  BY <1>15 DEF StartFreeInsert, TypeOK, Goto, bitmaps, locks, tree
<1>16. ASSUME NEW w \in Worker, StartUnlock(w) PROVE IInv'
  BY <1>16 DEF StartUnlock, TypeOK, Goto, bitmaps, locks, tree
<1>17. ASSUME NEW w \in Worker, Exhaust(w) PROVE IInv'
  BY <1>17 DEF Exhaust, TypeOK, Goto, bitmaps, locks, tree
<1>18. ASSUME NEW w \in Worker, OutRoot(w) PROVE IInv'
  BY <1>18 DEF OutRoot, TypeOK, Goto, bitmaps, locks, tree
<1>19. ASSUME NEW w \in Worker, PutIdleRead(w) PROVE IInv'
  BY <1>19 DEF PutIdleRead, TypeOK, Goto, bitmaps, locks, tree, ReadIdle
<1>20. ASSUME NEW w \in Worker, PutIdle(w) PROVE IInv'
  BY <1>20 DEF PutIdle, TypeOK, Goto, bitmaps, locks, tree, WriteIdle
<1>21. ASSUME NEW w \in Worker, RefuseIfAny(w) PROVE IInv'
  BY <1>21 DEF RefuseIfAny, TypeOK, Goto, bitmaps, locks, tree
<1>22. ASSUME NEW w \in Worker, MoveUp(w) PROVE IInv'
  BY <1>22 DEF MoveUp, TypeOK, Goto, bitmaps, locks, tree
<1>23. ASSUME NEW w \in Worker, Resume(w) PROVE IInv'
  BY <1>23 DEF Resume, TypeOK, Goto, bitmaps, locks, tree
<1>24. ASSUME NEW w \in Worker, EnterRoot(w) PROVE IInv'
  BY <1>24 DEF EnterRoot, TypeOK, Goto, bitmaps, locks, tree
<1>25. ASSUME NEW w \in Worker, Finish(w) PROVE IInv'
  BY <1>25, RootFullNobodyBelow DEF Finish, TypeOK, Goto, bitmaps, locks, tree
<1>26. ASSUME NEW w \in Worker, Refused(w) PROVE IInv'
  BY <1>26 DEF Refused, TypeOK, Goto, bitmaps, locks, tree
<1>27. ASSUME NEW w \in Worker, PutBusyRead(w) PROVE IInv'
  BY <1>27 DEF PutBusyRead, TypeOK, Goto, bitmaps, locks, tree, ReadIdle
<1>28. ASSUME NEW w \in Worker, PutBusy(w) PROVE IInv'
  BY <1>28 DEF PutBusy, TypeOK, Goto, bitmaps, locks, tree, WriteIdle
<1>29. ASSUME NEW w \in Worker, NEW p \in Worker, Ask(w, p) PROVE IInv'
  BY <1>29 DEF Ask, TypeOK, Goto, bitmaps, locks, tree
<1>30. ASSUME NEW w \in Worker, NEW p \in Worker, Refuse(w, p) PROVE IInv'
  BY <1>30 DEF Refuse, TypeOK, Goto, bitmaps, locks, tree
<1>31. ASSUME NEW w \in Worker, NEW p \in Worker, Share(w, p) PROVE IInv'
  BY <1>31 DEF Share, TypeOK, Goto, bitmaps, locks, tree
<1>32. CASE UNCHANGED vars
  BY <1>32 DEF vars, bitmaps, locks, tree
<1> QED
  BY <1>1, <1>2, <1>3, <1>4, <1>5, <1>6, <1>7, <1>8, <1>9, <1>10, <1>11, <1>12, <1>13, <1>14, <1>15, <1>16, <1>17, <1>18, <1>19, <1>20, <1>21, <1>22, <1>23, <1>24, <1>25, <1>26, <1>27, <1>28, <1>29, <1>30, <1>31, <1>32
     DEF Next, Step, FirstTime, YaporStart, Schedule, AtRest

LEMMA Invariant == Spec => []IInv
<1>1. Init => IInv
  BY InvInit
<1>2. IInv /\ [Next]_vars => IInv'
  BY InvStep
<1> QED
  BY <1>1, <1>2, PTL DEF Spec

-----------------------------------------------------------------------------
\* NoWorkLeftBehind: between two queries, and while p_yapor_start runs,
\* nobody works on a query.
THEOREM NoWorkIsLeftBehind == Spec => []NoWorkLeftBehind
<1>1. IInv => NoWorkLeftBehind
  BY DEF IInv
<1> QED
  BY <1>1, Invariant, PTL

\* OutOnlyWhenDone: get_work returns FALSE only when nobody has work.
THEOREM OutWhenDone == Spec => OutOnlyWhenDone
<1>1. IInv /\ [Next]_vars =>
        [\A w \in Worker : pc[w] = "idle" /\ pc'[w] = "end" => below = {}]_vars
  <2> SUFFICES ASSUME IInv, Next, NEW w \in Worker, pc[w] = "idle", pc'[w] = "end"
               PROVE  below = {}
    OBVIOUS
  <2> USE DEF IInv
  <2>0. pc \in [Worker -> Location]
    BY DEF TypeOK
  <2>1. ASSUME NEW v \in Worker, NEW from, NEW to, Goto(v, from, to), to # "end"
        PROVE  FALSE
    <3>1. pc'[w] = IF w = v THEN to ELSE pc[w]
      BY <2>0, <2>1 DEF Goto
    <3> QED
      BY <2>1, <3>1
  <2>2. ASSUME NEW v \in Worker, Finish(v) PROVE below = {}
    BY <2>2, RootFullNobodyBelow DEF Finish
  <2>3. ASSUME pc' = pc PROVE FALSE
    BY <2>3
  <2>4. ASSUME NEW v \in Worker, FirstTime(v) PROVE FALSE
    BY <2>1, <2>4 DEF FirstTime, Arrive, TeamPresent, ReceiveGoal, SeeGoal, Wake,
                      EnlistRead, Enlist, PutInFinished, Join
  <2>5. ASSUME NEW v \in Worker, YaporStart(v) PROVE FALSE
    BY <2>1, <2>5 DEF YaporStart, StartIdleRead, StartIdle, StartRoot, StartFree,
                      StartFreeRead, StartFreeInsert, StartUnlock
  <2>6. ASSUME NEW v \in Worker, Schedule(v) PROVE below = {}
    BY <2>1, <2>2, <2>3, <2>6
    DEF Schedule, Exhaust, OutRoot, PutIdleRead, PutIdle, ReadIdle, WriteIdle, RefuseIfAny,
        MoveUp, Resume, EnterRoot, Refused, PutBusyRead, PutBusy
  <2>7. ASSUME NEW v \in Worker, NEW p \in Worker, Ask(v, p) \/ Refuse(v, p) \/ Share(v, p)
        PROVE  FALSE
    BY <2>1, <2>3, <2>7 DEF Ask, Refuse, Share
  <2> QED
    BY <2>3, <2>4, <2>5, <2>6, <2>7 DEF Next, Step, AtRest, vars
<1> QED
  BY <1>1, Invariant, PTL DEF Spec, OutOnlyWhenDone
=============================================================================
