------------------------- MODULE WorkSharingProofs --------------------------
(***************************************************************************)
(* Proofs about WorkSharing, for any set of workers and of versions: type  *)
(* correctness, an inductive invariant of the whole handshake from which   *)
(* the safety properties follow, and the refinement of WorkExchange.       *)
(***************************************************************************)
EXTENDS WorkSharing, TLAPS

(***************************************************************************)
(* The inductive invariant.                                                *)
(***************************************************************************)

\* q's request has been accepted and q has not released its partner yet.
Accepted(q) ==
  \/ pc[q] \in QCopying
  \/ pc[q] = "q_wait" /\ reply_signal[q] \in {sharing, nodes_shared, copy_done}

\* p has an unanswered request.
MayBeAsked == {"run", "p_ready", "gw_wait", "gw_idle", "gw_refuse"}

\* Which bitmap bits and which share_request go with each location.
LocationInv ==
  \A w \in Worker :
    /\ pc[w] \in {"run", "p_refuse"} \cup PSharing => w \notin idle
    /\ pc[w] \in PSharing \cup {"p_refuse", "gw_refuse_end"} => share_request[w] # Nobody
    /\ share_request[w] # Nobody =>
         pc[w] \in MayBeAsked \cup PSharing \cup {"p_refuse", "gw_refuse_end"}
    /\ pc[w] \notin {"run", "p_refuse", "gw_wait", "gw_idle"} \cup PSharing => w \in idle
    /\ w \in root => pc[w] \in {"idle", "q_lock", "end"} \cup (QAsking \ {"q_release"})
    /\ pc[w] = "end" => root = Worker

\* A request and the worker that made it point at each other until it is
\* answered; nobody else's signal is anything but worker_ready.
RequestInv ==
  \A w \in Worker :
    /\ share_request[w] # Nobody /\ pc[w] \in MayBeAsked =>
         LET q == share_request[w] IN
         /\ pc[q] = "q_wait" /\ partner[q] = w /\ reply_signal[q] = worker_ready
         /\ pc[w] = "p_ready" =>
              partner[w] = q /\ p_fase[q] = P_idle /\ q_fase[q] = Q_idle
    /\ pc[w] = "q_wait" /\ reply_signal[w] = worker_ready =>
         share_request[partner[w]] = w /\ pc[partner[w]] \in MayBeAsked
    /\ pc[w] \notin PCopying \cup PWaiting \cup QAsking \cup {"q_ready"} =>
         reply_signal[w] = worker_ready
    /\ pc[w] = "q_ready" => reply_signal[w] = copy_done

\* What p has told q, by where p is.
Told(at) ==
  IF at \in {"p_nodes", "p_shared"} THEN sharing
  ELSE IF at \in PWaiting THEN copy_done ELSE nodes_shared

\* Two workers that share are each other's partner and know how far the
\* other is.
PairInv ==
  \A w \in Worker :
    /\ pc[w] \in PCopying \cup PWaiting => share_request[w] = partner[w]
    /\ pc[w] \in PCopying => Accepted(partner[w]) /\ partner[partner[w]] = w
    /\ pc[w] \in PWaiting /\ reply_signal[w] # worker_ready =>
         Accepted(partner[w]) /\ partner[partner[w]] = w
    /\ Accepted(w) =>
         LET p == partner[w] IN
         /\ pc[p] \in PCopying \cup PWaiting
         /\ partner[p] = w
         /\ reply_signal[w] = Told(pc[p])
         /\ reply_signal[p] = IF pc[w] \in {"q_wait_done", "q_release"}
                              THEN copy_done ELSE sharing
         /\ pc[w] = "q_release" => reply_signal[w] = copy_done

\* The phases say who has claimed what, by where p and q are.
PhaseInv ==
  \A q \in Worker : Accepted(q) =>
    LET p == partner[q] IN
    /\ q_fase[q] < p_fase[q]
    /\ pc[q] \in {"q_wait", "q_trail"} => q_fase[q] = Q_idle
    /\ pc[q] \in {"q_copy_trail", "q_global"} => q_fase[q] = trail
    /\ pc[q] \in {"q_copy_global", "q_local"} => q_fase[q] = global
    /\ pc[q] = "q_copy_local" => q_fase[q] = local /\ reply_signal[q] # sharing
    /\ pc[p] \in {"p_nodes", "p_shared", "p_local"} => p_fase[q] = P_idle
    /\ pc[p] \in {"p_copy_local", "p_global"} => p_fase[q] = local
    /\ pc[p] \in {"p_copy_global", "p_trail"} => p_fase[q] = global
    /\ pc[p] = "p_copy_trail" => p_fase[q] = trail
    /\ pc[q] \in {"q_sync", "q_wait_done", "q_release"} \/ pc[p] \in {"p_sync"} \cup PWaiting =>
         p_fase[q] = q_fase[q] + 1

QCopies(s) == CASE s = trail -> "q_copy_trail" [] s = global -> "q_copy_global"
                [] s = local -> "q_copy_local"
PCopies(s) == CASE s = trail -> "p_copy_trail" [] s = global -> "p_copy_global"
                [] s = local -> "p_copy_local"

\* A segment that has been claimed and is not being copied any more is p's.
DataInv ==
  \A q \in Worker : Accepted(q) =>
    LET p == partner[q] IN
    /\ pc[p] # "p_nodes" => public[p]
    /\ \A s \in Segment :
         \/ s <= q_fase[q] /\ pc[q] # QCopies(s)
         \/ p_fase[q] <= s /\ pc[p] # PCopies(s)
         => mem[q][s] = mem[p][s] /\ (s = local => public[q])

IInv == TypeOK /\ LocationInv /\ RequestInv /\ PairInv /\ PhaseInv /\ DataInv

-----------------------------------------------------------------------------
(***************************************************************************)
(* Type correctness.                                                       *)
(***************************************************************************)
LEMMA TypeInit == Init => TypeOK
  BY WorkerAssumption, VersionAssumption
  DEF Init, InitFor, TypeOK, Location, GetWork, Reply, no_sharing, sharing, nodes_shared, copy_done, worker_ready,
            Phase, Segment, Q_idle, trail, global, local, P_idle

LEMMA TypeStep == TypeOK /\ [Next]_vars => TypeOK'
<1> USE WorkerAssumption, VersionAssumption
<1> SUFFICES ASSUME TypeOK, [Next]_vars PROVE TypeOK'
  OBVIOUS
<1> USE DEF TypeOK, Location, GetWork, PSharing, PStart, PCopying, PWaiting,
            QAsking, QCopying, QAfter, Goto, stacks, bitmaps, signals,
            Reply, no_sharing, sharing, nodes_shared, copy_done, worker_ready,
            Phase, Segment, Q_idle, trail, global, local, P_idle
<1>1. ASSUME NEW w \in Worker, Run(w) PROVE TypeOK'
  BY <1>1 DEF Run
<1>2. ASSUME NEW w \in Worker, Fail(w) PROVE TypeOK'
  BY <1>2 DEF Fail
<1>3. ASSUME NEW w \in Worker, P_Refuse(w) PROVE TypeOK'
  BY <1>3 DEF P_Refuse
<1>4. ASSUME NEW w \in Worker, P_Accept(w) PROVE TypeOK'
  BY <1>4 DEF P_Accept
<1>5. ASSUME NEW w \in Worker, P_RefuseEnd(w) PROVE TypeOK'
  BY <1>5 DEF P_RefuseEnd
<1>6. ASSUME NEW w \in Worker, P_Start(w) PROVE TypeOK'
  BY <1>6 DEF P_Start
<1>7. ASSUME NEW w \in Worker, P_ShareNodes(w) PROVE TypeOK'
  BY <1>7 DEF P_ShareNodes
<1>8. ASSUME NEW w \in Worker, P_NodesShared(w) PROVE TypeOK'
  BY <1>8 DEF P_NodesShared
<1>9. ASSUME NEW w \in Worker, P_ClaimLocal(w) PROVE TypeOK'
  BY <1>9 DEF P_ClaimLocal, P_Claim
<1>10. ASSUME NEW w \in Worker, P_CopyLocal(w) PROVE TypeOK'
  BY <1>10 DEF P_CopyLocal, P_Copy, CopySegment
<1>11. ASSUME NEW w \in Worker, P_ClaimGlobal(w) PROVE TypeOK'
  BY <1>11 DEF P_ClaimGlobal, P_Claim
<1>12. ASSUME NEW w \in Worker, P_CopyGlobal(w) PROVE TypeOK'
  BY <1>12 DEF P_CopyGlobal, P_Copy, CopySegment
<1>13. ASSUME NEW w \in Worker, P_ClaimTrail(w) PROVE TypeOK'
  BY <1>13 DEF P_ClaimTrail, P_Claim
<1>14. ASSUME NEW w \in Worker, P_CopyTrail(w) PROVE TypeOK'
  BY <1>14 DEF P_CopyTrail, P_Copy, CopySegment
<1>15. ASSUME NEW w \in Worker, P_CopyDone(w) PROVE TypeOK'
  BY <1>15 DEF P_CopyDone
<1>16. ASSUME NEW w \in Worker, P_WaitQ(w) PROVE TypeOK'
  BY <1>16 DEF P_WaitQ
<1>17. ASSUME NEW w \in Worker, P_Release(w) PROVE TypeOK'
  BY <1>17 DEF P_Release
<1>18. ASSUME NEW w \in Worker, FindLiveNode(w) PROVE TypeOK'
  BY <1>18 DEF FindLiveNode
<1>19. ASSUME NEW w \in Worker, NoLiveNode(w) PROVE TypeOK'
  BY <1>19 DEF NoLiveNode
<1>20. ASSUME NEW w \in Worker, PutIdle(w) PROVE TypeOK'
  BY <1>20 DEF PutIdle
<1>21. ASSUME NEW w \in Worker, RefuseIfAny(w) PROVE TypeOK'
  BY <1>21 DEF RefuseIfAny
<1>22. ASSUME NEW w \in Worker, RefuseEnd(w) PROVE TypeOK'
  BY <1>22 DEF RefuseEnd
<1>23. ASSUME NEW w \in Worker, EnterRoot(w) PROVE TypeOK'
  BY <1>23 DEF EnterRoot
<1>24. ASSUME NEW w \in Worker, Finish(w) PROVE TypeOK'
  BY <1>24 DEF Finish
<1>25. ASSUME NEW w \in Worker, ResumeBelowRoot(w) PROVE TypeOK'
  BY <1>25 DEF ResumeBelowRoot
<1>26. ASSUME NEW w \in Worker, NEW p \in Worker, ChooseVictim(w, p) PROVE TypeOK'
  BY <1>26 DEF ChooseVictim
<1>27. ASSUME NEW w \in Worker, Q_NoRequest(w) PROVE TypeOK'
  BY <1>27 DEF Q_NoRequest
<1>28. ASSUME NEW w \in Worker, Q_Request(w) PROVE TypeOK'
  BY <1>28 DEF Q_Request
<1>29. ASSUME NEW w \in Worker, Q_Refused(w) PROVE TypeOK'
  BY <1>29 DEF Q_Refused
<1>30. ASSUME NEW w \in Worker, Q_Accepted(w) PROVE TypeOK'
  BY <1>30 DEF Q_Accepted
<1>31. ASSUME NEW w \in Worker, Q_ClaimTrail(w) PROVE TypeOK'
  BY <1>31 DEF Q_ClaimTrail, Q_Claim
<1>32. ASSUME NEW w \in Worker, Q_CopyTrail(w) PROVE TypeOK'
  BY <1>32 DEF Q_CopyTrail, Q_Copy, CopySegment
<1>33. ASSUME NEW w \in Worker, Q_ClaimGlobal(w) PROVE TypeOK'
  BY <1>33 DEF Q_ClaimGlobal, Q_Claim
<1>34. ASSUME NEW w \in Worker, Q_CopyGlobal(w) PROVE TypeOK'
  BY <1>34 DEF Q_CopyGlobal, Q_Copy, CopySegment
<1>35. ASSUME NEW w \in Worker, Q_ClaimLocal(w) PROVE TypeOK'
  BY <1>35 DEF Q_ClaimLocal, Q_Claim
<1>36. ASSUME NEW w \in Worker, Q_CopyLocal(w) PROVE TypeOK'
  BY <1>36 DEF Q_CopyLocal, Q_Copy, CopySegment
<1>37. ASSUME NEW w \in Worker, Q_CopyDone(w) PROVE TypeOK'
  BY <1>37 DEF Q_CopyDone
<1>38. ASSUME NEW w \in Worker, Q_OutOfRoot(w) PROVE TypeOK'
  BY <1>38 DEF Q_OutOfRoot
<1>39. ASSUME NEW w \in Worker, Q_ReleaseP(w) PROVE TypeOK'
  BY <1>39 DEF Q_ReleaseP
<1>40. ASSUME NEW w \in Worker, Q_Ready(w) PROVE TypeOK'
  BY <1>40 DEF Q_Ready
<1>41. ASSUME NEW w \in Worker, PutBusy(w) PROVE TypeOK'
  BY <1>41 DEF PutBusy
<1>42. CASE Over
  BY <1>42 DEF Over, vars
<1>43. CASE UNCHANGED vars
  BY <1>43 DEF vars
<1> QED
  BY <1>1, <1>2, <1>3, <1>4, <1>5, <1>6, <1>7, <1>8, <1>9, <1>10, <1>11,
     <1>12, <1>13, <1>14, <1>15, <1>16, <1>17, <1>18, <1>19, <1>20, <1>21,
     <1>22, <1>23, <1>24, <1>25, <1>26, <1>27, <1>28, <1>29, <1>30, <1>31,
     <1>32, <1>33, <1>34, <1>35, <1>36, <1>37, <1>38, <1>39, <1>40, <1>41,
     <1>42, <1>43
  DEF Next, CheckRequests, PStep, QStep, GetWorkStep

\* Every variable keeps to its type: no signal, phase, partner or bitmap bit
\* of the sharing handshake is ever out of range.
THEOREM TypeCorrect == Spec => []TypeOK
<1>1. Init => TypeOK
  BY TypeInit
<1>2. TypeOK /\ [Next]_vars => TypeOK'
  BY TypeStep
<1> QED
  BY <1>1, <1>2, PTL DEF Spec

-----------------------------------------------------------------------------
(***************************************************************************)
(* The inductive invariant is one.                                         *)
(***************************************************************************)
LEMMA InvInit == Init => IInv
<1> SUFFICES ASSUME Init PROVE IInv
  OBVIOUS
<1>1. TypeOK
  BY TypeInit
<1> QED
  BY <1>1, WorkerAssumption
  DEF Init, InitFor, IInv, LocationInv, RequestInv, PairInv, PhaseInv, DataInv,
      Accepted, MayBeAsked, PSharing, PStart, PCopying, PWaiting, QAsking,
      QCopying, Reply, no_sharing, sharing, nodes_shared, copy_done, worker_ready,
            Phase, Segment, Q_idle, trail, global, local, P_idle

\* A step keeps each conjunct of the invariant, action by action.
LEMMA InvStep == IInv /\ [Next]_vars => IInv'
<1> USE WorkerAssumption
<1> SUFFICES ASSUME IInv, [Next]_vars PROVE IInv'
  OBVIOUS
<1>t. TypeOK'
  BY TypeStep DEF IInv
<1> USE DEF IInv, TypeOK, Accepted, Told, MayBeAsked, Location, GetWork,
            PSharing, PStart, PCopying, PWaiting, QAsking, QCopying, QAfter,
            Goto, stacks, bitmaps, signals,
            Reply, no_sharing, sharing, nodes_shared, copy_done, worker_ready,
            Phase, Segment, Q_idle, trail, global, local, P_idle
<1>1. ASSUME NEW w \in Worker, Run(w) PROVE IInv'
  <2> USE <1>1 DEF Run
  <2>1. LocationInv'
    BY DEF LocationInv, RequestInv, PairInv
  <2>2. RequestInv'
    BY DEF LocationInv, RequestInv, PairInv
  <2>3. PairInv'
    BY DEF LocationInv, RequestInv, PairInv
  <2>4. PhaseInv'
    BY DEF RequestInv, PairInv, PhaseInv
  <2>5. DataInv'
    BY DEF LocationInv, RequestInv, PairInv, PhaseInv, DataInv,
           QCopies, PCopies
  <2> QED
    BY <1>t, <2>1, <2>2, <2>3, <2>4, <2>5
<1>2. ASSUME NEW w \in Worker, Fail(w) PROVE IInv'
  <2> USE <1>2 DEF Fail
  <2>1. LocationInv'
    BY DEF LocationInv, RequestInv, PairInv
  <2>2. RequestInv'
    BY DEF LocationInv, RequestInv, PairInv
  <2>3. PairInv'
    BY DEF LocationInv, RequestInv, PairInv
  <2>4. PhaseInv'
    BY DEF RequestInv, PairInv, PhaseInv
  <2>5. DataInv'
    BY DEF LocationInv, RequestInv, PairInv, PhaseInv, DataInv,
           QCopies, PCopies
  <2> QED
    BY <1>t, <2>1, <2>2, <2>3, <2>4, <2>5
<1>3. ASSUME NEW w \in Worker, P_Refuse(w) PROVE IInv'
  <2> USE <1>3 DEF P_Refuse
  <2>1. LocationInv'
    BY DEF LocationInv, RequestInv, PairInv
  <2>2. RequestInv'
    BY DEF LocationInv, RequestInv, PairInv
  <2>3. PairInv'
    BY DEF LocationInv, RequestInv, PairInv
  <2>4. PhaseInv'
    BY DEF RequestInv, PairInv, PhaseInv
  <2>5. DataInv'
    BY DEF LocationInv, RequestInv, PairInv, PhaseInv, DataInv,
           QCopies, PCopies
  <2> QED
    BY <1>t, <2>1, <2>2, <2>3, <2>4, <2>5
<1>4. ASSUME NEW w \in Worker, P_Accept(w) PROVE IInv'
  <2> USE <1>4 DEF P_Accept
  <2>1. LocationInv'
    BY DEF LocationInv, RequestInv, PairInv
  <2>2. RequestInv'
    BY SMTT(60) DEF LocationInv, RequestInv, PairInv
  <2>3. PairInv'
    BY DEF LocationInv, RequestInv, PairInv
  <2>4. PhaseInv'
    BY DEF RequestInv, PairInv, PhaseInv
  <2>5. DataInv'
    BY SMTT(60) DEF LocationInv, RequestInv, PairInv, PhaseInv, DataInv,
           QCopies, PCopies
  <2> QED
    BY <1>t, <2>1, <2>2, <2>3, <2>4, <2>5
<1>5. ASSUME NEW w \in Worker, P_RefuseEnd(w) PROVE IInv'
  <2> USE <1>5 DEF P_RefuseEnd
  <2>1. LocationInv'
    BY DEF LocationInv, RequestInv, PairInv
  <2>2. RequestInv'
    BY DEF LocationInv, RequestInv, PairInv
  <2>3. PairInv'
    BY DEF LocationInv, RequestInv, PairInv
  <2>4. PhaseInv'
    BY DEF RequestInv, PairInv, PhaseInv
  <2>5. DataInv'
    <3>1. ASSUME NEW q \in Worker, Accepted(q)'
          PROVE  Accepted(q) /\ partner[q] # w
      BY <3>1 DEF PairInv
    <3> QED
      BY <3>1 DEF PairInv, DataInv, QCopies, PCopies
  <2> QED
    BY <1>t, <2>1, <2>2, <2>3, <2>4, <2>5
<1>6. ASSUME NEW w \in Worker, P_Start(w) PROVE IInv'
  <2> USE <1>6 DEF P_Start
  <2>1. LocationInv'
    BY DEF LocationInv, RequestInv, PairInv
  <2>2. RequestInv'
    BY DEF LocationInv, RequestInv, PairInv
  <2>3. PairInv'
    BY DEF LocationInv, RequestInv, PairInv
  <2>4. PhaseInv'
    <3>1. pc[partner[w]] = "q_wait" /\ partner[partner[w]] = w
      BY DEF RequestInv, PairInv, LocationInv, PSharing, PStart, PCopying, PWaiting
    <3>2. ASSUME NEW q \in Worker, Accepted(q)', q # partner[w]
          PROVE  Accepted(q) /\ partner[q] # w
      BY <3>2 DEF Accepted, PairInv, PStart, PCopying, PWaiting, QCopying
    <3>3. p_fase[partner[w]] = P_idle /\ q_fase[partner[w]] = Q_idle
      BY DEF RequestInv, LocationInv, PSharing, PStart
    <3> QED
      BY <3>1, <3>2, <3>3 DEF PhaseInv
  <2>5. DataInv'
    BY DEF LocationInv, RequestInv, PairInv, PhaseInv, DataInv,
           QCopies, PCopies
  <2> QED
    BY <1>t, <2>1, <2>2, <2>3, <2>4, <2>5
<1>7. ASSUME NEW w \in Worker, P_ShareNodes(w) PROVE IInv'
  <2> USE <1>7 DEF P_ShareNodes
  <2>1. LocationInv'
    BY DEF LocationInv, RequestInv, PairInv
  <2>2. RequestInv'
    BY DEF LocationInv, RequestInv, PairInv
  <2>3. PairInv'
    BY DEF LocationInv, RequestInv, PairInv
  <2>4. PhaseInv'
    BY DEF RequestInv, PairInv, PhaseInv
  <2>5. DataInv'
    BY DEF LocationInv, RequestInv, PairInv, PhaseInv, DataInv,
           QCopies, PCopies
  <2> QED
    BY <1>t, <2>1, <2>2, <2>3, <2>4, <2>5
<1>8. ASSUME NEW w \in Worker, P_NodesShared(w) PROVE IInv'
  <2> USE <1>8 DEF P_NodesShared
  <2>1. LocationInv'
    BY DEF LocationInv, RequestInv, PairInv
  <2>2. RequestInv'
    BY DEF LocationInv, RequestInv, PairInv
  <2>3. PairInv'
    BY DEF LocationInv, RequestInv, PairInv
  <2>4. PhaseInv'
    BY DEF RequestInv, PairInv, PhaseInv
  <2>5. DataInv'
    BY DEF LocationInv, RequestInv, PairInv, PhaseInv, DataInv,
           QCopies, PCopies
  <2> QED
    BY <1>t, <2>1, <2>2, <2>3, <2>4, <2>5
<1>9. ASSUME NEW w \in Worker, P_ClaimLocal(w) PROVE IInv'
  <2> USE <1>9 DEF P_ClaimLocal, P_Claim
  <2>1. LocationInv'
    BY DEF LocationInv, RequestInv, PairInv
  <2>2. RequestInv'
    BY DEF LocationInv, RequestInv, PairInv
  <2>3. PairInv'
    BY DEF LocationInv, RequestInv, PairInv
  <2>4. PhaseInv'
    BY DEF RequestInv, PairInv, PhaseInv
  <2>5. DataInv'
    BY DEF LocationInv, RequestInv, PairInv, PhaseInv, DataInv,
           QCopies, PCopies
  <2> QED
    BY <1>t, <2>1, <2>2, <2>3, <2>4, <2>5
<1>10. ASSUME NEW w \in Worker, P_CopyLocal(w) PROVE IInv'
  <2> USE <1>10 DEF P_CopyLocal, P_Copy, CopySegment
  <2>1. LocationInv'
    BY DEF LocationInv, RequestInv, PairInv
  <2>2. RequestInv'
    BY DEF LocationInv, RequestInv, PairInv
  <2>3. PairInv'
    BY DEF LocationInv, RequestInv, PairInv
  <2>4. PhaseInv'
    BY DEF RequestInv, PairInv, PhaseInv
  <2>5. DataInv'
    BY DEF LocationInv, RequestInv, PairInv, PhaseInv, DataInv,
           QCopies, PCopies
  <2> QED
    BY <1>t, <2>1, <2>2, <2>3, <2>4, <2>5
<1>11. ASSUME NEW w \in Worker, P_ClaimGlobal(w) PROVE IInv'
  <2> USE <1>11 DEF P_ClaimGlobal, P_Claim
  <2>1. LocationInv'
    BY DEF LocationInv, RequestInv, PairInv
  <2>2. RequestInv'
    BY DEF LocationInv, RequestInv, PairInv
  <2>3. PairInv'
    BY DEF LocationInv, RequestInv, PairInv
  <2>4. PhaseInv'
    BY DEF RequestInv, PairInv, PhaseInv
  <2>5. DataInv'
    BY DEF LocationInv, RequestInv, PairInv, PhaseInv, DataInv,
           QCopies, PCopies
  <2> QED
    BY <1>t, <2>1, <2>2, <2>3, <2>4, <2>5
<1>12. ASSUME NEW w \in Worker, P_CopyGlobal(w) PROVE IInv'
  <2> USE <1>12 DEF P_CopyGlobal, P_Copy, CopySegment
  <2>1. LocationInv'
    BY DEF LocationInv, RequestInv, PairInv
  <2>2. RequestInv'
    BY DEF LocationInv, RequestInv, PairInv
  <2>3. PairInv'
    BY DEF LocationInv, RequestInv, PairInv
  <2>4. PhaseInv'
    BY DEF RequestInv, PairInv, PhaseInv
  <2>5. DataInv'
    BY DEF LocationInv, RequestInv, PairInv, PhaseInv, DataInv,
           QCopies, PCopies
  <2> QED
    BY <1>t, <2>1, <2>2, <2>3, <2>4, <2>5
<1>13. ASSUME NEW w \in Worker, P_ClaimTrail(w) PROVE IInv'
  <2> USE <1>13 DEF P_ClaimTrail, P_Claim
  <2>1. LocationInv'
    BY DEF LocationInv, RequestInv, PairInv
  <2>2. RequestInv'
    BY DEF LocationInv, RequestInv, PairInv
  <2>3. PairInv'
    BY DEF LocationInv, RequestInv, PairInv
  <2>4. PhaseInv'
    BY DEF RequestInv, PairInv, PhaseInv
  <2>5. DataInv'
    BY DEF LocationInv, RequestInv, PairInv, PhaseInv, DataInv,
           QCopies, PCopies
  <2> QED
    BY <1>t, <2>1, <2>2, <2>3, <2>4, <2>5
<1>14. ASSUME NEW w \in Worker, P_CopyTrail(w) PROVE IInv'
  <2> USE <1>14 DEF P_CopyTrail, P_Copy, CopySegment
  <2>1. LocationInv'
    BY DEF LocationInv, RequestInv, PairInv
  <2>2. RequestInv'
    BY DEF LocationInv, RequestInv, PairInv
  <2>3. PairInv'
    BY DEF LocationInv, RequestInv, PairInv
  <2>4. PhaseInv'
    BY DEF RequestInv, PairInv, PhaseInv
  <2>5. DataInv'
    BY DEF LocationInv, RequestInv, PairInv, PhaseInv, DataInv,
           QCopies, PCopies
  <2> QED
    BY <1>t, <2>1, <2>2, <2>3, <2>4, <2>5
<1>15. ASSUME NEW w \in Worker, P_CopyDone(w) PROVE IInv'
  <2> USE <1>15 DEF P_CopyDone
  <2>1. LocationInv'
    BY DEF LocationInv, RequestInv, PairInv
  <2>2. RequestInv'
    BY DEF LocationInv, RequestInv, PairInv
  <2>3. PairInv'
    BY DEF LocationInv, RequestInv, PairInv
  <2>4. PhaseInv'
    BY DEF RequestInv, PairInv, PhaseInv
  <2>5. DataInv'
    BY DEF LocationInv, RequestInv, PairInv, PhaseInv, DataInv,
           QCopies, PCopies
  <2> QED
    BY <1>t, <2>1, <2>2, <2>3, <2>4, <2>5
<1>16. ASSUME NEW w \in Worker, P_WaitQ(w) PROVE IInv'
  <2> USE <1>16 DEF P_WaitQ
  <2>1. LocationInv'
    BY DEF LocationInv, RequestInv, PairInv
  <2>2. RequestInv'
    BY DEF LocationInv, RequestInv, PairInv
  <2>3. PairInv'
    BY DEF LocationInv, RequestInv, PairInv
  <2>4. PhaseInv'
    BY DEF RequestInv, PairInv, PhaseInv
  <2>5. DataInv'
    BY DEF LocationInv, RequestInv, PairInv, PhaseInv, DataInv,
           QCopies, PCopies
  <2> QED
    BY <1>t, <2>1, <2>2, <2>3, <2>4, <2>5
<1>17. ASSUME NEW w \in Worker, P_Release(w) PROVE IInv'
  <2> USE <1>17 DEF P_Release
  <2>1. LocationInv'
    BY DEF LocationInv, RequestInv, PairInv
  <2>2. RequestInv'
    BY DEF LocationInv, RequestInv, PairInv
  <2>3. PairInv'
    BY DEF LocationInv, RequestInv, PairInv
  <2>4. PhaseInv'
    BY DEF RequestInv, PairInv, PhaseInv
  <2>5. DataInv'
    BY DEF LocationInv, RequestInv, PairInv, PhaseInv, DataInv,
           QCopies, PCopies
  <2> QED
    BY <1>t, <2>1, <2>2, <2>3, <2>4, <2>5
<1>18. ASSUME NEW w \in Worker, FindLiveNode(w) PROVE IInv'
  <2> USE <1>18 DEF FindLiveNode
  <2>1. LocationInv'
    BY DEF LocationInv, RequestInv, PairInv
  <2>2. RequestInv'
    BY DEF LocationInv, RequestInv, PairInv
  <2>3. PairInv'
    BY DEF LocationInv, RequestInv, PairInv
  <2>4. PhaseInv'
    BY DEF RequestInv, PairInv, PhaseInv
  <2>5. DataInv'
    BY DEF LocationInv, RequestInv, PairInv, PhaseInv, DataInv,
           QCopies, PCopies
  <2> QED
    BY <1>t, <2>1, <2>2, <2>3, <2>4, <2>5
<1>19. ASSUME NEW w \in Worker, NoLiveNode(w) PROVE IInv'
  <2> USE <1>19 DEF NoLiveNode
  <2>1. LocationInv'
    BY DEF LocationInv, RequestInv, PairInv
  <2>2. RequestInv'
    BY DEF LocationInv, RequestInv, PairInv
  <2>3. PairInv'
    BY DEF LocationInv, RequestInv, PairInv
  <2>4. PhaseInv'
    BY DEF RequestInv, PairInv, PhaseInv
  <2>5. DataInv'
    BY DEF LocationInv, RequestInv, PairInv, PhaseInv, DataInv,
           QCopies, PCopies
  <2> QED
    BY <1>t, <2>1, <2>2, <2>3, <2>4, <2>5
<1>20. ASSUME NEW w \in Worker, PutIdle(w) PROVE IInv'
  <2> USE <1>20 DEF PutIdle
  <2>1. LocationInv'
    BY DEF LocationInv, RequestInv, PairInv
  <2>2. RequestInv'
    BY DEF LocationInv, RequestInv, PairInv
  <2>3. PairInv'
    BY DEF LocationInv, RequestInv, PairInv
  <2>4. PhaseInv'
    BY DEF RequestInv, PairInv, PhaseInv
  <2>5. DataInv'
    BY DEF LocationInv, RequestInv, PairInv, PhaseInv, DataInv,
           QCopies, PCopies
  <2> QED
    BY <1>t, <2>1, <2>2, <2>3, <2>4, <2>5
<1>21. ASSUME NEW w \in Worker, RefuseIfAny(w) PROVE IInv'
  <2> USE <1>21 DEF RefuseIfAny
  <2>1. LocationInv'
    BY DEF LocationInv, RequestInv, PairInv
  <2>2. RequestInv'
    BY DEF LocationInv, RequestInv, PairInv
  <2>3. PairInv'
    BY DEF LocationInv, RequestInv, PairInv
  <2>4. PhaseInv'
    BY DEF RequestInv, PairInv, PhaseInv
  <2>5. DataInv'
    BY DEF LocationInv, RequestInv, PairInv, PhaseInv, DataInv,
           QCopies, PCopies
  <2> QED
    BY <1>t, <2>1, <2>2, <2>3, <2>4, <2>5
<1>22. ASSUME NEW w \in Worker, RefuseEnd(w) PROVE IInv'
  <2> USE <1>22 DEF RefuseEnd
  <2>1. LocationInv'
    BY DEF LocationInv, RequestInv, PairInv
  <2>2. RequestInv'
    BY DEF LocationInv, RequestInv, PairInv
  <2>3. PairInv'
    BY DEF LocationInv, RequestInv, PairInv
  <2>4. PhaseInv'
    BY DEF RequestInv, PairInv, PhaseInv
  <2>5. DataInv'
    BY DEF LocationInv, RequestInv, PairInv, PhaseInv, DataInv,
           QCopies, PCopies
  <2> QED
    BY <1>t, <2>1, <2>2, <2>3, <2>4, <2>5
<1>23. ASSUME NEW w \in Worker, EnterRoot(w) PROVE IInv'
  <2> USE <1>23 DEF EnterRoot
  <2>1. LocationInv'
    BY DEF LocationInv, RequestInv, PairInv
  <2>2. RequestInv'
    BY DEF LocationInv, RequestInv, PairInv
  <2>3. PairInv'
    BY DEF LocationInv, RequestInv, PairInv
  <2>4. PhaseInv'
    BY DEF RequestInv, PairInv, PhaseInv
  <2>5. DataInv'
    BY DEF LocationInv, RequestInv, PairInv, PhaseInv, DataInv,
           QCopies, PCopies
  <2> QED
    BY <1>t, <2>1, <2>2, <2>3, <2>4, <2>5
<1>24. ASSUME NEW w \in Worker, Finish(w) PROVE IInv'
  <2> USE <1>24 DEF Finish
  <2>1. LocationInv'
    BY DEF LocationInv, RequestInv, PairInv
  <2>2. RequestInv'
    BY DEF LocationInv, RequestInv, PairInv
  <2>3. PairInv'
    BY DEF LocationInv, RequestInv, PairInv
  <2>4. PhaseInv'
    BY DEF RequestInv, PairInv, PhaseInv
  <2>5. DataInv'
    BY DEF LocationInv, RequestInv, PairInv, PhaseInv, DataInv,
           QCopies, PCopies
  <2> QED
    BY <1>t, <2>1, <2>2, <2>3, <2>4, <2>5
<1>25. ASSUME NEW w \in Worker, ResumeBelowRoot(w) PROVE IInv'
  <2> USE <1>25 DEF ResumeBelowRoot
  <2>1. LocationInv'
    BY DEF LocationInv, RequestInv, PairInv
  <2>2. RequestInv'
    BY DEF LocationInv, RequestInv, PairInv
  <2>3. PairInv'
    BY DEF LocationInv, RequestInv, PairInv
  <2>4. PhaseInv'
    BY DEF RequestInv, PairInv, PhaseInv
  <2>5. DataInv'
    BY DEF LocationInv, RequestInv, PairInv, PhaseInv, DataInv,
           QCopies, PCopies
  <2> QED
    BY <1>t, <2>1, <2>2, <2>3, <2>4, <2>5
<1>26. ASSUME NEW w \in Worker, NEW p \in Worker, ChooseVictim(w, p) PROVE IInv'
  <2> USE <1>26 DEF ChooseVictim
  <2>1. LocationInv'
    BY DEF LocationInv, RequestInv, PairInv
  <2>2. RequestInv'
    BY DEF LocationInv, RequestInv, PairInv
  <2>3. PairInv'
    BY DEF LocationInv, RequestInv, PairInv
  <2>4. PhaseInv'
    BY DEF RequestInv, PairInv, PhaseInv
  <2>5. DataInv'
    BY DEF LocationInv, RequestInv, PairInv, PhaseInv, DataInv,
           QCopies, PCopies
  <2> QED
    BY <1>t, <2>1, <2>2, <2>3, <2>4, <2>5
<1>27. ASSUME NEW w \in Worker, Q_NoRequest(w) PROVE IInv'
  <2> USE <1>27 DEF Q_NoRequest
  <2>1. LocationInv'
    BY DEF LocationInv, RequestInv, PairInv
  <2>2. RequestInv'
    BY DEF LocationInv, RequestInv, PairInv
  <2>3. PairInv'
    BY SMTT(30) DEF LocationInv, RequestInv, PairInv
  <2>4. PhaseInv'
    BY DEF RequestInv, PairInv, PhaseInv
  <2>5. DataInv'
    BY DEF LocationInv, RequestInv, PairInv, PhaseInv, DataInv,
           QCopies, PCopies
  <2> QED
    BY <1>t, <2>1, <2>2, <2>3, <2>4, <2>5
<1>28. ASSUME NEW w \in Worker, Q_Request(w) PROVE IInv'
  <2> USE <1>28 DEF Q_Request
  <2>1. LocationInv'
    BY DEF LocationInv, RequestInv, PairInv
  <2>2. RequestInv'
    BY DEF LocationInv, RequestInv, PairInv
  <2>3. PairInv'
    BY DEF LocationInv, RequestInv, PairInv
  <2>4. PhaseInv'
    BY DEF RequestInv, PairInv, PhaseInv
  <2>5. DataInv'
    BY DEF LocationInv, RequestInv, PairInv, PhaseInv, DataInv,
           QCopies, PCopies
  <2> QED
    BY <1>t, <2>1, <2>2, <2>3, <2>4, <2>5
<1>29. ASSUME NEW w \in Worker, Q_Refused(w) PROVE IInv'
  <2> USE <1>29 DEF Q_Refused
  <2>1. LocationInv'
    BY DEF LocationInv, RequestInv, PairInv
  <2>2. RequestInv'
    BY DEF LocationInv, RequestInv, PairInv
  <2>3. PairInv'
    BY DEF LocationInv, RequestInv, PairInv
  <2>4. PhaseInv'
    BY DEF RequestInv, PairInv, PhaseInv
  <2>5. DataInv'
    BY DEF LocationInv, RequestInv, PairInv, PhaseInv, DataInv,
           QCopies, PCopies
  <2> QED
    BY <1>t, <2>1, <2>2, <2>3, <2>4, <2>5
<1>30. ASSUME NEW w \in Worker, Q_Accepted(w) PROVE IInv'
  <2> USE <1>30 DEF Q_Accepted
  <2>1. LocationInv'
    BY DEF LocationInv, RequestInv, PairInv
  <2>2. RequestInv'
    BY DEF LocationInv, RequestInv, PairInv
  <2>3. PairInv'
    BY DEF LocationInv, RequestInv, PairInv
  <2>4. PhaseInv'
    BY DEF RequestInv, PairInv, PhaseInv
  <2>5. DataInv'
    BY DEF LocationInv, RequestInv, PairInv, PhaseInv, DataInv,
           QCopies, PCopies
  <2> QED
    BY <1>t, <2>1, <2>2, <2>3, <2>4, <2>5
<1>31. ASSUME NEW w \in Worker, Q_ClaimTrail(w) PROVE IInv'
  <2> USE <1>31 DEF Q_ClaimTrail, Q_Claim
  <2>1. LocationInv'
    BY DEF LocationInv, RequestInv, PairInv
  <2>2. RequestInv'
    BY DEF LocationInv, RequestInv, PairInv
  <2>3. PairInv'
    BY DEF LocationInv, RequestInv, PairInv
  <2>4. PhaseInv'
    BY DEF RequestInv, PairInv, PhaseInv
  <2>5. DataInv'
    BY DEF LocationInv, RequestInv, PairInv, PhaseInv, DataInv,
           QCopies, PCopies
  <2> QED
    BY <1>t, <2>1, <2>2, <2>3, <2>4, <2>5
<1>32. ASSUME NEW w \in Worker, Q_CopyTrail(w) PROVE IInv'
  <2> USE <1>32 DEF Q_CopyTrail, Q_Copy, CopySegment
  <2>1. LocationInv'
    BY DEF LocationInv, RequestInv, PairInv
  <2>2. RequestInv'
    BY DEF LocationInv, RequestInv, PairInv
  <2>3. PairInv'
    BY DEF LocationInv, RequestInv, PairInv
  <2>4. PhaseInv'
    BY DEF RequestInv, PairInv, PhaseInv
  <2>5. DataInv'
    BY DEF LocationInv, RequestInv, PairInv, PhaseInv, DataInv,
           QCopies, PCopies
  <2> QED
    BY <1>t, <2>1, <2>2, <2>3, <2>4, <2>5
<1>33. ASSUME NEW w \in Worker, Q_ClaimGlobal(w) PROVE IInv'
  <2> USE <1>33 DEF Q_ClaimGlobal, Q_Claim
  <2>1. LocationInv'
    BY DEF LocationInv, RequestInv, PairInv
  <2>2. RequestInv'
    BY DEF LocationInv, RequestInv, PairInv
  <2>3. PairInv'
    BY DEF LocationInv, RequestInv, PairInv
  <2>4. PhaseInv'
    BY DEF RequestInv, PairInv, PhaseInv
  <2>5. DataInv'
    BY DEF LocationInv, RequestInv, PairInv, PhaseInv, DataInv,
           QCopies, PCopies
  <2> QED
    BY <1>t, <2>1, <2>2, <2>3, <2>4, <2>5
<1>34. ASSUME NEW w \in Worker, Q_CopyGlobal(w) PROVE IInv'
  <2> USE <1>34 DEF Q_CopyGlobal, Q_Copy, CopySegment
  <2>1. LocationInv'
    BY DEF LocationInv, RequestInv, PairInv
  <2>2. RequestInv'
    BY DEF LocationInv, RequestInv, PairInv
  <2>3. PairInv'
    BY DEF LocationInv, RequestInv, PairInv
  <2>4. PhaseInv'
    BY DEF RequestInv, PairInv, PhaseInv
  <2>5. DataInv'
    BY DEF LocationInv, RequestInv, PairInv, PhaseInv, DataInv,
           QCopies, PCopies
  <2> QED
    BY <1>t, <2>1, <2>2, <2>3, <2>4, <2>5
<1>35. ASSUME NEW w \in Worker, Q_ClaimLocal(w) PROVE IInv'
  <2> USE <1>35 DEF Q_ClaimLocal, Q_Claim
  <2>1. LocationInv'
    BY DEF LocationInv, RequestInv, PairInv
  <2>2. RequestInv'
    BY DEF LocationInv, RequestInv, PairInv
  <2>3. PairInv'
    BY DEF LocationInv, RequestInv, PairInv
  <2>4. PhaseInv'
    BY DEF RequestInv, PairInv, PhaseInv
  <2>5. DataInv'
    BY DEF LocationInv, RequestInv, PairInv, PhaseInv, DataInv,
           QCopies, PCopies
  <2> QED
    BY <1>t, <2>1, <2>2, <2>3, <2>4, <2>5
<1>36. ASSUME NEW w \in Worker, Q_CopyLocal(w) PROVE IInv'
  <2> USE <1>36 DEF Q_CopyLocal, Q_Copy, CopySegment
  <2>1. LocationInv'
    BY DEF LocationInv, RequestInv, PairInv
  <2>2. RequestInv'
    BY DEF LocationInv, RequestInv, PairInv
  <2>3. PairInv'
    BY DEF LocationInv, RequestInv, PairInv
  <2>4. PhaseInv'
    BY DEF RequestInv, PairInv, PhaseInv
  <2>5. DataInv'
    BY DEF LocationInv, RequestInv, PairInv, PhaseInv, DataInv,
           QCopies, PCopies
  <2> QED
    BY <1>t, <2>1, <2>2, <2>3, <2>4, <2>5
<1>37. ASSUME NEW w \in Worker, Q_CopyDone(w) PROVE IInv'
  <2> USE <1>37 DEF Q_CopyDone
  <2>1. LocationInv'
    BY DEF LocationInv, RequestInv, PairInv
  <2>2. RequestInv'
    BY DEF LocationInv, RequestInv, PairInv
  <2>3. PairInv'
    BY DEF LocationInv, RequestInv, PairInv
  <2>4. PhaseInv'
    BY DEF RequestInv, PairInv, PhaseInv
  <2>5. DataInv'
    BY SMTT(60) DEF LocationInv, RequestInv, PairInv, PhaseInv, DataInv,
           QCopies, PCopies
  <2> QED
    BY <1>t, <2>1, <2>2, <2>3, <2>4, <2>5
<1>38. ASSUME NEW w \in Worker, Q_OutOfRoot(w) PROVE IInv'
  <2> USE <1>38 DEF Q_OutOfRoot
  <2>1. LocationInv'
    BY SMTT(30) DEF LocationInv, RequestInv, PairInv
  <2>2. RequestInv'
    BY DEF LocationInv, RequestInv, PairInv
  <2>3. PairInv'
    BY DEF LocationInv, RequestInv, PairInv
  <2>4. PhaseInv'
    BY DEF RequestInv, PairInv, PhaseInv
  <2>5. DataInv'
    BY DEF LocationInv, RequestInv, PairInv, PhaseInv, DataInv,
           QCopies, PCopies
  <2> QED
    BY <1>t, <2>1, <2>2, <2>3, <2>4, <2>5
<1>39. ASSUME NEW w \in Worker, Q_ReleaseP(w) PROVE IInv'
  <2> USE <1>39 DEF Q_ReleaseP
  <2>1. LocationInv'
    BY DEF LocationInv, RequestInv, PairInv
  <2>2. RequestInv'
    BY DEF LocationInv, RequestInv, PairInv
  <2>3. PairInv'
    BY DEF LocationInv, RequestInv, PairInv
  <2>4. PhaseInv'
    BY DEF RequestInv, PairInv, PhaseInv
  <2>5. DataInv'
    BY DEF LocationInv, RequestInv, PairInv, PhaseInv, DataInv,
           QCopies, PCopies
  <2> QED
    BY <1>t, <2>1, <2>2, <2>3, <2>4, <2>5
<1>40. ASSUME NEW w \in Worker, Q_Ready(w) PROVE IInv'
  <2> USE <1>40 DEF Q_Ready
  <2>1. LocationInv'
    BY DEF LocationInv, RequestInv, PairInv
  <2>2. RequestInv'
    BY DEF LocationInv, RequestInv, PairInv
  <2>3. PairInv'
    BY DEF LocationInv, RequestInv, PairInv
  <2>4. PhaseInv'
    BY DEF RequestInv, PairInv, PhaseInv
  <2>5. DataInv'
    BY DEF LocationInv, RequestInv, PairInv, PhaseInv, DataInv,
           QCopies, PCopies
  <2> QED
    BY <1>t, <2>1, <2>2, <2>3, <2>4, <2>5
<1>41. ASSUME NEW w \in Worker, PutBusy(w) PROVE IInv'
  <2> USE <1>41 DEF PutBusy
  <2>1. LocationInv'
    BY DEF LocationInv, RequestInv, PairInv
  <2>2. RequestInv'
    BY DEF LocationInv, RequestInv, PairInv
  <2>3. PairInv'
    BY DEF LocationInv, RequestInv, PairInv
  <2>4. PhaseInv'
    BY DEF RequestInv, PairInv, PhaseInv
  <2>5. DataInv'
    BY DEF LocationInv, RequestInv, PairInv, PhaseInv, DataInv,
           QCopies, PCopies
  <2> QED
    BY <1>t, <2>1, <2>2, <2>3, <2>4, <2>5
<1>42. CASE Over
  BY <1>42, <1>t DEF Over, vars, LocationInv, RequestInv, PairInv, PhaseInv, DataInv,
     QCopies, PCopies
<1>43. CASE UNCHANGED vars
  BY <1>43, <1>t DEF vars, LocationInv, RequestInv, PairInv, PhaseInv, DataInv,
     QCopies, PCopies
<1> QED
  BY <1>1, <1>2, <1>3, <1>4, <1>5, <1>6, <1>7, <1>8, <1>9, <1>10, <1>11,
     <1>12, <1>13, <1>14, <1>15, <1>16, <1>17, <1>18, <1>19, <1>20, <1>21,
     <1>22, <1>23, <1>24, <1>25, <1>26, <1>27, <1>28, <1>29, <1>30, <1>31,
     <1>32, <1>33, <1>34, <1>35, <1>36, <1>37, <1>38, <1>39, <1>40, <1>41,
     <1>42, <1>43
  DEF Next, CheckRequests, PStep, QStep, GetWorkStep

LEMMA Invariant == Spec => []IInv
<1>1. Init => IInv
  BY InvInit
<1>2. IInv /\ [Next]_vars => IInv'
  BY InvStep
<1> QED
  BY <1>1, <1>2, PTL DEF Spec

-----------------------------------------------------------------------------
(***************************************************************************)
(* What follows from it.                                                   *)
(***************************************************************************)

\* The two sides of a copy never claim the same segment.
THEOREM ClaimsAreDisjoint == Spec => []ClaimsDisjoint
<1>1. IInv => ClaimsDisjoint
  BY DEF IInv, PhaseInv, ClaimsDisjoint, Accepted
<1> QED
  BY <1>1, Invariant, PTL

\* When q releases p it has all of p's segments and only public choice points.
THEOREM TransferIsComplete == Spec => []TransferComplete
<1>1. IInv => TransferComplete
  <2> SUFFICES ASSUME IInv, NEW q \in Worker, pc[q] = "q_release"
               PROVE  /\ mem[q] = mem[partner[q]]
                      /\ public[q] /\ public[partner[q]]
    BY DEF TransferComplete
  <2> USE DEF Reply, no_sharing, sharing, nodes_shared, copy_done, worker_ready,
              Phase, Segment, Q_idle, trail, global, local, P_idle
  <2>1. Accepted(q) /\ partner[q] \in Worker
    BY DEF IInv, TypeOK, Accepted, QCopying
  <2>2. pc[partner[q]] \in PWaiting
    BY <2>1 DEF IInv, PairInv, Told, PCopying, PWaiting
  <2>3. p_fase[q] = q_fase[q] + 1 /\ q_fase[q] \in Phase
    BY <2>1 DEF IInv, TypeOK, PhaseInv
  <2>4. \A s \in Segment : mem[q][s] = mem[partner[q]][s] /\ (s = local => public[q])
    BY <2>1, <2>2, <2>3 DEF IInv, DataInv, QCopies, PCopies, PWaiting
  <2>5. mem[q] \in [Segment -> Version] /\ mem[partner[q]] \in [Segment -> Version]
    BY <2>1 DEF IInv, TypeOK
  <2>6. public[partner[q]]
    BY <2>1, <2>2 DEF IInv, DataInv, PWaiting
  <2> QED
    BY <2>4, <2>5, <2>6
<1> QED
  BY <1>1, Invariant, PTL

\* A registered request stays with a worker that will look at it.
THEOREM RequestsAreKept == Spec => []NoLostRequest
<1>1. IInv => NoLostRequest
  BY DEF IInv, RequestInv, NoLostRequest, MayBeAsked
<1> QED
  BY <1>1, Invariant, PTL

\* The two waits for incomplete installations never wait.
THEOREM InstallationsAreOver == Spec => []NoPendingInstallation
<1>1. IInv => NoPendingInstallation
  BY DEF IInv, RequestInv, NoPendingInstallation, PCopying, PWaiting, QAsking, QCopying
<1> QED
  BY <1>1, Invariant, PTL

\* Once a worker has left the scheduler, nobody has work.
THEOREM FinishingIsSafe == Spec => []FinishIsSafe
<1>1. IInv => FinishIsSafe
  <2> SUFFICES ASSUME IInv, NEW v \in Worker, pc[v] = "end"
               PROVE  Working = {} /\ root = Worker
    BY DEF FinishIsSafe
  <2>1. root = Worker
    BY DEF IInv, LocationInv
  <2>2. \A w \in Worker : pc[w] \in {"idle", "q_lock", "end"} \cup (QAsking \ {"q_release"})
    BY <2>1 DEF IInv, LocationInv
  <2> QED
    BY <2>1, <2>2 DEF Working, QAsking, QCopying, QAfter, PSharing, PStart, PCopying, PWaiting
<1> QED
  BY <1>1, Invariant, PTL

\* While q copies from p, p changes none of its stacks.
THEOREM StacksAreFrozen == Spec => StacksFrozen
<1>1. IInv /\ [Next]_vars =>
        [\A q \in Worker : pc[q] \in QCopying => mem'[partner[q]] = mem[partner[q]]]_vars
  <2> SUFFICES ASSUME IInv, Next, NEW q \in Worker, pc[q] \in QCopying
               PROVE  mem'[partner[q]] = mem[partner[q]]
    OBVIOUS
  <2> DEFINE p == partner[q]
  <2>1. p \in Worker /\ pc[p] \in PCopying \cup PWaiting
    BY DEF IInv, TypeOK, PairInv, Accepted
  <2>2. ASSUME NEW w \in Worker, Run(w) PROVE mem'[p] = mem[p]
    BY <2>1, <2>2 DEF IInv, TypeOK, Run, PCopying, PWaiting
  <2>3. ASSUME NEW w \in Worker, NEW s, NEW from, NEW to, P_Copy(w, s, from, to),
               from \in PCopying
        PROVE  mem'[p] = mem[p]
    <3>1. Accepted(partner[w])
      BY <2>3 DEF IInv, PairInv, Goto, P_Copy
    <3>2. partner[w] # p
      BY <2>1, <3>1 DEF Accepted, QCopying, PCopying, PWaiting
    <3> QED
      BY <2>1, <2>3, <3>2 DEF P_Copy, CopySegment, IInv, TypeOK
  <2>4. ASSUME NEW w \in Worker, NEW s, NEW from, NEW to, Q_Copy(w, s, from, to),
               from \in QCopying
        PROVE  mem'[p] = mem[p]
    BY <2>1, <2>4 DEF Q_Copy, CopySegment, Goto, IInv, TypeOK, QCopying, PCopying, PWaiting
  <2>5. ASSUME mem' = mem PROVE mem'[p] = mem[p]
    BY <2>5
  <2> QED
    BY <2>2, <2>3, <2>4, <2>5
    DEF Next, CheckRequests, PStep, QStep, GetWorkStep, Over, vars, stacks,
        PCopying, QCopying, P_CopyLocal, P_CopyGlobal, P_CopyTrail,
        Q_CopyLocal, Q_CopyGlobal, Q_CopyTrail, P_Claim, Q_Claim,
        Fail, P_Refuse, P_Accept, P_RefuseEnd, P_Start, P_ShareNodes, P_NodesShared, P_ClaimLocal, P_ClaimGlobal, P_ClaimTrail, P_CopyDone, P_WaitQ, P_Release, FindLiveNode, NoLiveNode, PutIdle, RefuseIfAny, RefuseEnd, EnterRoot, Finish, ResumeBelowRoot, ChooseVictim, Q_NoRequest, Q_Request, Q_Refused, Q_Accepted, Q_ClaimTrail, Q_ClaimGlobal, Q_ClaimLocal, Q_CopyDone, Q_OutOfRoot, Q_ReleaseP, Q_Ready, PutBusy
<1> QED
  BY <1>1, Invariant, PTL DEF Spec, StacksFrozen

-----------------------------------------------------------------------------
(***************************************************************************)
(* WorkSharing implements WorkExchange: p_share_work, q_share_work and     *)
(* get_work give work away in one atomic step.                             *)
(***************************************************************************)

\* A computation whose three segments belong together.
Whole == {[s \in Segment |-> v] : v \in Version}

\* Only a worker that is being given a copy has segments of two computations.
WholeInv == \A w \in Worker : ~Accepted(w) => mem[w] \in Whole

LEMMA WholeInit == Init => WholeInv
  BY DEF Init, InitFor, WholeInv, Whole, Accepted, QCopying

\* A step that leaves the stacks alone and takes nobody out of a copy.
LEMMA WholeKept ==
  ASSUME WholeInv, mem' = mem, \A w \in Worker : Accepted(w) => Accepted(w)'
  PROVE  WholeInv'
  BY DEF WholeInv

-----------------------------------------------------------------------------
LEMMA WholeStep ==
  ASSUME IInv, TransferComplete, WholeInv, [Next]_vars
  PROVE  WholeInv'
<1> USE DEF stacks, bitmaps, signals
<1>t. TypeOK
  BY DEF IInv
<1>1. ASSUME NEW w \in Worker, Run(w) PROVE WholeInv'
  <2>1. mem'[w] \in Whole
    BY <1>t, <1>1 DEF Run, TypeOK, Whole
  <2>2. \A v \in Worker : v # w => mem'[v] = mem[v]
    BY <1>t, <1>1 DEF Run, TypeOK
  <2>3. \A v \in Worker : Accepted(v)' <=> Accepted(v)
    BY <1>1 DEF Run, Accepted
  <2> QED
    BY <2>1, <2>2, <2>3 DEF WholeInv
<1>2. ASSUME NEW w \in Worker, NEW from, NEW to, Goto(w, from, to),
             from \notin QAsking, mem' = mem, reply_signal' = reply_signal
      PROVE WholeInv'
  <2>1. \A v \in Worker : Accepted(v) => Accepted(v)'
    BY <1>t, <1>2 DEF Goto, Accepted, QAsking, TypeOK
  <2> QED
    BY <1>2, <2>1, WholeKept
<1>3. ASSUME NEW q \in Worker, NEW from, NEW to, Goto(q, from, to),
             to \in QCopying, mem' = mem, reply_signal' = reply_signal
      PROVE WholeInv'
  <2>1. \A v \in Worker : Accepted(v) => Accepted(v)'
    BY <1>t, <1>3 DEF Goto, Accepted, TypeOK
  <2> QED
    BY <1>3, <2>1, WholeKept
<1>4. ASSUME NEW p \in Worker, NEW s, NEW from, NEW to, P_Copy(p, s, from, to),
             from \in PCopying
      PROVE WholeInv'
  <2>1. pc[p] \in PCopying /\ Accepted(partner[p]) /\ p # partner[p] /\ partner[p] \in Worker
    BY <1>t, <1>4 DEF P_Copy, Goto, IInv, PairInv, Accepted, PCopying, QCopying, TypeOK
  <2>2. \A v \in Worker : v # partner[p] => mem'[v] = mem[v]
    BY <1>t, <1>4 DEF P_Copy, CopySegment, TypeOK
  <2>3. \A v \in Worker : Accepted(v) => Accepted(v)'
    BY <1>t, <1>4, <2>1 DEF P_Copy, Goto, Accepted, PCopying, QCopying, TypeOK
  <2> QED
    BY <2>1, <2>2, <2>3 DEF WholeInv
<1>5. ASSUME NEW q \in Worker, NEW s, NEW from, NEW to, Q_Copy(q, s, from, to),
             to \in QCopying
      PROVE WholeInv'
  <2>1. Accepted(q)'
    BY <1>t, <1>5 DEF Q_Copy, Goto, Accepted, TypeOK
  <2>2. \A v \in Worker : v # q => mem'[v] = mem[v] /\ (Accepted(v)' <=> Accepted(v))
    BY <1>t, <1>5 DEF Q_Copy, CopySegment, Goto, Accepted, TypeOK
  <2> QED
    BY <2>1, <2>2 DEF WholeInv
\* The request that is refused has not been accepted.
<1>6. ASSUME NEW p \in Worker, P_Refuse(p) \/ RefuseIfAny(p) PROVE WholeInv'
  <2>1. pc[p] \in {"run", "gw_refuse"} /\ mem' = mem
    BY <1>6 DEF P_Refuse, RefuseIfAny, Goto
  <2>2. \A v \in Worker : Accepted(v) => v # share_request[p] /\ v # p
    <3>1. ~Accepted(p)
      BY <2>1 DEF Accepted, QCopying
    <3>2. CASE share_request[p] = Nobody
      BY <3>1, <3>2, WorkerAssumption
    <3>3. CASE share_request[p] # Nobody
      <4>1. pc[share_request[p]] = "q_wait" /\ reply_signal[share_request[p]] = worker_ready
        BY <2>1, <3>3 DEF IInv, RequestInv, MayBeAsked
      <4>2. ~Accepted(share_request[p])
        BY <4>1 DEF Accepted, QCopying, sharing, nodes_shared, copy_done, worker_ready
      <4> QED
        BY <3>1, <4>2
    <3> QED
      BY <3>2, <3>3
  <2>3. \A v \in Worker : v # p => pc'[v] = pc[v]
    BY <1>t, <1>6 DEF P_Refuse, RefuseIfAny, Goto, TypeOK
  <2>4. \A v \in Worker : v # share_request[p] => reply_signal'[v] = reply_signal[v]
    BY <1>t, <1>6 DEF P_Refuse, RefuseIfAny, TypeOK
  <2>5. \A v \in Worker : Accepted(v) => Accepted(v)'
    BY <2>2, <2>3, <2>4 DEF Accepted
  <2> QED
    BY <2>1, <2>5, WholeKept
\* p and q tell each other how far they are.
<1>7. ASSUME NEW w \in Worker,
             P_Start(w) \/ P_NodesShared(w) \/ P_CopyDone(w) \/ Q_CopyDone(w)
      PROVE WholeInv'
  <2>1. /\ mem' = mem
        /\ \A v \in Worker : v # w => pc'[v] = pc[v]
        /\ pc[w] \in {"p_ready", "p_shared", "p_sync", "q_sync"}
        /\ pc[w] = "q_sync" => pc'[w] = "q_wait_done"
    BY <1>t, <1>7 DEF P_Start, P_NodesShared, P_CopyDone, Q_CopyDone, Goto, TypeOK
  <2>2. \A v \in Worker : \/ reply_signal'[v] = reply_signal[v]
                           \/ reply_signal'[v] \in {sharing, nodes_shared, copy_done}
    BY <1>t, <1>7 DEF P_Start, P_NodesShared, P_CopyDone, Q_CopyDone, TypeOK
  <2>3. \A v \in Worker : Accepted(v) => Accepted(v)'
    BY <2>1, <2>2 DEF Accepted, QCopying
  <2> QED
    BY <2>1, <2>3, WholeKept
<1>8. ASSUME NEW q \in Worker, Q_Refused(q) PROVE WholeInv'
  <2>1. /\ mem' = mem /\ ~Accepted(q)
        /\ \A v \in Worker : v # q => pc'[v] = pc[v] /\ reply_signal'[v] = reply_signal[v]
    BY <1>t, <1>8 DEF Q_Refused, Goto, TypeOK, Accepted, QCopying,
       no_sharing, sharing, nodes_shared, copy_done
  <2>2. \A v \in Worker : Accepted(v) => Accepted(v)'
    BY <2>1 DEF Accepted
  <2> QED
    BY <2>1, <2>2, WholeKept
\* q leaves the copy with all of p's stacks.
<1>9. ASSUME NEW q \in Worker, Q_ReleaseP(q) PROVE WholeInv'
  <2> DEFINE p == partner[q]
  <2>1. pc[q] = "q_release" /\ Accepted(q) /\ p \in Worker
    BY <1>t, <1>9 DEF Q_ReleaseP, Goto, Accepted, QCopying, TypeOK
  <2>2. pc[p] \in PCopying \cup PWaiting
    BY <2>1 DEF IInv, PairInv
  <2>3. ~Accepted(p) /\ p # q
    BY <2>1, <2>2 DEF Accepted, PCopying, PWaiting, QCopying
  <2>4. mem[q] = mem[p]
    BY <2>1 DEF TransferComplete
  <2>5. mem[q] \in Whole
    BY <2>1, <2>3, <2>4 DEF WholeInv
  <2>6. /\ mem' = mem
        /\ \A v \in Worker : v # q => pc'[v] = pc[v]
        /\ \A v \in Worker : v # p => reply_signal'[v] = reply_signal[v]
    BY <1>t, <1>9 DEF Q_ReleaseP, Goto, TypeOK
  <2>7. \A v \in Worker : v # q /\ Accepted(v) => Accepted(v)'
    BY <2>3, <2>6 DEF Accepted
  <2> QED
    BY <2>5, <2>6, <2>7 DEF WholeInv
<1>10. ASSUME NEW q \in Worker, Q_Ready(q) PROVE WholeInv'
  <2>1. /\ mem' = mem /\ ~Accepted(q)
        /\ \A v \in Worker : v # q => pc'[v] = pc[v] /\ reply_signal'[v] = reply_signal[v]
    BY <1>t, <1>10 DEF Q_Ready, Goto, TypeOK, Accepted, QCopying
  <2>2. \A v \in Worker : Accepted(v) => Accepted(v)'
    BY <2>1 DEF Accepted
  <2> QED
    BY <2>1, <2>2, WholeKept
<1>11. CASE UNCHANGED vars
  BY <1>11 DEF vars, WholeInv, Accepted
\* The other steps, by what they have in common.
<1>12. ASSUME NEW w \in Worker,
              \/ Fail(w) \/ P_Accept(w) \/ P_RefuseEnd(w) \/ P_ShareNodes(w)
              \/ P_ClaimLocal(w) \/ P_ClaimGlobal(w) \/ P_ClaimTrail(w)
              \/ P_WaitQ(w) \/ P_Release(w)
              \/ FindLiveNode(w) \/ NoLiveNode(w) \/ PutIdle(w) \/ RefuseEnd(w)
              \/ Finish(w) \/ ResumeBelowRoot(w) \/ \E p \in Worker : ChooseVictim(w, p)
       PROVE WholeInv'
  <2>1. \E from \in Location \ QAsking : \E to : Goto(w, from, to)
    BY <1>12 DEF Fail, P_Accept, P_RefuseEnd, P_ShareNodes, P_ClaimLocal, P_ClaimGlobal,
       P_ClaimTrail, P_Claim, P_WaitQ, P_Release, FindLiveNode, NoLiveNode, PutIdle,
       RefuseEnd, Finish, ResumeBelowRoot, ChooseVictim, Location, QAsking, QCopying,
       PSharing, PStart, PCopying, PWaiting, GetWork, QAfter
  <2>2. mem' = mem /\ reply_signal' = reply_signal
    BY <1>12 DEF Fail, P_Accept, P_RefuseEnd, P_ShareNodes, P_ClaimLocal, P_ClaimGlobal,
       P_ClaimTrail, P_Claim, P_WaitQ, P_Release, FindLiveNode, NoLiveNode, PutIdle,
       RefuseEnd, Finish, ResumeBelowRoot, ChooseVictim
  <2> QED
    BY <1>2, <2>1, <2>2
<1>13. ASSUME NEW w \in Worker, EnterRoot(w) PROVE WholeInv'
  BY <1>13 DEF EnterRoot, WholeInv, Accepted
<1>14. ASSUME NEW q \in Worker,
              \/ Q_Accepted(q) \/ Q_ClaimTrail(q) \/ Q_ClaimGlobal(q) \/ Q_ClaimLocal(q)
              \/ Q_OutOfRoot(q)
       PROVE WholeInv'
  <2>1. \E from, to : Goto(q, from, to) /\ to \in QCopying
    BY <1>14 DEF Q_Accepted, Q_ClaimTrail, Q_ClaimGlobal, Q_ClaimLocal, Q_Claim, Q_OutOfRoot,
       QCopying
  <2>2. mem' = mem /\ reply_signal' = reply_signal
    BY <1>14 DEF Q_Accepted, Q_ClaimTrail, Q_ClaimGlobal, Q_ClaimLocal, Q_Claim, Q_OutOfRoot
  <2> QED
    BY <1>3, <2>1, <2>2
<1>15. ASSUME NEW q \in Worker, Q_NoRequest(q) \/ Q_Request(q) \/ PutBusy(q) PROVE WholeInv'
  <2>1. \E from \in {"q_lock", "q_busy"} : \E to : Goto(q, from, to)
    BY <1>15 DEF Q_NoRequest, Q_Request, PutBusy
  <2>2. mem' = mem /\ reply_signal' = reply_signal
    BY <1>15 DEF Q_NoRequest, Q_Request, PutBusy
  <2> QED
    BY <1>2, <2>1, <2>2 DEF QAsking, QCopying
<1>16. ASSUME NEW p \in Worker, P_CopyLocal(p) \/ P_CopyGlobal(p) \/ P_CopyTrail(p)
       PROVE WholeInv'
  BY <1>4, <1>16 DEF P_CopyLocal, P_CopyGlobal, P_CopyTrail, PCopying
<1>17. ASSUME NEW q \in Worker, Q_CopyLocal(q) \/ Q_CopyGlobal(q) \/ Q_CopyTrail(q)
       PROVE WholeInv'
  BY <1>5, <1>17 DEF Q_CopyLocal, Q_CopyGlobal, Q_CopyTrail, QCopying
<1>18. CASE Over
  BY <1>11, <1>18 DEF Over
<1> QED
  BY <1>1, <1>6, <1>7, <1>8, <1>9, <1>10, <1>11, <1>12, <1>13, <1>14, <1>15, <1>16, <1>17, <1>18
  DEF Next, CheckRequests, PStep, QStep, GetWorkStep

-----------------------------------------------------------------------------
(***************************************************************************)
(* What a step does to the state of WorkExchange.                          *)
(***************************************************************************)
Left == {w \in Worker : pc[w] = "end"}
Asking == [w \in Worker |-> IF pc[w] \in QAsking THEN partner[w] ELSE Nobody]
Work == [w \in Worker |-> IF w \in Working THEN mem[w] ELSE Nobody]

\* What v's part of that state depends on is as before.
SameFor(v) ==
  /\ v \in Working' <=> v \in Working
  /\ pc'[v] = "end" <=> pc[v] = "end"
  /\ pc'[v] \in QAsking <=> pc[v] \in QAsking
  /\ pc[v] \in QAsking => partner'[v] = partner[v]
  /\ v \in Working => mem'[v] = mem[v]

LEMMA SameForAll ==
  ASSUME \A v \in Worker : SameFor(v)
  PROVE  Working' = Working /\ Left' = Left /\ Asking' = Asking /\ Work' = Work
<1>1. Working' = Working
  BY DEF SameFor, Working
<1>2. Left' = Left
  BY DEF SameFor, Left
<1>3. Asking' = Asking
  BY DEF SameFor, Asking
<1>4. Work' = Work
  BY DEF SameFor, Work
<1> QED
  BY <1>1, <1>2, <1>3, <1>4

\* A step of w that changes nobody else's location, partner or stacks.
LEMMA OthersSame ==
  ASSUME NEW w \in Worker, NEW v \in Worker, pc'[v] = pc[v], partner'[v] = partner[v],
         mem'[v] = mem[v], v \in idle' <=> v \in idle
  PROVE  SameFor(v)
  BY DEF SameFor, Working

\* What the step means to WorkExchange, by worker.
LEMMA OnlyOneChanges ==
  ASSUME NEW w \in Worker, \A v \in Worker \ {w} : SameFor(v)
  PROVE  /\ \A v \in Worker : v # w =>
              (v \in Working' <=> v \in Working) /\ (v \in Left' <=> v \in Left)
         /\ Asking' = [Asking EXCEPT ![w] = IF pc'[w] \in QAsking THEN partner'[w] ELSE Nobody]
         /\ Work' = [Work EXCEPT ![w] = IF w \in Working' THEN mem'[w] ELSE Nobody]
<1>1. \A v \in Worker : v # w =>
        (v \in Working' <=> v \in Working) /\ (v \in Left' <=> v \in Left)
  BY DEF SameFor, Left
<1>2. Asking' = [Asking EXCEPT ![w] = IF pc'[w] \in QAsking THEN partner'[w] ELSE Nobody]
  BY DEF SameFor, Asking
<1>3. Work' = [Work EXCEPT ![w] = IF w \in Working' THEN mem'[w] ELSE Nobody]
  BY DEF SameFor, Work
<1> QED
  BY <1>1, <1>2, <1>3, Zenon

\* Where a worker is busy whatever its bit in idle, where it is neither busy
\* nor asking.
BusyAt == {"run", "p_refuse"} \cup PSharing \cup QAfter
QuietAt == {"gw_idle", "gw_refuse", "gw_refuse_end", "idle", "q_lock"}

\* A step from one place to another of the same kind.
LEMMA SameKind ==
  ASSUME TypeOK, NEW w \in Worker, NEW from, NEW to, Goto(w, from, to),
         \/ from \in BusyAt /\ to \in BusyAt /\ mem'[w] = mem[w]
         \/ from \in QuietAt /\ to \in QuietAt
         \/ from \in QAsking /\ to \in QAsking /\ partner'[w] = partner[w],
         \A v \in Worker : v # w =>
            partner'[v] = partner[v] /\ mem'[v] = mem[v] /\ (v \in idle' <=> v \in idle)
  PROVE  \A v \in Worker : SameFor(v)
<1>1. pc[w] = from /\ pc'[w] = to /\ \A v \in Worker : v # w => pc'[v] = pc[v]
  BY DEF Goto, TypeOK
<1>2. ASSUME NEW v \in Worker, v # w PROVE SameFor(v)
  <2>1. /\ pc'[v] = pc[v] /\ partner'[v] = partner[v] /\ mem'[v] = mem[v]
        /\ v \in idle' <=> v \in idle
    BY <1>1, <1>2
  <2> QED
    BY <2>1, OthersSame
<1>3. SameFor(w)
  <2>1. CASE from \in BusyAt /\ to \in BusyAt /\ mem'[w] = mem[w]
    BY <1>1, <2>1 DEF SameFor, Working, BusyAt, PSharing, PStart, PCopying, PWaiting, QAfter,
       QAsking, QCopying
  <2>2. CASE from \in QuietAt /\ to \in QuietAt
    BY <1>1, <2>2 DEF SameFor, Working, QuietAt, PSharing, PStart, PCopying, PWaiting, QAfter,
       QAsking, QCopying
  <2>3. CASE from \in QAsking /\ to \in QAsking /\ partner'[w] = partner[w]
    BY <1>1, <2>3 DEF SameFor, Working, PSharing, PStart, PCopying, PWaiting, QAfter,
       QAsking, QCopying
  <2> QED
    BY <2>1, <2>2, <2>3
<1> QED
  BY <1>2, <1>3

\* The steps that WorkExchange does not see.
LEMMA Stutter ==
  ASSUME IInv, NEW w \in Worker,
         \/ Fail(w) \/ P_Refuse(w) \/ P_Accept(w) \/ PStep(w) \/ P_Release(w)
         \/ FindLiveNode(w) \/ (NoLiveNode(w) /\ w \in idle)
         \/ PutIdle(w) \/ RefuseIfAny(w) \/ RefuseEnd(w) \/ EnterRoot(w)
         \/ \E p \in Worker : ChooseVictim(w, p)
         \/ Q_NoRequest(w) \/ Q_Accepted(w)
         \/ Q_ClaimTrail(w) \/ Q_CopyTrail(w) \/ Q_ClaimGlobal(w) \/ Q_CopyGlobal(w)
         \/ Q_ClaimLocal(w) \/ Q_CopyLocal(w) \/ Q_CopyDone(w) \/ Q_OutOfRoot(w)
         \/ Q_Ready(w) \/ PutBusy(w)
  PROVE  \A v \in Worker : SameFor(v)
<1> USE DEF stacks, bitmaps, signals
<1>t. TypeOK
  BY DEF IInv
<1>1. ASSUME \/ P_Refuse(w) \/ P_Accept(w) \/ P_RefuseEnd(w) \/ P_Start(w)
             \/ P_ShareNodes(w) \/ P_NodesShared(w)
             \/ P_ClaimLocal(w) \/ P_ClaimGlobal(w) \/ P_ClaimTrail(w)
             \/ P_CopyDone(w) \/ P_WaitQ(w) \/ P_Release(w) \/ Q_Ready(w) \/ PutBusy(w)
      PROVE \A v \in Worker : SameFor(v)
  <2>1. \E from, to \in BusyAt : Goto(w, from, to)
    BY <1>1 DEF P_Refuse, P_Accept, P_RefuseEnd, P_Start, P_ShareNodes, P_NodesShared,
       P_ClaimLocal, P_ClaimGlobal, P_ClaimTrail, P_Claim, P_CopyDone, P_WaitQ, P_Release,
       Q_Ready, PutBusy, BusyAt, PSharing, PStart, PCopying, PWaiting, QAfter
  <2>2. mem' = mem /\ \A v \in Worker : v # w => partner'[v] = partner[v]
    BY <1>t, <1>1 DEF P_Refuse, P_Accept, P_RefuseEnd, P_Start, P_ShareNodes, P_NodesShared,
       P_ClaimLocal, P_ClaimGlobal, P_ClaimTrail, P_Claim, P_CopyDone, P_WaitQ, P_Release,
       Q_Ready, PutBusy, TypeOK
  <2>3. \A v \in Worker : v # w => (v \in idle' <=> v \in idle)
    BY <1>1 DEF P_Refuse, P_Accept, P_RefuseEnd, P_Start, P_ShareNodes, P_NodesShared,
       P_ClaimLocal, P_ClaimGlobal, P_ClaimTrail, P_Claim, P_CopyDone, P_WaitQ, P_Release,
       Q_Ready, PutBusy
  <2> QED
    BY <1>t, <2>1, <2>2, <2>3, SameKind
<1>2. ASSUME \/ PutIdle(w) \/ RefuseIfAny(w) \/ RefuseEnd(w) \/ Q_NoRequest(w)
             \/ \E p \in Worker : ChooseVictim(w, p)
             \/ NoLiveNode(w) /\ w \in idle
      PROVE \A v \in Worker : SameFor(v)
  <2>1. /\ mem' = mem /\ \A v \in Worker : v # w => partner'[v] = partner[v]
        /\ \A v \in Worker : v # w => (v \in idle' <=> v \in idle)
    BY <1>t, <1>2 DEF PutIdle, RefuseIfAny, RefuseEnd, Q_NoRequest, ChooseVictim, NoLiveNode, TypeOK
  <2>2. CASE NoLiveNode(w) /\ w \in idle
    <3>1. /\ pc[w] = "gw_wait" /\ pc'[w] = "gw_idle" /\ idle' = idle
          /\ \A v \in Worker : v # w => pc'[v] = pc[v]
      BY <1>t, <2>2 DEF NoLiveNode, Goto, TypeOK
    <3>2. SameFor(w)
      BY <2>2, <3>1 DEF SameFor, Working, PSharing, PStart, PCopying, PWaiting, QAfter,
         QAsking, QCopying
    <3> QED
      BY <2>1, <3>1, <3>2, OthersSame
  <2>3. CASE \/ PutIdle(w) \/ RefuseIfAny(w) \/ RefuseEnd(w) \/ Q_NoRequest(w)
             \/ \E p \in Worker : ChooseVictim(w, p)
    <3>1. \E from, to \in QuietAt : Goto(w, from, to)
      BY <2>3 DEF PutIdle, RefuseIfAny, RefuseEnd, Q_NoRequest, ChooseVictim, QuietAt
    <3> QED
      BY <1>t, <2>1, <3>1, SameKind
  <2> QED
    BY <1>2, <2>2, <2>3
<1>3. ASSUME \/ Q_Accepted(w) \/ Q_ClaimTrail(w) \/ Q_ClaimGlobal(w) \/ Q_ClaimLocal(w)
             \/ Q_CopyDone(w) \/ Q_OutOfRoot(w)
      PROVE \A v \in Worker : SameFor(v)
  <2>1. \E from, to \in QAsking : Goto(w, from, to)
    BY <1>3 DEF Q_Accepted, Q_ClaimTrail, Q_ClaimGlobal, Q_ClaimLocal, Q_Claim, Q_CopyDone,
       Q_OutOfRoot, QAsking, QCopying
  <2>2. mem' = mem /\ partner' = partner /\ idle' = idle
    BY <1>3 DEF Q_Accepted, Q_ClaimTrail, Q_ClaimGlobal, Q_ClaimLocal, Q_Claim, Q_CopyDone,
       Q_OutOfRoot
  <2> QED
    BY <1>t, <2>1, <2>2, SameKind
<1>4. ASSUME Q_CopyTrail(w) \/ Q_CopyGlobal(w) \/ Q_CopyLocal(w)
      PROVE \A v \in Worker : SameFor(v)
  <2>1. \E from, to \in QAsking : Goto(w, from, to)
    BY <1>4 DEF Q_CopyTrail, Q_CopyGlobal, Q_CopyLocal, Q_Copy, QAsking, QCopying
  <2>2. /\ \A v \in Worker : v # w => mem'[v] = mem[v]
        /\ partner' = partner /\ idle' = idle
    BY <1>t, <1>4 DEF Q_CopyTrail, Q_CopyGlobal, Q_CopyLocal, Q_Copy, CopySegment, TypeOK
  <2> QED
    BY <1>t, <2>1, <2>2, SameKind
\* p copies into the stacks of a worker that does not own them yet.
<1>5. ASSUME P_CopyLocal(w) \/ P_CopyGlobal(w) \/ P_CopyTrail(w)
      PROVE \A v \in Worker : SameFor(v)
  <2>1. PICK from, to \in BusyAt : Goto(w, from, to) /\ from \in PCopying
    BY <1>5 DEF P_CopyLocal, P_CopyGlobal, P_CopyTrail, P_Copy, BusyAt, PSharing, PCopying
  <2>2. pc[w] \in PCopying /\ pc[w] = from /\ pc'[w] = to
        /\ \A v \in Worker : v # w => pc'[v] = pc[v]
    BY <1>t, <2>1 DEF Goto, TypeOK
  <2>3. Accepted(partner[w]) /\ partner[w] \in Worker /\ partner[w] # w
    BY <1>t, <2>2 DEF IInv, PairInv, Accepted, PCopying, QCopying, TypeOK
  <2>4. partner[w] \notin Working
    BY <2>3 DEF Accepted, Working, QCopying, PSharing, PStart, PCopying, PWaiting, QAfter
  <2>5. /\ \A v \in Worker : v # partner[w] => mem'[v] = mem[v]
        /\ partner' = partner /\ idle' = idle
    BY <1>t, <1>5 DEF P_CopyLocal, P_CopyGlobal, P_CopyTrail, P_Copy, CopySegment, TypeOK
  <2>6. SameFor(partner[w])
    BY <2>2, <2>3, <2>4, <2>5 DEF SameFor, Working
  <2>7. \A v \in Worker : v # w /\ v # partner[w] => SameFor(v)
    BY <2>2, <2>5, OthersSame
  <2>8. SameFor(w)
    BY <2>1, <2>2, <2>3, <2>5 DEF SameFor, Working, BusyAt, PSharing, PStart, PCopying, PWaiting, QAfter,
       QAsking, QCopying
  <2> QED
    BY <2>6, <2>7, <2>8
<1>6. ASSUME Fail(w) \/ FindLiveNode(w) PROVE \A v \in Worker : SameFor(v)
  <2>1. /\ {pc[w], pc'[w]} = {"run", "gw_wait"}
        /\ \A v \in Worker : v # w => pc'[v] = pc[v]
        /\ mem' = mem /\ partner' = partner /\ idle' = idle
    BY <1>t, <1>6 DEF Fail, FindLiveNode, Goto, TypeOK
  <2>2. w \notin idle
    BY <1>6 DEF Fail, FindLiveNode, Goto, IInv, LocationInv
  <2>3. SameFor(w)
    <3>1. pc[w] \in {"run", "gw_wait"} /\ pc'[w] \in {"run", "gw_wait"}
      BY <2>1
    <3> QED
      BY <2>1, <2>2, <3>1 DEF SameFor, Working, QAsking, QCopying
  <2> QED
    BY <2>1, <2>3, OthersSame
<1>7. ASSUME EnterRoot(w) PROVE \A v \in Worker : SameFor(v)
  BY <1>7, OthersSame DEF EnterRoot
<1> QED
  BY <1>1, <1>2, <1>3, <1>4, <1>5, <1>6, <1>7 DEF PStep

-----------------------------------------------------------------------------
(***************************************************************************)
(* The steps that WorkExchange sees.                                       *)
(***************************************************************************)
LEMMA OnlyWorkers ==
  /\ \A v : v \in Working => v \in Worker
  /\ \A v : v \in Working' => v \in Worker
  /\ \A v : v \in Left => v \in Worker
  /\ \A v : v \in Left' => v \in Worker
  BY DEF Working, Left

LEMMA RunSeen == ASSUME IInv, NEW w \in Worker, Run(w) PROVE Exchange!Run(w)
<1> USE DEF stacks, bitmaps, signals
<1>1. TypeOK
  BY DEF IInv
<1>2. \A v \in Worker \ {w} : SameFor(v)
  BY <1>1, OthersSame DEF Run, TypeOK
<1>3. /\ w \in Working /\ w \in Working' /\ mem'[w] \in Whole
      /\ pc' = pc /\ partner' = partner /\ idle' = idle
  BY <1>1 DEF Run, Working, Whole, TypeOK
<1>4. Working' = Working /\ Left' = Left /\ Asking' = Asking
  BY <1>3 DEF Working, Left, Asking
<1>5. Work' = [Work EXCEPT ![w] = mem'[w]]
  BY <1>2, <1>3, OnlyOneChanges
<1> QED
  BY <1>3, <1>4, <1>5 DEF Exchange!Run, Left, Asking, Work, Whole

LEMMA BecomeIdleSeen ==
  ASSUME IInv, NEW w \in Worker, NoLiveNode(w), w \notin idle
  PROVE  Exchange!BecomeIdle(w)
<1> USE DEF stacks, bitmaps, signals
<1>1. TypeOK
  BY DEF IInv
<1>2. /\ pc[w] = "gw_wait" /\ pc'[w] = "gw_idle" /\ \A v \in Worker : v # w => pc'[v] = pc[v]
      /\ mem' = mem /\ partner' = partner /\ idle' = idle
  BY <1>1 DEF NoLiveNode, Goto, TypeOK
<1>3. \A v \in Worker \ {w} : SameFor(v)
  BY <1>2, OthersSame
<1>4. w \in Working /\ w \notin Working' /\ w \notin Left /\ w \notin Left'
  BY <1>2 DEF Working, Left, PSharing, PStart, PCopying, PWaiting, QAfter
<1>5. Asking[w] = Nobody /\ pc'[w] \notin QAsking
  BY <1>2 DEF Asking, QAsking, QCopying
<1>6. /\ \A v \in Worker : v # w =>
           (v \in Working' <=> v \in Working) /\ (v \in Left' <=> v \in Left)
      /\ Asking' = [Asking EXCEPT ![w] = Nobody]
      /\ Work' = [Work EXCEPT ![w] = Nobody]
  BY <1>3, <1>4, <1>5, OnlyOneChanges
<1>7. Working' = Working \ {w} /\ Left' = Left
  BY <1>4, <1>6, OnlyWorkers
<1>8. Asking' = Asking
  BY <1>5, <1>6 DEF Asking
<1> QED
  BY <1>4, <1>6, <1>7, <1>8 DEF Exchange!BecomeIdle, Left, Asking, Work

LEMMA ResumeSeen ==
  ASSUME IInv, WholeInv, NEW w \in Worker, ResumeBelowRoot(w)
  PROVE  Exchange!Resume(w)
<1> USE DEF stacks, bitmaps, signals
<1>1. TypeOK
  BY DEF IInv
<1>2. /\ pc[w] = "idle" /\ pc'[w] = "run" /\ mem' = mem /\ partner' = partner
      /\ \A v \in Worker : v # w => pc'[v] = pc[v] /\ (v \in idle' <=> v \in idle)
  BY <1>1 DEF ResumeBelowRoot, Goto, TypeOK
<1>3. \A v \in Worker \ {w} : SameFor(v)
  BY <1>2, OthersSame
<1>4. w \notin Working /\ w \in Working' /\ w \notin Left /\ w \notin Left'
  BY <1>2 DEF Working, Left, PSharing, PStart, PCopying, PWaiting, QAfter
<1>5. Asking[w] = Nobody /\ pc'[w] \notin QAsking
  BY <1>2 DEF Asking, QAsking, QCopying
<1>6. mem'[w] \in Whole
  BY <1>2 DEF WholeInv, Accepted, QCopying
<1>7. /\ \A v \in Worker : v # w =>
           (v \in Working' <=> v \in Working) /\ (v \in Left' <=> v \in Left)
      /\ Asking' = [Asking EXCEPT ![w] = Nobody]
      /\ Work' = [Work EXCEPT ![w] = mem'[w]]
  BY <1>3, <1>4, <1>5, OnlyOneChanges
<1>8. Working' = Working \cup {w} /\ Left' = Left
  BY <1>4, <1>7, OnlyWorkers
<1>9. Asking' = Asking
  BY <1>5, <1>7 DEF Asking
<1> QED
  BY <1>4, <1>5, <1>6, <1>7, <1>8, <1>9 DEF Exchange!Resume, Left, Asking, Work, Whole

LEMMA AskSeen ==
  ASSUME IInv, NEW q \in Worker, Q_Request(q)
  PROVE  \E p \in Worker : Exchange!Ask(q, p)
<1> USE DEF stacks, bitmaps, signals
<1>1. TypeOK
  BY DEF IInv
<1>2. /\ pc[q] = "q_lock" /\ pc'[q] = "q_wait" /\ mem' = mem /\ partner' = partner
      /\ idle' = idle /\ \A v \in Worker : v # q => pc'[v] = pc[v]
  BY <1>1 DEF Q_Request, Goto, TypeOK
<1>3. \A v \in Worker \ {q} : SameFor(v)
  BY <1>2, OthersSame
<1>4. q \notin Working /\ q \notin Working' /\ q \notin Left /\ q \notin Left'
  BY <1>2 DEF Working, Left, PSharing, PStart, PCopying, PWaiting, QAfter
<1>5. Asking[q] = Nobody /\ pc'[q] \in QAsking
  BY <1>2 DEF Asking, QAsking, QCopying
\* The victim is not idle, q is.
<1>6. q # partner[q]
  <2>1. q \in idle
    BY <1>2 DEF IInv, LocationInv, PSharing, PStart, PCopying, PWaiting
  <2>2. partner[q] \notin idle
    BY DEF Q_Request
  <2> QED
    BY <2>1, <2>2
<1>7. /\ \A v \in Worker : v # q =>
           (v \in Working' <=> v \in Working) /\ (v \in Left' <=> v \in Left)
      /\ Asking' = [Asking EXCEPT ![q] = partner[q]]
      /\ Work' = [Work EXCEPT ![q] = Nobody]
  BY <1>2, <1>3, <1>4, <1>5, OnlyOneChanges
<1>8. Working' = Working /\ Left' = Left
  BY <1>4, <1>7, OnlyWorkers
<1>9. Work' = Work
  BY <1>4, <1>7 DEF Work
<1>10. PICK p \in Worker : p = partner[q]
  BY <1>1 DEF TypeOK
<1>11. q # p /\ Asking' = [Asking EXCEPT ![q] = p]
  BY <1>6, <1>7, <1>10
<1>12. Exchange!Ask(q, p)
  BY <1>4, <1>5, <1>8, <1>9, <1>11 DEF Exchange!Ask, Left, Asking, Work
<1> QED
  BY <1>12

LEMMA RefuseSeen ==
  ASSUME IInv, NEW q \in Worker, Q_Refused(q)
  PROVE  Exchange!Refuse(q)
<1> USE DEF stacks, bitmaps, signals
<1>1. TypeOK
  BY DEF IInv
<1>2. /\ pc[q] = "q_wait" /\ pc'[q] = "idle" /\ mem' = mem /\ partner' = partner
      /\ idle' = idle /\ \A v \in Worker : v # q => pc'[v] = pc[v]
  BY <1>1 DEF Q_Refused, Goto, TypeOK
<1>3. \A v \in Worker \ {q} : SameFor(v)
  BY <1>2, OthersSame
<1>4. q \notin Working /\ q \notin Working' /\ q \notin Left /\ q \notin Left'
  BY <1>2 DEF Working, Left, PSharing, PStart, PCopying, PWaiting, QAfter
<1>5. Asking[q] # Nobody /\ pc'[q] \notin QAsking
  BY <1>1, <1>2, WorkerAssumption DEF Asking, QAsking, QCopying, TypeOK
<1>6. /\ \A v \in Worker : v # q =>
           (v \in Working' <=> v \in Working) /\ (v \in Left' <=> v \in Left)
      /\ Asking' = [Asking EXCEPT ![q] = Nobody]
      /\ Work' = [Work EXCEPT ![q] = Nobody]
  BY <1>3, <1>4, <1>5, OnlyOneChanges
<1>7. Working' = Working /\ Left' = Left
  BY <1>4, <1>6, OnlyWorkers
<1>8. Work' = Work
  BY <1>4, <1>6 DEF Work
<1> QED
  BY <1>5, <1>6, <1>7, <1>8 DEF Exchange!Refuse, Left, Asking, Work

LEMMA GrantSeen ==
  ASSUME IInv, TransferComplete, NEW q \in Worker, Q_ReleaseP(q)
  PROVE  Exchange!Grant(q)
<1> USE DEF stacks, bitmaps, signals
<1> DEFINE p == partner[q]
<1>1. TypeOK
  BY DEF IInv
<1>2. /\ pc[q] = "q_release" /\ pc'[q] = "q_ready" /\ mem' = mem /\ partner' = partner
      /\ idle' = idle /\ \A v \in Worker : v # q => pc'[v] = pc[v]
  BY <1>1 DEF Q_ReleaseP, Goto, TypeOK
<1>3. \A v \in Worker \ {q} : SameFor(v)
  BY <1>2, OthersSame
<1>4. q \notin Working /\ q \in Working' /\ q \notin Left /\ q \notin Left'
  BY <1>2 DEF Working, Left, PSharing, PStart, PCopying, PWaiting, QAfter
<1>5. Asking[q] = p /\ pc'[q] \notin QAsking
  BY <1>2 DEF Asking, QAsking, QCopying
<1>6. p \in Working /\ p \in Worker
  <2>1. p \in Worker /\ pc[p] \in PCopying \cup PWaiting
    BY <1>1, <1>2 DEF IInv, PairInv, Accepted, QCopying, TypeOK
  <2> QED
    BY <2>1 DEF Working, PSharing
<1>7. mem'[q] = Work[p]
  <2>1. mem[q] = mem[p]
    BY <1>2 DEF TransferComplete
  <2> QED
    BY <1>2, <1>6, <2>1 DEF Work
<1>8. /\ \A v \in Worker : v # q =>
           (v \in Working' <=> v \in Working) /\ (v \in Left' <=> v \in Left)
      /\ Asking' = [Asking EXCEPT ![q] = Nobody]
      /\ Work' = [Work EXCEPT ![q] = mem'[q]]
  BY <1>3, <1>4, <1>5, OnlyOneChanges
<1>9. Working' = Working \cup {q} /\ Left' = Left
  BY <1>4, <1>8, OnlyWorkers
<1> QED
  BY <1>4, <1>5, <1>6, <1>7, <1>8, <1>9 DEF Exchange!Grant, Left, Asking, Work

LEMMA LeaveSeen ==
  ASSUME IInv, NEW w \in Worker, Finish(w)
  PROVE  Exchange!Leave(w)
<1> USE DEF stacks, bitmaps, signals
<1>1. TypeOK
  BY DEF IInv
<1>2. /\ pc[w] = "idle" /\ pc'[w] = "end" /\ mem' = mem /\ partner' = partner
      /\ idle' = idle /\ \A v \in Worker : v # w => pc'[v] = pc[v]
  BY <1>1 DEF Finish, Goto, TypeOK
<1>3. \A v \in Worker \ {w} : SameFor(v)
  BY <1>2, OthersSame
<1>4. Working = {}
  <2>1. \A v \in Worker : pc[v] \in {"idle", "q_lock", "end"} \cup (QAsking \ {"q_release"})
    BY DEF IInv, LocationInv, Finish
  <2> QED
    BY <2>1 DEF Working, QAsking, QCopying, QAfter, PSharing, PStart, PCopying, PWaiting
<1>5. w \notin Working' /\ w \notin Left /\ w \in Left'
  BY <1>2 DEF Working, Left, PSharing, PStart, PCopying, PWaiting, QAfter
<1>6. Asking[w] = Nobody /\ pc'[w] \notin QAsking
  BY <1>2 DEF Asking, QAsking, QCopying
<1>7. /\ \A v \in Worker : v # w =>
           (v \in Working' <=> v \in Working) /\ (v \in Left' <=> v \in Left)
      /\ Asking' = [Asking EXCEPT ![w] = Nobody]
      /\ Work' = [Work EXCEPT ![w] = Nobody]
  BY <1>3, <1>5, <1>6, OnlyOneChanges
<1>8. Working' = Working /\ Left' = Left \cup {w}
  BY <1>4, <1>5, <1>7, OnlyWorkers
<1>9. Asking' = Asking /\ Work' = Work
  BY <1>4, <1>6, <1>7 DEF Asking, Work
<1> QED
  BY <1>4, <1>5, <1>8, <1>9 DEF Exchange!Leave, Left, Asking, Work

-----------------------------------------------------------------------------
(***************************************************************************)
(* The refinement.                                                         *)
(***************************************************************************)
LEMMA InitSeen == Init => Exchange!Init
<1> SUFFICES ASSUME NEW first \in Worker, InitFor(first) PROVE Exchange!Init
  BY DEF Init
<1>1. PICK v \in Version : mem = [w \in Worker |-> [s \in Segment |-> v]]
  BY DEF InitFor
<1>2. /\ pc[first] = "run" /\ idle = Worker \ {first}
      /\ \A w \in Worker : w # first => pc[w] = "gw_wait"
  BY DEF InitFor
<1>3. Working = {first}
  BY <1>2 DEF Working, PSharing, PStart, PCopying, PWaiting, QAfter
<1>4. Left = {}
  BY <1>2 DEF Left
<1>5. Asking = [w \in Worker |-> Nobody]
  BY <1>2 DEF Asking, QAsking, QCopying
<1>6. \E u \in Whole : Work = [w \in Worker |-> IF w \in Working THEN u ELSE Nobody]
  BY <1>1 DEF Work, Whole
<1> QED
  BY <1>3, <1>4, <1>5, <1>6 DEF Exchange!Init, Left, Asking, Work, Whole

LEMMA StepSeen ==
  ASSUME IInv, TransferComplete, WholeInv, [Next]_vars
  PROVE  [Exchange!Next]_(Exchange!vars)
<1>1. ASSUME \A v \in Worker : SameFor(v) PROVE UNCHANGED Exchange!vars
  BY <1>1, SameForAll DEF Exchange!vars, Left, Asking, Work
<1>2. CASE UNCHANGED vars
  BY <1>1, <1>2 DEF vars, stacks, bitmaps, SameFor, Working
<1>3. CASE Over
  BY <1>2, <1>3 DEF Over
<1>4. ASSUME NEW w \in Worker,
             \/ Run(w) \/ Fail(w) \/ CheckRequests(w) \/ PStep(w) \/ P_Release(w)
             \/ GetWorkStep(w) \/ EnterRoot(w) \/ Finish(w) \/ ResumeBelowRoot(w)
             \/ \E p \in Worker : ChooseVictim(w, p)
             \/ QStep(w)
      PROVE [Exchange!Next]_(Exchange!vars)
  <2>1. CASE Run(w)
    BY <2>1, RunSeen DEF Exchange!Next
  <2>2. CASE NoLiveNode(w) /\ w \notin idle
    BY <2>2, BecomeIdleSeen DEF Exchange!Next
  <2>3. CASE ResumeBelowRoot(w)
    BY <2>3, ResumeSeen DEF Exchange!Next
  <2>4. CASE Q_Request(w)
    BY <2>4, AskSeen DEF Exchange!Next
  <2>5. CASE Q_Refused(w)
    BY <2>5, RefuseSeen DEF Exchange!Next
  <2>6. CASE Q_ReleaseP(w)
    BY <2>6, GrantSeen DEF Exchange!Next
  <2>7. CASE Finish(w)
    BY <2>7, LeaveSeen DEF Exchange!Next
  <2>8. CASE \/ Fail(w) \/ P_Refuse(w) \/ P_Accept(w) \/ PStep(w) \/ P_Release(w)
             \/ FindLiveNode(w) \/ (NoLiveNode(w) /\ w \in idle)
             \/ PutIdle(w) \/ RefuseIfAny(w) \/ RefuseEnd(w) \/ EnterRoot(w)
             \/ \E p \in Worker : ChooseVictim(w, p)
             \/ Q_NoRequest(w) \/ Q_Accepted(w)
             \/ Q_ClaimTrail(w) \/ Q_CopyTrail(w) \/ Q_ClaimGlobal(w) \/ Q_CopyGlobal(w)
             \/ Q_ClaimLocal(w) \/ Q_CopyLocal(w) \/ Q_CopyDone(w) \/ Q_OutOfRoot(w)
             \/ Q_Ready(w) \/ PutBusy(w)
    BY <1>1, <2>8, Stutter
  <2> QED
    BY <1>4, <2>1, <2>2, <2>3, <2>4, <2>5, <2>6, <2>7, <2>8, Zenon
    DEF CheckRequests, GetWorkStep, QStep
<1> QED
  BY <1>2, <1>3, <1>4 DEF Next

\* Whatever signals, phases, bitmaps and copies p_share_work, q_share_work and
\* get_work use, the workers of a team exchange work as WorkExchange says: an
\* idle worker gets, in one step, the whole computation that a busy one has at
\* that moment, or is refused.
THEOREM SharingImplementsExchange == Spec => SharingIsAtomic
<1>1. Spec => []WholeInv
  BY WholeInit, WholeStep, Invariant, TransferIsComplete, PTL DEF Spec
<1>2. Init => Exchange!Init
  BY InitSeen
<1>3. IInv /\ TransferComplete /\ WholeInv /\ [Next]_vars => [Exchange!Next]_(Exchange!vars)
  BY StepSeen
<1> QED
  BY <1>1, <1>2, <1>3, Invariant, TransferIsComplete, PTL
  DEF Spec, SharingIsAtomic, Exchange!Spec
=============================================================================
