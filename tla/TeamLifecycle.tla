--------------------------- MODULE TeamLifecycle ---------------------------
(***************************************************************************)
(* The life of a team over several parallel queries: the instruction       *)
(* getwork_first_time (OPTYap/or.insts.i), p_yapor_start (opt.preds.c) and *)
(* the entry to and exit from get_work (or.scheduler.c), when the team is  *)
(* the only one (MPI_Comm_size is 1).                                      *)
(*                                                                         *)
(* Worker 0 takes a goal, starts the query and runs it.  The others wait   *)
(* in getwork_first_time until the bitmap of free workers shows a new      *)
(* goal, get work from each other and come back when get_work returns      *)
(* FALSE.  Worker 0 goes on to the next query when all have come back.     *)
(*                                                                         *)
(* Bitmaps are shared words.  An update is a read and a write; the update  *)
(* of one that is always locked is one action.  p_yapor_start updates the  *)
(* idle and free bitmaps without their locks, so that for these two the    *)
(* read and the write of every update are separate actions, and so are     *)
(* their locks.                                                            *)
(*                                                                         *)
(* Where a worker is in the or-tree is reduced to whether it is below the  *)
(* root choice point (OrScheduler has the tree), and a share to the        *)
(* request, its answer and the two bitmaps it changes (WorkSharing has the *)
(* handshake).                                                             *)
(***************************************************************************)
EXTENDS Integers

CONSTANTS Worker,      \* GLOBAL_bm_present_workers
          Zero,        \* worker 0
          Nobody,      \* no worker
          Queries,     \* bound: the queries worker 0 is given
          Shares       \* bound: the shares and resumptions of a query

ASSUME ZeroAssumption == Zero \in Worker /\ Nobody \notin Worker
ASSUME BoundAssumption == Queries \in Nat /\ Shares \in Nat

VARIABLES
  pc,            \* pc[w]: where w is
  present_team,  \* GLOBAL_bm_present_team_workers
  free,          \* GLOBAL_bm_free_workers
  finished,      \* GLOBAL_bm_finished_workers
  root,          \* GLOBAL_bm_root_cp_workers
  idle,          \* GLOBAL_bm_idle_workers
  read,          \* read[w]: what w has read in an unfinished update of idle or free
  lock_free,     \* GLOBAL_lock_free_workers is locked
  lock_idle,     \* GLOBAL_locks_bm_idle_workers is locked
  asking,        \* asking[w]: the worker w has asked for work
  below,         \* the workers whose LOCAL_top_cp, or B, is below the root
  queries,       \* the queries worker 0 has not been given yet
  shares         \* the shares and resumptions the query has left

bitmaps == <<present_team, free, finished, root, idle>>
locks == <<lock_free, lock_idle>>
tree == <<asking, below, shares>>
vars == <<pc, bitmaps, read, locks, tree, queries>>

\* Worker 0 up to the goal, in p_yapor_start and after get_work.
Waiting  == {"first", "wait_team", "goal"}
Starting == {"start_idle", "start_idle2", "start_root", "start_free",
             "start_free2", "start_free3", "start_unlock"}
Ending   == {"end", "join"}
\* The others up to get_work.
Joining  == {"wait_free", "wake", "enlist", "enlist2"}
GetWork  == {"out_root", "put_idle", "put_idle2", "refuse", "idle", "ask",
             "put_busy", "put_busy2"}
Location == Waiting \cup Starting \cup {"run"} \cup GetWork \cup Ending \cup Joining

TypeOK ==
  /\ pc \in [Worker -> Location]
  /\ present_team \subseteq Worker /\ free \subseteq Worker
  /\ finished \subseteq Worker /\ root \subseteq Worker /\ idle \subseteq Worker
  /\ read \in [Worker -> SUBSET Worker]
  /\ lock_free \in BOOLEAN /\ lock_idle \in BOOLEAN
  /\ asking \in [Worker -> Worker \cup {Nobody}]
  /\ below \subseteq Worker
  /\ queries \in 0 .. Queries /\ shares \in 0 .. Shares

Init ==
  /\ pc = [w \in Worker |-> "first"]
  /\ present_team = {} /\ free = Worker
  /\ finished = Worker /\ root = {} /\ idle = Worker
  /\ read = [w \in Worker |-> {}]
  /\ lock_free = FALSE /\ lock_idle = FALSE
  /\ asking = [w \in Worker |-> Nobody]
  /\ below = {}
  /\ queries = Queries /\ shares = 0

Goto(w, from, to) ==
  /\ pc[w] = from
  /\ pc' = [pc EXCEPT ![w] = to]

-----------------------------------------------------------------------------
(***************************************************************************)
(* getwork_first_time.                                                     *)
(***************************************************************************)
Arrive(w) ==
  /\ Goto(w, "first", IF w = Zero THEN "wait_team" ELSE "wait_free")
  /\ present_team' = present_team \cup {w}
  /\ UNCHANGED <<free, finished, root, idle, read, locks, tree, queries>>

\* Worker 0 waits until the whole team has arrived ...
TeamPresent(w) ==
  /\ present_team = Worker
  /\ Goto(w, "wait_team", "goal")
  /\ UNCHANGED <<bitmaps, read, locks, tree, queries>>

\* ... and for a goal, which it calls.
ReceiveGoal(w) ==
  /\ queries > 0
  /\ Goto(w, "goal", "start_idle")
  /\ queries' = queries - 1
  /\ UNCHANGED <<bitmaps, read, locks, tree>>

\* The others wait while every worker is free.
SeeGoal(w) ==
  /\ free # Worker
  /\ Goto(w, "wait_free", "wake")
  /\ UNCHANGED <<bitmaps, read, locks, tree, queries>>

\* PUT_OUT_FINISHED.
Wake(w) ==
  /\ Goto(w, "wake", "enlist")
  /\ finished' = finished \ {w}
  /\ UNCHANGED <<present_team, free, root, idle, read, locks, tree, queries>>

\* LOCK(GLOBAL_lock_free_workers); BITMAP_insert; UNLOCK, then
\* make_root_choice_point and get_work.
EnlistRead(w) ==
  /\ ~ lock_free
  /\ Goto(w, "enlist", "enlist2")
  /\ lock_free' = TRUE
  /\ read' = [read EXCEPT ![w] = free]
  /\ UNCHANGED <<bitmaps, lock_idle, tree, queries>>

Enlist(w) ==
  /\ Goto(w, "enlist2", "out_root")
  /\ free' = read[w] \cup {w}
  /\ read' = [read EXCEPT ![w] = {}]
  /\ lock_free' = FALSE
  /\ UNCHANGED <<present_team, finished, root, idle, lock_idle, tree, queries>>

\* shared_end.
PutInFinished(w) ==
  /\ Goto(w, "end", IF w = Zero THEN "join" ELSE "first")
  /\ finished' = finished \cup {w}
  /\ UNCHANGED <<present_team, free, root, idle, read, locks, tree, queries>>

\* Worker 0 waits until all have finished, then finish_yapor and
\* free_root_choice_point.
Join(w) ==
  /\ finished = Worker
  /\ Goto(w, "join", "first")
  /\ UNCHANGED <<bitmaps, read, locks, tree, queries>>

-----------------------------------------------------------------------------
(***************************************************************************)
(* p_yapor_start, run by worker 0.                                         *)
(***************************************************************************)

\* BITMAP_delete(GLOBAL_bm_idle_workers, 0), without the lock.
StartIdleRead(w) ==
  /\ Goto(w, "start_idle", "start_idle2")
  /\ read' = [read EXCEPT ![w] = idle]
  /\ UNCHANGED <<bitmaps, locks, tree, queries>>

StartIdle(w) ==
  /\ Goto(w, "start_idle2", "start_root")
  /\ idle' = read[w] \ {Zero}
  /\ read' = [read EXCEPT ![w] = {}]
  /\ UNCHANGED <<present_team, free, finished, root, locks, tree, queries>>

\* Mistake: keeps the bit of the query before.
StartRoot_Stays(w) ==
  /\ Goto(w, "start_root", "start_free")
  /\ UNCHANGED <<bitmaps, read, locks, tree, queries>>

\* make_root_choice_point; PUT_OUT_ROOT_NODE.
StartRoot(w) ==
  /\ Goto(w, "start_root", "start_free")
  /\ root' = root \ {w}
  /\ UNCHANGED <<present_team, free, finished, idle, read, locks, tree, queries>>

\* BITMAP_clear(GLOBAL_bm_free_workers), without the lock.
StartFree(w) ==
  /\ Goto(w, "start_free", "start_free2")
  /\ free' = {}
  /\ UNCHANGED <<present_team, finished, root, idle, read, locks, tree, queries>>

\* BITMAP_insert(GLOBAL_bm_free_workers, 0), without the lock.
StartFreeRead(w) ==
  /\ Goto(w, "start_free2", "start_free3")
  /\ read' = [read EXCEPT ![w] = free]
  /\ UNCHANGED <<bitmaps, locks, tree, queries>>

StartFreeInsert(w) ==
  /\ Goto(w, "start_free3", "start_unlock")
  /\ free' = read[w] \cup {w}
  /\ read' = [read EXCEPT ![w] = {}]
  /\ UNCHANGED <<present_team, finished, root, idle, locks, tree, queries>>

\* UNLOCK(GLOBAL_lock_free_workers), whoever holds it; then the goal runs.
StartUnlock(w) ==
  /\ Goto(w, "start_unlock", "run")
  /\ lock_free' = FALSE
  /\ below' = below \cup {w}
  /\ shares' = Shares
  /\ UNCHANGED <<bitmaps, read, lock_idle, asking, queries>>

-----------------------------------------------------------------------------
(***************************************************************************)
(* get_work.                                                               *)
(***************************************************************************)

\* The worker's branch is exhausted: SCHEDULER_GET_WORK finds no node with
\* work above.
Exhaust(w) ==
  /\ Goto(w, "run", "out_root")
  /\ UNCHANGED <<bitmaps, read, locks, tree, queries>>

\* PUT_OUT_ROOT_NODE.
OutRoot(w) ==
  /\ Goto(w, "out_root", "put_idle")
  /\ root' = root \ {w}
  /\ UNCHANGED <<present_team, free, finished, idle, read, locks, tree, queries>>

\* LOCK(GLOBAL_locks_bm_idle_workers) and the read of PUT_IDLE or PUT_BUSY.
ReadIdle(w, from, to) ==
  /\ ~ lock_idle
  /\ Goto(w, from, to)
  /\ lock_idle' = TRUE
  /\ read' = [read EXCEPT ![w] = idle]
  /\ UNCHANGED <<bitmaps, lock_free, tree, queries>>

\* The write and UNLOCK(GLOBAL_locks_bm_idle_workers).
WriteIdle(w, from, to, value) ==
  /\ Goto(w, from, to)
  /\ idle' = value
  /\ read' = [read EXCEPT ![w] = {}]
  /\ lock_idle' = FALSE
  /\ UNCHANGED <<present_team, free, finished, root, lock_free, tree, queries>>

PutIdleRead(w) == ReadIdle(w, "put_idle", "put_idle2")
PutIdle(w) == WriteIdle(w, "put_idle2", "refuse", read[w] \cup {w})

\* Mistake: forgets the requests that came before it was idle.
RefuseIfAny_Forgets(w) ==
  /\ Goto(w, "refuse", "idle")
  /\ UNCHANGED <<bitmaps, read, locks, tree, queries>>

\* SCH_refuse_share_request_if_any.
RefuseIfAny(w) ==
  /\ Goto(w, "refuse", "idle")
  /\ asking' = [q \in Worker |-> IF asking[q] = w THEN Nobody ELSE asking[q]]
  /\ UNCHANGED <<bitmaps, read, locks, below, shares, queries>>

\* move_up_one_node from below the root to the root choice point ...
MoveUp(w) ==
  /\ pc[w] = "idle"
  /\ w \in below
  /\ below' = below \ {w}
  /\ UNCHANGED <<pc, bitmaps, read, locks, asking, shares, queries>>

\* Mistake: resumes one that has no alternative left.
Resume_Again(w) ==
  /\ w \in below
  /\ Goto(w, "idle", "put_busy")
  /\ shares' = shares - 1
  /\ UNCHANGED <<bitmaps, read, locks, asking, below, queries>>

\* ... or it returns FALSE: the worker resumes a sequential choice point.
Resume(w) ==
  /\ w \in below
  /\ shares > 0
  /\ Goto(w, "idle", "put_busy")
  /\ shares' = shares - 1
  /\ UNCHANGED <<bitmaps, read, locks, asking, below, queries>>

EnterRoot(w) ==
  /\ pc[w] = "idle"
  /\ w \notin below
  /\ w \notin root
  /\ root' = root \cup {w}
  /\ UNCHANGED <<pc, present_team, free, finished, idle, read, locks, tree, queries>>

\* "All workers are idle in the root choicepoint": get_work returns FALSE.
Finish(w) ==
  /\ w \notin below
  /\ root = Worker
  /\ Goto(w, "idle", "end")
  /\ UNCHANGED <<bitmaps, read, locks, tree, queries>>

\* q_share_work registers a request with a worker that is not idle.
Ask(q, p) ==
  /\ p # q
  /\ p \notin idle
  /\ \A v \in Worker : asking[v] # p
  /\ Goto(q, "idle", "ask")
  /\ asking' = [asking EXCEPT ![q] = p]
  /\ UNCHANGED <<bitmaps, read, locks, below, shares, queries>>

Refused(q) ==
  /\ asking[q] = Nobody
  /\ Goto(q, "ask", "idle")
  /\ UNCHANGED <<bitmaps, read, locks, tree, queries>>

\* p_share_work, which p calls while it runs.
Refuse(p, q) ==
  /\ pc[p] = "run"
  /\ asking[q] = p
  /\ asking' = [asking EXCEPT ![q] = Nobody]
  /\ UNCHANGED <<pc, bitmaps, read, locks, below, shares, queries>>

\* Mistake: q keeps its bit in the root bitmap.
Share_InRoot(p, q) ==
  /\ pc[p] = "run"
  /\ asking[q] = p
  /\ shares > 0
  /\ Goto(q, "ask", "put_busy")
  /\ asking' = [asking EXCEPT ![q] = Nobody]
  /\ below' = below \cup {q}
  /\ shares' = shares - 1
  /\ UNCHANGED <<bitmaps, read, locks, queries>>

\* p and q share; q leaves the root bitmap before it lets p go.
Share(p, q) ==
  /\ pc[p] = "run"
  /\ asking[q] = p
  /\ shares > 0
  /\ Goto(q, "ask", "put_busy")
  /\ asking' = [asking EXCEPT ![q] = Nobody]
  /\ root' = root \ {q}
  /\ below' = below \cup {q}
  /\ shares' = shares - 1
  /\ UNCHANGED <<present_team, free, finished, idle, read, locks, queries>>

PutBusyRead(w) == ReadIdle(w, "put_busy", "put_busy2")
PutBusy(w) == WriteIdle(w, "put_busy2", "run", read[w] \ {w})

-----------------------------------------------------------------------------
\* Worker 0 has no goal and the others wait for one.
Rest ==
  /\ pc[Zero] = "goal" /\ queries = 0
  /\ \A w \in Worker \ {Zero} : pc[w] = "wait_free"

AtRest == Rest /\ UNCHANGED vars

FirstTime(w) ==
  \/ Arrive(w) \/ TeamPresent(w) \/ ReceiveGoal(w) \/ SeeGoal(w) \/ Wake(w)
  \/ EnlistRead(w) \/ Enlist(w) \/ PutInFinished(w) \/ Join(w)

YaporStart(w) ==
  \/ StartIdleRead(w) \/ StartIdle(w) \/ StartRoot(w) \/ StartFree(w)
  \/ StartFreeRead(w) \/ StartFreeInsert(w) \/ StartUnlock(w)

Schedule(w) ==
  \/ Exhaust(w) \/ OutRoot(w) \/ PutIdleRead(w) \/ PutIdle(w) \/ RefuseIfAny(w)
  \/ MoveUp(w) \/ Resume(w) \/ EnterRoot(w) \/ Finish(w) \/ Refused(w)
  \/ PutBusyRead(w) \/ PutBusy(w)

Step(w) == FirstTime(w) \/ YaporStart(w) \/ Schedule(w)

Next ==
  \/ \E w \in Worker :
       \/ Step(w)
       \/ \E p \in Worker : Ask(w, p) \/ Refuse(w, p) \/ Share(w, p)
  \/ AtRest

Spec == Init /\ [][Next]_vars

(***************************************************************************)
(* Each worker keeps running.  One that asks again and again leaves the    *)
(* loop of get_work when it can again and again (strong fairness): the     *)
(* loop tests this in every round, before it asks.  A locked section is    *)
(* short: a worker that wants the lock gets it.                            *)
(***************************************************************************)
Progress(w) ==
  \/ EnlistRead(w) \/ PutIdleRead(w) \/ PutBusyRead(w)
  \/ MoveUp(w) \/ EnterRoot(w) \/ Finish(w)

Fairness == \A w \in Worker : WF_vars(Step(w)) /\ SF_vars(Progress(w))

FairSpec == Spec /\ Fairness

\* With a worker 0 that, as it polls the finished bitmap, also sees a value
\* that the bitmap has again and again.
PollSpec == FairSpec /\ SF_vars(Join(Zero))
-----------------------------------------------------------------------------
(***************************************************************************)
(* Properties.                                                             *)
(***************************************************************************)

\* Worker 0 is between two queries, or starts one.
BetweenQueries == pc[Zero] \in Waiting \cup Starting \cup Ending

\* Bits that the bitmaps keep from the query before (a worker that has not
\* woken up yet counts as finished and as in the root choice point) let
\* worker 0 end a query early, but never one somebody still works on, and
\* no request is left over in the next one.
NoWorkLeftBehind == BetweenQueries => below = {}

\* A worker comes out of get_work only when nobody has work, and so does one
\* that is late and sees the bits of two queries.
OutOnlyWhenDone ==
  [][\A w \in Worker : pc[w] = "idle" /\ pc'[w] = "end" => below = {}]_vars

\* A worker is between the read and the write of its update of the free
\* workers while p_yapor_start changes them, or releases its lock.
EnlistRace ==
  /\ pc[Zero] \in {"start_free", "start_free2", "start_free3", "start_unlock"}
  /\ \E w \in Worker : pc[w] = "enlist2"

\* Worker 0 comes to the end of each query and waits for the next goal: no
\* late worker, bit of the query before or lost bit of the idle bitmap keeps
\* it, only the race with a worker that enlists.  (After that race a bit can
\* be missing for good, or two workers hold the lock by turns: the others go
\* through get_work again and again, and from three workers on there need
\* not be a moment when all have finished.)
QueryEnds ==
  []~EnlistRace => ((pc[Zero] = "run") ~> (pc[Zero] = "goal"))

\* "wait for a new parallel goal" (or.insts.i:62): when there is none any
\* more, every worker comes to wait for one.
ComesToRest == <>[]Rest
=============================================================================
