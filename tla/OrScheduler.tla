---------------------------- MODULE OrScheduler -----------------------------
(***************************************************************************)
(* The or-tree of one team and the scheduler that distributes it: the      *)
(* instructions getwork and getwork_seq (OPTYap/or.insts.i), get_work and  *)
(* its helpers (or.scheduler.c) and share_private_nodes                    *)
(* (or.copy_engine.c), in the environment-copying, non-tabling build.      *)
(*                                                                         *)
(* Every worker has a stack of choice points.  Those up to its top_cp are  *)
(* public: an or-frame holds their untried alternatives, the workers that  *)
(* have the node on their stack (members) and a pointer to the nearest     *)
(* node above that may have work.  The younger ones are private.  A worker *)
(* takes the alternatives of its own choice points, then those of public   *)
(* nodes above, and then asks a busy worker to share its private nodes.    *)
(*                                                                         *)
(* A section under the lock of an or-frame, of a worker or of a bitmap is  *)
(* one action, and so is the handshake that hands over a request's answer  *)
(* and the stacks: WorkSharing shows that it is atomic.  Which worker is   *)
(* asked is left open, and so is the part of p_share_work's condition that *)
(* depends on loads.  Cuts and pruning are left out.                       *)
(***************************************************************************)
EXTENDS SearchTree

CONSTANTS Worker,      \* the workers of the team
          None         \* NULL, for pointers to or-frames

ASSUME NoneAssumption == None \notin Node

(***************************************************************************)
(* cp_ap of a choice point: the alternative to try next, or the            *)
(* instruction that looks it up in the or-frame.                           *)
(***************************************************************************)
NULL == 0            \* no alternative left; in cp_ap: not on the stack
GETWORK == -1
GETWORK_SEQ == -2

VARIABLES
  pc,              \* pc[w]: what w is doing
  cur,             \* cur[w]: the alternative w is running
  cp_ap,           \* cp_ap[w][n]: in w's copy of choice point n
  top_cp,          \* LOCAL_top_cp of w: its youngest public choice point
  alternative,     \* OrFr_alternative(n)
  members,         \* OrFr_members(n); empty when n has no or-frame
  nearest_livenode,\* OrFr_nearest_livenode(n)
  node,            \* the local variable current_node or or_fr_with_work of w
  target,          \* the local variable worker_p or busy_above of w
  idle,            \* GLOBAL_bm_idle_workers
  root,            \* GLOBAL_bm_root_cp_workers
  invisible,       \* GLOBAL_bm_invisible_workers
  taken            \* history: the alternatives that have been taken

frames == <<alternative, members, nearest_livenode>>
bitmaps == <<idle, root, invisible>>
locals == <<node, target>>
vars == <<pc, cur, cp_ap, top_cp, frames, locals, bitmaps, taken>>

Location == {"run", "fail", "scan", "to_work", "no_work", "idle", "look",
             "above", "better", "ask", "shared", "end"}

TypeOK ==
  /\ pc \in [Worker -> Location]
  /\ cur \in [Worker -> Alternative]
  /\ cp_ap \in [Worker -> [Node -> Int]]
  /\ \A w \in Worker, n \in Node :
       cp_ap[w][n] \in {NULL, GETWORK, GETWORK_SEQ} \cup (2 .. Len(Tree[n]))
  /\ top_cp \in [Worker -> Node]
  /\ alternative \in [Node -> Int]
  /\ \A n \in Node : alternative[n] \in {NULL} \cup (2 .. Len(Tree[n]))
  /\ members \in [Node -> SUBSET Worker]
  /\ nearest_livenode \in [Node -> Node \cup {None}]
  /\ node \in [Worker -> Node]
  /\ target \in [Worker -> SUBSET Worker]
  /\ idle \subseteq Worker
  /\ root \subseteq Worker
  /\ invisible \subseteq Worker
  /\ taken \subseteq Alternative

(***************************************************************************)
(* The stack of a worker.                                                  *)
(***************************************************************************)
Stack(w) == {n \in Node : cp_ap[w][n] # NULL}

\* The register B.
B(w) == Youngest(Stack(w))

\* cp_b of choice point n.
CpB(w, n) == Youngest({m \in Stack(w) : <<n, m>> \in Under})

Private(w) == {n \in Stack(w) : <<n, top_cp[w]>> \in Under}
Public(w) == Stack(w) \ Private(w)

\* Mistake: goes past the last alternative.
NextAlternative_Overruns(n, a) == a + 1

\* The alternative after a of choice point n.
NextAlternative(n, a) == IF a < Len(Tree[n]) THEN a + 1 ELSE NULL

(***************************************************************************)
(* The query has been called: worker `first' runs it, the others have come *)
(* from make_root_choice_point into get_work.                              *)
(***************************************************************************)
InitFor(first) ==
  /\ pc = [w \in Worker |-> IF w = first THEN "run" ELSE "scan"]
  /\ cur = [w \in Worker |-> Query]
  /\ cp_ap = [w \in Worker |-> [n \in Node |-> IF n = Root THEN GETWORK ELSE NULL]]
  /\ top_cp = [w \in Worker |-> Root]
  /\ alternative = [n \in Node |-> NULL]
  /\ members = [n \in Node |-> IF n = Root THEN Worker ELSE {}]
  /\ nearest_livenode = [n \in Node |-> None]
  /\ node = [w \in Worker |-> Root]
  /\ target = [w \in Worker |-> {}]
  /\ idle = Worker \ {first}
  /\ root = {}
  /\ invisible = {}
  /\ taken = {Query}

Init == \E first \in Worker : InitFor(first)

Goto(w, from, to) ==
  /\ pc[w] = from
  /\ pc' = [pc EXCEPT ![w] = to]

\* w goes on with alternative x.
Take(w, x) ==
  /\ cur' = [cur EXCEPT ![w] = x]
  /\ taken' = taken \cup {x}

-----------------------------------------------------------------------------
(***************************************************************************)
(* The engine.                                                             *)
(***************************************************************************)

\* The goal has several clauses: the instruction try pushes a choice point.
Try(w) ==
  LET n == Created(cur[w]) IN
  /\ pc[w] = "run"
  /\ n # Leaf
  /\ cp_ap' = [cp_ap EXCEPT ![w][n] = 2]
  /\ Take(w, <<n, 1>>)
  /\ UNCHANGED <<pc, top_cp, frames, locals, bitmaps>>

\* The goal fails, or the query is asked for its next answer.
Fail(w) ==
  /\ Created(cur[w]) = Leaf
  /\ Goto(w, "run", "fail")
  /\ UNCHANGED <<cur, cp_ap, top_cp, frames, locals, bitmaps, taken>>

\* Backtrack into a private choice point; the last alternative pops it.
Retry(w) ==
  LET n == B(w)
      a == cp_ap[w][n] IN
  /\ n # top_cp[w]
  /\ Goto(w, "fail", "run")
  /\ Take(w, <<n, a>>)
  /\ cp_ap' = [cp_ap EXCEPT ![w][n] = NextAlternative(n, a)]
  /\ UNCHANGED <<top_cp, frames, locals, bitmaps>>

\* Mistake: getwork_seq does not look who else is in the node.
HasWork_NotAlone(w, n) == alternative[n] # NULL

\* The condition under which getwork and getwork_seq take an alternative.
HasWork(w, n) ==
  /\ alternative[n] # NULL
  /\ cp_ap[w][n] = GETWORK_SEQ => members[n] = {w}

\* getwork, getwork_seq and SCH_new_alternative, under the frame's lock.
GetAlternative(w) ==
  LET n == top_cp[w] IN
  /\ B(w) = n
  /\ HasWork(w, n)
  /\ Goto(w, "fail", "run")
  /\ Take(w, <<n, alternative[n]>>)
  /\ alternative' = [alternative EXCEPT ![n] = NextAlternative(n, @)]
  /\ UNCHANGED <<cp_ap, top_cp, members, nearest_livenode, locals, bitmaps>>

\* getwork and getwork_seq otherwise: SCHEDULER_GET_WORK.
EnterScheduler(w) ==
  LET n == top_cp[w] IN
  /\ B(w) = n
  /\ ~ HasWork(w, n)
  /\ Goto(w, "fail", "scan")
  /\ node' = [node EXCEPT ![w] = n]
  /\ UNCHANGED <<cur, cp_ap, top_cp, frames, target, bitmaps, taken>>

-----------------------------------------------------------------------------
(***************************************************************************)
(* move_up_one_node.                                                       *)
(***************************************************************************)

\* "last worker in a sequential choicepoint": it returns FALSE.
LastInSequential(w) ==
  LET n == top_cp[w] IN
  alternative[n] # NULL /\ n \in Sequential /\ members[n] = {w}

\* It returns TRUE: the last member frees the frame, another one leaves it.
\* Then SCH_update_local_or_tops.
MoveUp(w, live) ==
  LET n == top_cp[w]
      alone == members[n] = {w} IN
  /\ ~ LastInSequential(w)
  /\ members' = [members EXCEPT ![n] = @ \ {w}]
  /\ alternative' = [alternative EXCEPT ![n] = IF alone THEN NULL ELSE @]
  /\ nearest_livenode' = [nearest_livenode EXCEPT ![n] =
       IF alone THEN None ELSE IF live # None THEN live ELSE @]
  /\ top_cp' = [top_cp EXCEPT ![w] = CpB(w, n)]
  /\ cp_ap' = [cp_ap EXCEPT ![w][n] = NULL]

-----------------------------------------------------------------------------
(***************************************************************************)
(* get_work, before the worker is idle.                                    *)
(***************************************************************************)

\* Mistake: looks at one or-frame only.
Scan_Once(w) ==
  LET n == nearest_livenode[node[w]]
      live == n # None /\ alternative[n] # NULL /\ n \notin Sequential IN
  /\ Goto(w, "scan", IF live THEN "to_work" ELSE "no_work")
  /\ node' = [node EXCEPT ![w] = IF live THEN n ELSE top_cp[w]]
  /\ UNCHANGED <<cur, cp_ap, top_cp, frames, target, bitmaps, taken>>

\* The loop that follows nearest_livenode, one or-frame at a time.
Scan(w) ==
  LET n == nearest_livenode[node[w]]
      live == n # None /\ alternative[n] # NULL /\ n \notin Sequential IN
  /\ Goto(w, "scan", IF n = None THEN "no_work" ELSE IF live THEN "to_work" ELSE "scan")
  /\ node' = [node EXCEPT ![w] = IF n = None THEN top_cp[w] ELSE n]
  /\ UNCHANGED <<cur, cp_ap, top_cp, frames, target, bitmaps, taken>>

\* Move up to the node with work, one node at a time.
ToWork(w) ==
  /\ pc[w] = "to_work"
  /\ MoveUp(w, node[w])
  /\ Goto(w, "to_work", IF top_cp'[w] = node[w] THEN "fail" ELSE "to_work")
  /\ UNCHANGED <<cur, locals, bitmaps, taken>>

ToWorkStops(w) ==
  /\ LastInSequential(w)
  /\ Goto(w, "to_work", "fail")
  /\ UNCHANGED <<cur, cp_ap, top_cp, frames, locals, bitmaps, taken>>

\* PUT_NO_WORK_IN_UPPER_NODES, one or-frame at a time and without a lock.
PutNoWork(w) ==
  LET n == node[w] IN
  /\ pc[w] = "no_work"
  /\ nearest_livenode[n] # None
  /\ node' = [node EXCEPT ![w] = nearest_livenode[n]]
  /\ nearest_livenode' = [nearest_livenode EXCEPT ![n] = None]
  /\ UNCHANGED <<pc, cur, cp_ap, top_cp, alternative, members, target, bitmaps, taken>>

\* Mistake: goes idle without a look at share_request.
PutIdle_Forgets(w) ==
  /\ nearest_livenode[node[w]] = None
  /\ Goto(w, "no_work", "idle")
  /\ root' = root \ {w}
  /\ idle' = idle \cup {w}
  /\ UNCHANGED <<cur, cp_ap, top_cp, frames, locals, invisible, taken>>

\* PUT_OUT_ROOT_NODE, PUT_IDLE, SCH_refuse_share_request_if_any.
PutIdle(w) ==
  /\ pc[w] = "no_work"
  /\ nearest_livenode[node[w]] = None
  /\ pc' = [v \in Worker |-> IF v = w THEN "idle"
                             ELSE IF pc[v] = "ask" /\ w \in target[v] THEN "look"
                             ELSE pc[v]]
  /\ root' = root \ {w}
  /\ idle' = idle \cup {w}
  /\ UNCHANGED <<cur, cp_ap, top_cp, frames, locals, invisible, taken>>

-----------------------------------------------------------------------------
(***************************************************************************)
(* get_work's idle loop.                                                   *)
(***************************************************************************)

\* "no busy workers here and below".
NobodyBusyBelow(w) == members[top_cp[w]] \subseteq idle /\ top_cp[w] # Root

IdleUp(w) ==
  /\ pc[w] = "idle"
  /\ NobodyBusyBelow(w)
  /\ MoveUp(w, None)
  /\ UNCHANGED <<pc, cur, locals, bitmaps, taken>>

\* The worker goes on with the sequential choice point: PUT_BUSY.
Resume(w, from) ==
  /\ LastInSequential(w)
  /\ Goto(w, from, "fail")
  /\ idle' = idle \ {w}
  /\ UNCHANGED <<cur, cp_ap, top_cp, frames, locals, root, invisible, taken>>

IdleResume(w) == NobodyBusyBelow(w) /\ Resume(w, "idle")

EnterRoot(w) ==
  /\ pc[w] = "idle"
  /\ top_cp[w] = Root
  /\ w \notin root
  /\ root' = root \cup {w}
  /\ UNCHANGED <<pc, cur, cp_ap, top_cp, frames, locals, idle, invisible, taken>>

\* "All workers are idle in the root choicepoint": get_work returns FALSE.
Finish(w) ==
  /\ top_cp[w] = Root
  /\ root = Worker
  /\ Goto(w, "idle", "end")
  /\ UNCHANGED <<cur, cp_ap, top_cp, frames, locals, bitmaps, taken>>

\* Otherwise look for a worker to ask, below, above and then elsewhere ...
Look(w) ==
  /\ ~ NobodyBusyBelow(w)
  /\ top_cp[w] = Root => w \in root /\ root # Worker
  /\ Goto(w, "idle", "look")
  /\ UNCHANGED <<cur, cp_ap, top_cp, frames, locals, bitmaps, taken>>

\* ... and start again.
NextRound(w) ==
  /\ Goto(w, "look", "idle")
  /\ UNCHANGED <<cur, cp_ap, top_cp, frames, locals, bitmaps, taken>>

\* get_work_above: choose a visible busy worker that is not below, and hide
\* with it.
GoAbove(w, p) ==
  /\ p \notin members[top_cp[w]] \cup idle \cup invisible
  /\ Goto(w, "look", "above")
  /\ target' = [target EXCEPT ![w] = {p}]
  /\ invisible' = invisible \cup {w, p}
  /\ UNCHANGED <<cur, cp_ap, top_cp, frames, node, idle, root, taken>>

\* Move up until p is a member, then be visible again.
AboveUp(w) ==
  LET p == target[w] IN
  /\ pc[w] = "above"
  /\ MoveUp(w, None)
  /\ LET there == p \subseteq members'[top_cp'[w]] IN
     /\ Goto(w, "above", IF there THEN "look" ELSE "above")
     /\ invisible' = IF there THEN invisible \ ({w} \cup p) ELSE invisible
  /\ UNCHANGED <<cur, locals, idle, root, taken>>

\* The early return of get_work_above.
AboveResume(w) == Resume(w, "above")

\* find_a_better_position: choose all the busy workers that are not below.
GoBetter(w, P) ==
  /\ P # {}
  /\ P \subseteq Worker \ (members[top_cp[w]] \cup idle)
  /\ Goto(w, "look", "better")
  /\ target' = [target EXCEPT ![w] = P]
  /\ UNCHANGED <<cur, cp_ap, top_cp, frames, node, bitmaps, taken>>

BetterUp(w) ==
  /\ pc[w] = "better"
  /\ MoveUp(w, None)
  /\ Goto(w, "better",
          IF target[w] \subseteq members'[top_cp'[w]] THEN "look" ELSE "better")
  /\ UNCHANGED <<cur, locals, bitmaps, taken>>

BetterResume(w) == Resume(w, "better")

-----------------------------------------------------------------------------
(***************************************************************************)
(* q_share_work and p_share_work.                                          *)
(***************************************************************************)

\* Under LOCK_WORKER(p): p is busy and has no other request.
Ask(q, p) ==
  /\ p # q
  /\ p \notin idle
  /\ \A v \in Worker : ~ (pc[v] = "ask" /\ p \in target[v])
  /\ Goto(q, "look", "ask")
  /\ target' = [target EXCEPT ![q] = {p}]
  /\ UNCHANGED <<cur, cp_ap, top_cp, frames, node, bitmaps, taken>>

\* p, which is at a call, has q's request.
Asked(p, q) == pc[p] = "run" /\ pc[q] = "ask" /\ target[q] = {p}

Refuse(p, q) ==
  /\ Asked(p, q)
  /\ Goto(q, "ask", "look")
  /\ UNCHANGED <<cur, cp_ap, top_cp, frames, locals, bitmaps, taken>>

\* What share_private_nodes leaves in p's choice points: new ones refer to
\* their or-frame.
SharedAp(p) ==
  [n \in Node |-> IF n \notin Private(p) THEN cp_ap[p][n]
                  ELSE IF n \in Sequential THEN GETWORK_SEQ ELSE GETWORK]

\* Mistake: does not make q a member of the nodes that were public already.
SharePrivateNodes_NewOnly(p, q) ==
  LET new == Private(p) IN
  /\ alternative' = [n \in Node |-> IF n \in new THEN cp_ap[p][n] ELSE alternative[n]]
  /\ members' = [n \in Node |-> IF n \in new THEN {p, q} ELSE members[n]]
  /\ nearest_livenode' =
       [n \in Node |-> IF n \in new THEN CpB(p, n) ELSE nearest_livenode[n]]
  /\ cp_ap' = [cp_ap EXCEPT ![p] = SharedAp(p), ![q] = SharedAp(p)]
  /\ top_cp' = [top_cp EXCEPT ![p] = B(p), ![q] = B(p)]

\* share_private_nodes: an or-frame for every private node, q a member of
\* the public nodes it did not have, the same top for both. One step: the code
\* locks the public nodes one by one and sets the tops at the end, and p, who
\* does all of it, is a member of each of them throughout.
SharePrivateNodes(p, q) ==
  LET new == Private(p)
      old == {n \in Public(p) : <<n, top_cp[q]>> \in Under} IN
  /\ alternative' = [n \in Node |-> IF n \in new THEN cp_ap[p][n] ELSE alternative[n]]
  /\ members' = [n \in Node |-> IF n \in new THEN {p, q}
                                ELSE IF n \in old THEN members[n] \cup {q} ELSE members[n]]
  /\ nearest_livenode' =
       [n \in Node |-> IF n \in new THEN CpB(p, n) ELSE nearest_livenode[n]]
  /\ cp_ap' = [cp_ap EXCEPT ![p] = SharedAp(p), ![q] = SharedAp(p)]
  /\ top_cp' = [top_cp EXCEPT ![p] = B(p), ![q] = B(p)]

\* p shares; q has a copy of its stacks and is not in the root node any more.
Share(p, q) ==
  /\ Asked(p, q)
  /\ p \in members[top_cp[q]]
  /\ B(p) # top_cp[q]
  /\ SharePrivateNodes(p, q)
  /\ Goto(q, "ask", "shared")
  /\ root' = root \ {q}
  /\ UNCHANGED <<cur, locals, idle, invisible, taken>>

\* q_share_work has returned TRUE: PUT_BUSY.
PutBusy(q) ==
  /\ Goto(q, "shared", "fail")
  /\ idle' = idle \ {q}
  /\ UNCHANGED <<cur, cp_ap, top_cp, frames, locals, root, invisible, taken>>

-----------------------------------------------------------------------------
Over ==
  /\ \A w \in Worker : pc[w] = "end"
  /\ UNCHANGED vars

Engine(w) == Try(w) \/ Fail(w) \/ Retry(w) \/ GetAlternative(w) \/ EnterScheduler(w)

GetWork(w) == Scan(w) \/ ToWork(w) \/ ToWorkStops(w) \/ PutNoWork(w) \/ PutIdle(w)

Climb(w) == AboveUp(w) \/ AboveResume(w) \/ BetterUp(w) \/ BetterResume(w)

IdleLoop(w) == IdleUp(w) \/ IdleResume(w) \/ EnterRoot(w) \/ Finish(w) \/ Look(w)

Next ==
  \/ \E w \in Worker :
       \/ Engine(w) \/ GetWork(w) \/ Climb(w) \/ IdleLoop(w) \/ NextRound(w)
       \/ PutBusy(w)
       \/ \E p \in Worker : GoAbove(w, p) \/ Ask(w, p) \/ Refuse(w, p) \/ Share(w, p)
       \/ \E P \in SUBSET Worker : GoBetter(w, P)
  \/ Over

Spec == Init /\ [][Next]_vars

(***************************************************************************)
(* Each worker keeps running, and makes finitely many searches in a round  *)
(* of its idle loop (strong fairness of the next round).                   *)
(***************************************************************************)
Fairness ==
  \A w \in Worker :
    /\ WF_vars(Engine(w)) /\ WF_vars(GetWork(w)) /\ WF_vars(Climb(w))
    /\ WF_vars(IdleLoop(w)) /\ WF_vars(PutBusy(w))
    /\ SF_vars(NextRound(w))

FairSpec == Spec /\ Fairness
-----------------------------------------------------------------------------
(***************************************************************************)
(* Properties.                                                             *)
(***************************************************************************)

\* An or-frame is freed by its last member and by nobody else: the members
\* of a node are exactly the workers that have it as a public choice point.
MembersExact ==
  \A n \in Node : members[n] = {w \in Worker : n \in Public(w)}

\* The path to work is never cut off: an or-frame's nearest_livenode skips
\* no parallel node above it that has alternatives left.
LiveNodesReachable ==
  \A n, m \in Node :
    /\ members[n] # {} /\ members[m] # {} /\ <<n, m>> \in Under
    /\ alternative[m] # NULL /\ m \notin Sequential
    => /\ nearest_livenode[n] # None
       /\ AtOrUnder(nearest_livenode[n], m)

\* The tree of frames, stacks and locks explores the search tree: every
\* alternative once, sequential predicates in order, all of it at the end.
Search == INSTANCE OrSearch WITH
  running <- {cur[w] : w \in {v \in Worker : pc[v] = "run"}},
  over <- \E w \in Worker : pc[w] = "end"

ExploresTheTree == Search!Spec

\* A worker is hidden from get_work_above only while one moves up to it:
\* "put workers invisibles ... move up to cp with worker_p ... put workers
\* visibles" (or.scheduler.c:589-605).
HiddenOnlyOnTheWay ==
  \A w \in invisible :
    \E v \in Worker : pc[v] = "above" /\ (v = w \/ w \in target[v])

\* The query ends, and every worker comes out of the scheduler.
QueryEnds == <>(\A w \in Worker : pc[w] = "end")
=============================================================================
