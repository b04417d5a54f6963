---------------------------- MODULE WorkSharing -----------------------------
(***************************************************************************)
(* Work sharing between the workers of one team: the busy side             *)
(* p_share_work, the idle side q_share_work (OPTYap/or.copy_engine.c) and  *)
(* the part of get_work that leads to them (OPTYap/or.scheduler.c), in the *)
(* environment-copying, non-tabling, non-incremental build.                *)
(*                                                                         *)
(* A worker that runs out of work (q) registers a request with a busy one  *)
(* (p).  When p next checks for requests it refuses or accepts; to accept  *)
(* it makes its private choice points public and then both copy the three  *)
(* stack segments at the same time: p claims local, global, trail in that  *)
(* order by lowering p_fase[q], q claims trail, global, local by raising   *)
(* q_fase[q], each claim under lock_signals(q).                            *)
(*                                                                         *)
(* An action is the code between two points where another worker can see   *)
(* or change something it uses; a section under a lock is one action.      *)
(* Which victim is chosen (by load and position in the or-tree) and        *)
(* whether p accepts (load, live nodes, position) are left open.           *)
(***************************************************************************)
EXTENDS Integers

CONSTANTS Worker,     \* the workers of the team
          Nobody,     \* MAX_WORKERS: no request
          Version     \* the computations a worker can be in the middle of

ASSUME WorkerAssumption == Nobody \notin Worker
ASSUME VersionAssumption == Version # {}

(***************************************************************************)
(* enum reply_signal and the two enums of phases (opt.structs.h).  The     *)
(* code compares them with <, so they are numbers.                         *)
(***************************************************************************)
no_sharing   == 0
sharing      == 1
nodes_shared == 2
copy_done    == 3
worker_ready == 4
Reply == no_sharing .. worker_ready

Q_idle == 0
trail  == 1
global == 2
local  == 3
P_idle == 4
Phase   == Q_idle .. P_idle
Segment == trail .. local

(***************************************************************************)
(* Program counters, grouped by the function the worker is in.             *)
(***************************************************************************)
PStart   == {"p_ready"}
PCopying == {"p_nodes", "p_shared", "p_local", "p_copy_local", "p_global",
             "p_copy_global", "p_trail", "p_copy_trail", "p_sync"}
PWaiting == {"p_wait_q", "p_release"}
PSharing == PStart \cup PCopying \cup PWaiting
GetWork  == {"gw_wait", "gw_idle", "gw_refuse", "gw_refuse_end"}
QCopying == {"q_trail", "q_copy_trail", "q_global", "q_copy_global",
             "q_local", "q_copy_local", "q_sync", "q_wait_done", "q_release"}
QAsking  == {"q_wait"} \cup QCopying
QAfter   == {"q_ready", "q_busy"}
Location == {"run", "p_refuse", "idle", "q_lock", "end"}
            \cup PSharing \cup GetWork \cup QAsking \cup QAfter

VARIABLES
  pc,             \* pc[w]: where w is
  partner,        \* partner[w]: the local variable worker_q or worker_p of w
  mem,            \* mem[w][s]: which computation segment s of w's stacks belongs to
  public,         \* public[w]: every choice point in w's local stack is shared
  idle,           \* GLOBAL_bm_idle_workers
  root,           \* GLOBAL_bm_root_cp_workers
  requestable,    \* GLOBAL_bm_requestable_workers
  share_request,  \* REMOTE_share_request(w)
  reply_signal,   \* REMOTE_reply_signal(w)
  p_fase,         \* REMOTE_p_fase_signal(w)
  q_fase          \* REMOTE_q_fase_signal(w)

stacks  == <<mem, public>>
bitmaps == <<idle, root, requestable>>
signals == <<reply_signal, p_fase, q_fase>>
vars == <<pc, partner, stacks, bitmaps, share_request, signals>>

TypeOK ==
  /\ pc \in [Worker -> Location]
  /\ partner \in [Worker -> Worker]
  /\ mem \in [Worker -> [Segment -> Version]]
  /\ public \in [Worker -> BOOLEAN]
  /\ idle \subseteq Worker
  /\ root \subseteq Worker
  /\ requestable \subseteq Worker
  /\ share_request \in [Worker -> Worker \cup {Nobody}]
  /\ reply_signal \in [Worker -> Reply]
  /\ p_fase \in [Worker -> Phase]
  /\ q_fase \in [Worker -> Phase]

(***************************************************************************)
(* The start of a query: worker 0 runs it, the others have been let into   *)
(* get_work with the root choice point as their only one.  Nothing here    *)
(* depends on which worker is called 0.                                    *)
(***************************************************************************)
InitFor(first) ==
  /\ pc = [w \in Worker |-> IF w = first THEN "run" ELSE "gw_wait"]
  /\ partner = [w \in Worker |-> w]
  /\ mem \in {[w \in Worker |-> [s \in Segment |-> v]] : v \in Version}
  /\ public = [w \in Worker |-> FALSE]
  /\ idle = Worker \ {first}
  /\ root = {}
  /\ requestable = {}
  /\ share_request = [w \in Worker |-> Nobody]
  /\ reply_signal = [w \in Worker |-> worker_ready]
  /\ p_fase = [w \in Worker |-> P_idle]
  /\ q_fase = [w \in Worker |-> Q_idle]

Init == \E first \in Worker : InitFor(first)

Goto(w, from, to) ==
  /\ pc[w] = from
  /\ pc' = [pc EXCEPT ![w] = to]

-----------------------------------------------------------------------------
(***************************************************************************)
(* A busy worker.                                                          *)
(***************************************************************************)

\* The engine runs Prolog: it changes all three stacks and pushes private
\* choice points.
Run(w) ==
  /\ pc[w] = "run"
  /\ \E v \in Version : mem' = [mem EXCEPT ![w] = [s \in Segment |-> v]]
  /\ public' = [public EXCEPT ![w] = FALSE]
  /\ UNCHANGED <<pc, partner, bitmaps, share_request, signals>>

\* SCH_check_share_request finds a request and p_share_work refuses it ...
P_Refuse(p) ==
  /\ share_request[p] # Nobody
  /\ Goto(p, "run", "p_refuse")
  /\ reply_signal' = [reply_signal EXCEPT ![share_request[p]] = no_sharing]
  /\ UNCHANGED <<partner, stacks, bitmaps, share_request, p_fase, q_fase>>

\* ... and takes it away.
P_RefuseEnd(p) ==
  /\ Goto(p, "p_refuse", "run")
  /\ share_request' = [share_request EXCEPT ![p] = Nobody]
  /\ requestable' = requestable \ {p}
  /\ UNCHANGED <<partner, stacks, idle, root, signals>>

\* ... or accepts it: computes the segments and resets both phases.
P_Accept(p) ==
  LET q == share_request[p] IN
  /\ q # Nobody
  /\ Goto(p, "run", "p_ready")
  /\ partner' = [partner EXCEPT ![p] = q]
  /\ q_fase' = [q_fase EXCEPT ![q] = Q_idle]
  /\ p_fase' = [p_fase EXCEPT ![q] = P_idle]
  /\ UNCHANGED <<stacks, bitmaps, share_request, reply_signal>>

\* Mistake: moves q's signal on from what it is.
P_Start_Increments(p) ==
  /\ reply_signal[p] = worker_ready
  /\ Goto(p, "p_ready", "p_nodes")
  /\ reply_signal' = [reply_signal EXCEPT ![p] = sharing, ![partner[p]] = @ + 1]
  /\ UNCHANGED <<partner, stacks, bitmaps, share_request, p_fase, q_fase>>

\* "wait for incomplete installations", then tell q that sharing has begun.
P_Start(p) ==
  /\ reply_signal[p] = worker_ready
  /\ Goto(p, "p_ready", "p_nodes")
  /\ reply_signal' = [reply_signal EXCEPT ![p] = sharing, ![partner[p]] = sharing]
  /\ UNCHANGED <<partner, stacks, bitmaps, share_request, p_fase, q_fase>>

\* share_private_nodes: the choice points of p's local stack become public.
P_ShareNodes(p) ==
  /\ Goto(p, "p_nodes", "p_shared")
  /\ public' = [public EXCEPT ![p] = TRUE]
  /\ UNCHANGED <<partner, mem, bitmaps, share_request, signals>>

P_NodesShared(p) ==
  /\ Goto(p, "p_shared", "p_local")
  /\ reply_signal' = [reply_signal EXCEPT ![partner[p]] = nodes_shared]
  /\ UNCHANGED <<partner, stacks, bitmaps, share_request, p_fase, q_fase>>

\* Mistake: claims a segment q is copying.
P_Claim_OffByOne(p, s, from, copying) ==
  LET q == partner[p] IN
  /\ Goto(p, from, IF q_fase[q] <= s THEN copying ELSE "p_sync")
  /\ p_fase' = [p_fase EXCEPT ![q] = IF q_fase[q] <= s THEN s ELSE @]
  /\ UNCHANGED <<partner, stacks, bitmaps, share_request, reply_signal, q_fase>>

\* Under lock_signals(q): claim segment s unless q has got that far.
P_Claim(p, s, from, copying) ==
  LET q == partner[p] IN
  /\ Goto(p, from, IF q_fase[q] < s THEN copying ELSE "p_sync")
  /\ p_fase' = [p_fase EXCEPT ![q] = IF q_fase[q] < s THEN s ELSE @]
  /\ UNCHANGED <<partner, stacks, bitmaps, share_request, reply_signal, q_fase>>

\* memcpy of segment s from worker `from' to worker `to'.  The local segment
\* holds the choice points, hence what is public.
CopySegment(from, to, s) ==
  /\ mem' = [mem EXCEPT ![to][s] = mem[from][s]]
  /\ public' = IF s = local THEN [public EXCEPT ![to] = public[from]] ELSE public

P_Copy(p, s, copying, to) ==
  /\ Goto(p, copying, to)
  /\ CopySegment(p, partner[p], s)
  /\ UNCHANGED <<partner, bitmaps, share_request, signals>>

P_ClaimLocal(p)  == P_Claim(p, local, "p_local", "p_copy_local")
P_CopyLocal(p)   == P_Copy(p, local, "p_copy_local", "p_global")
P_ClaimGlobal(p) == P_Claim(p, global, "p_global", "p_copy_global")
P_CopyGlobal(p)  == P_Copy(p, global, "p_copy_global", "p_trail")
P_ClaimTrail(p)  == P_Claim(p, trail, "p_trail", "p_copy_trail")
P_CopyTrail(p)   == P_Copy(p, trail, "p_copy_trail", "p_sync")

\* sync_with_q: p's share of the copying is done.
P_CopyDone(p) ==
  /\ Goto(p, "p_sync", "p_wait_q")
  /\ reply_signal' = [reply_signal EXCEPT ![partner[p]] = copy_done]
  /\ UNCHANGED <<partner, stacks, bitmaps, share_request, p_fase, q_fase>>

\* Mistake: returns as soon as q has done its part.
P_WaitQ_Returns(p) ==
  /\ reply_signal[p] # sharing
  /\ Goto(p, "p_wait_q", "run")
  /\ share_request' = [share_request EXCEPT ![p] = Nobody]
  /\ UNCHANGED <<partner, stacks, bitmaps, signals>>

\* while (LOCAL_reply_signal == sharing);
P_WaitQ(p) ==
  /\ reply_signal[p] # sharing
  /\ Goto(p, "p_wait_q", "p_release")
  /\ UNCHANGED <<partner, stacks, bitmaps, share_request, signals>>

\* Mistake: does not wait until q has left q_share_work.
P_Release_NoWait(p) ==
  /\ Goto(p, "p_release", "run")
  /\ share_request' = [share_request EXCEPT ![p] = Nobody]
  /\ requestable' = requestable \cup {p}
  /\ UNCHANGED <<partner, stacks, idle, root, signals>>

\* while (REMOTE_reply_signal(worker_q) != worker_ready);
P_Release(p) ==
  /\ reply_signal[partner[p]] = worker_ready
  /\ Goto(p, "p_release", "run")
  /\ share_request' = [share_request EXCEPT ![p] = Nobody]
  /\ requestable' = requestable \cup {p}
  /\ UNCHANGED <<partner, stacks, idle, root, signals>>

-----------------------------------------------------------------------------
(***************************************************************************)
(* get_work: a worker whose branch is exhausted.                           *)
(***************************************************************************)

\* The engine backtracks into a shared node, or a prune request is served.
Fail(w) ==
  /\ Goto(w, "run", "gw_wait")
  /\ UNCHANGED <<partner, stacks, bitmaps, share_request, signals>>

\* A node above has an alternative left: move up to it and go on.  A worker
\* that comes from make_root_choice_point (still in idle) has no such node.
FindLiveNode(w) ==
  /\ w \notin idle
  /\ reply_signal[w] = worker_ready
  /\ Goto(w, "gw_wait", "run")
  /\ UNCHANGED <<partner, stacks, bitmaps, share_request, signals>>

NoLiveNode(w) ==
  /\ reply_signal[w] = worker_ready
  /\ Goto(w, "gw_wait", "gw_idle")
  /\ root' = root \ {w}
  /\ UNCHANGED <<partner, stacks, idle, requestable, share_request, signals>>

\* LOCK_WORKER; PUT_IDLE; UNLOCK_WORKER.
PutIdle(w) ==
  /\ Goto(w, "gw_idle", "gw_refuse")
  /\ idle' = idle \cup {w}
  /\ UNCHANGED <<partner, stacks, root, requestable, share_request, signals>>

\* Mistake: goes idle without a look at share_request.
RefuseIfAny_Forgets(w) ==
  /\ Goto(w, "gw_refuse", "idle")
  /\ UNCHANGED <<partner, stacks, bitmaps, share_request, signals>>

\* SCH_refuse_share_request_if_any.
RefuseIfAny(w) ==
  LET q == share_request[w] IN
  /\ Goto(w, "gw_refuse", IF q = Nobody THEN "idle" ELSE "gw_refuse_end")
  /\ reply_signal' = IF q = Nobody THEN reply_signal
                     ELSE [reply_signal EXCEPT ![q] = no_sharing]
  /\ UNCHANGED <<partner, stacks, bitmaps, share_request, p_fase, q_fase>>

RefuseEnd(w) ==
  /\ Goto(w, "gw_refuse_end", "idle")
  /\ share_request' = [share_request EXCEPT ![w] = Nobody]
  /\ requestable' = requestable \ {w}
  /\ UNCHANGED <<partner, stacks, idle, root, signals>>

\* The worker has moved up to the root choice point.
EnterRoot(w) ==
  /\ pc[w] = "idle"
  /\ w \notin root
  /\ root' = root \cup {w}
  /\ UNCHANGED <<pc, partner, stacks, idle, requestable, share_request, signals>>

\* Mistake: takes idle workers for workers in the root choice point.
Finish_AllIdle(w) ==
  /\ w \in root
  /\ idle = Worker
  /\ Goto(w, "idle", "end")
  /\ UNCHANGED <<partner, stacks, bitmaps, share_request, signals>>

\* "All workers are idle in the root choicepoint": get_work returns FALSE.
Finish(w) ==
  /\ w \in root
  /\ root = Worker
  /\ Goto(w, "idle", "end")
  /\ UNCHANGED <<partner, stacks, bitmaps, share_request, signals>>

\* move_up_one_node returns FALSE: the last worker of a sequential choice
\* point, or the one that runs a pending prune, goes on below the root.
ResumeBelowRoot(w) ==
  /\ w \notin root
  /\ Goto(w, "idle", "run")
  /\ idle' = idle \ {w}
  /\ UNCHANGED <<partner, stacks, root, requestable, share_request, signals>>

\* get_work_below and get_work_above pick a worker that is not idle,
\* search_for_hidden_shared_work one that is requestable.
ChooseVictim(q, p) ==
  /\ p # q
  /\ p \notin idle \/ p \in requestable
  /\ Goto(q, "idle", "q_lock")
  /\ partner' = [partner EXCEPT ![q] = p]
  /\ UNCHANGED <<stacks, bitmaps, share_request, signals>>

-----------------------------------------------------------------------------
(***************************************************************************)
(* q_share_work: an idle worker with its victim.                           *)
(***************************************************************************)

\* Under LOCK_WORKER(p): p is idle or has another request.
Q_NoRequest(q) ==
  LET p == partner[q] IN
  /\ p \in idle \/ share_request[p] # Nobody
  /\ Goto(q, "q_lock", "idle")
  /\ UNCHANGED <<partner, stacks, bitmaps, share_request, signals>>

\* Mistake: does not look whether p is idle.
Q_Request_Unchecked(q) ==
  LET p == partner[q] IN
  /\ share_request[p] = Nobody
  /\ Goto(q, "q_lock", "q_wait")
  /\ share_request' = [share_request EXCEPT ![p] = q]
  /\ UNCHANGED <<partner, stacks, bitmaps, signals>>

\* Under LOCK_WORKER(p): make the request.
Q_Request(q) ==
  LET p == partner[q] IN
  /\ p \notin idle
  /\ share_request[p] = Nobody
  /\ Goto(q, "q_lock", "q_wait")
  /\ share_request' = [share_request EXCEPT ![p] = q]
  /\ UNCHANGED <<partner, stacks, bitmaps, signals>>

Q_Refused(q) ==
  /\ reply_signal[q] = no_sharing
  /\ Goto(q, "q_wait", "idle")
  /\ reply_signal' = [reply_signal EXCEPT ![q] = worker_ready]
  /\ UNCHANGED <<partner, stacks, bitmaps, share_request, p_fase, q_fase>>

Q_Accepted(q) ==
  /\ reply_signal[q] \notin {worker_ready, no_sharing}
  /\ Goto(q, "q_wait", "q_trail")
  /\ UNCHANGED <<partner, stacks, bitmaps, share_request, signals>>

\* Under lock_signals(q): claim segment s unless p has got that far.
Q_Claim(q, s, from, copying) ==
  /\ Goto(q, from, IF p_fase[q] > s THEN copying ELSE "q_sync")
  /\ q_fase' = [q_fase EXCEPT ![q] = IF p_fase[q] > s THEN s ELSE @]
  /\ UNCHANGED <<partner, stacks, bitmaps, share_request, reply_signal, p_fase>>

Q_Copy(q, s, copying, to) ==
  /\ Goto(q, copying, to)
  /\ CopySegment(partner[q], q, s)
  /\ UNCHANGED <<partner, bitmaps, share_request, signals>>

Q_ClaimTrail(q)  == Q_Claim(q, trail, "q_trail", "q_copy_trail")
Q_CopyTrail(q)   == Q_Copy(q, trail, "q_copy_trail", "q_global")
Q_ClaimGlobal(q) == Q_Claim(q, global, "q_global", "q_copy_global")
Q_CopyGlobal(q)  == Q_Copy(q, global, "q_copy_global", "q_local")
\* Mistake: does not wait until p's choice points are public.
Q_ClaimLocal_Early(q) == Q_Claim(q, local, "q_local", "q_copy_local")
\* while (LOCAL_reply_signal < nodes_shared); then the claim.
Q_ClaimLocal(q)  ==
  /\ reply_signal[q] >= nodes_shared
  /\ Q_Claim(q, local, "q_local", "q_copy_local")
Q_CopyLocal(q)   == Q_Copy(q, local, "q_copy_local", "q_sync")

\* sync_with_p: q's share of the copying is done.
Q_CopyDone(q) ==
  /\ Goto(q, "q_sync", "q_wait_done")
  /\ reply_signal' = [reply_signal EXCEPT ![partner[q]] = copy_done]
  /\ UNCHANGED <<partner, stacks, bitmaps, share_request, p_fase, q_fase>>

\* Mistake: keeps the bit of a worker in the root choice point.
Q_OutOfRoot_Stays(q) ==
  /\ reply_signal[q] = copy_done
  /\ Goto(q, "q_wait_done", "q_release")
  /\ UNCHANGED <<partner, stacks, bitmaps, share_request, signals>>

\* while (LOCAL_reply_signal != copy_done); then PUT_OUT_ROOT_NODE.
Q_OutOfRoot(q) ==
  /\ reply_signal[q] = copy_done
  /\ Goto(q, "q_wait_done", "q_release")
  /\ root' = root \ {q}
  /\ UNCHANGED <<partner, stacks, idle, requestable, share_request, signals>>

\* Mistake: leaves p's signal at copy_done.
Q_ReleaseP_Forgets(q) ==
  /\ Goto(q, "q_release", "q_ready")
  /\ UNCHANGED <<partner, stacks, bitmaps, share_request, signals>>

Q_ReleaseP(q) ==
  /\ Goto(q, "q_release", "q_ready")
  /\ reply_signal' = [reply_signal EXCEPT ![partner[q]] = worker_ready]
  /\ UNCHANGED <<partner, stacks, bitmaps, share_request, p_fase, q_fase>>

Q_Ready(q) ==
  /\ Goto(q, "q_ready", "q_busy")
  /\ reply_signal' = [reply_signal EXCEPT ![q] = worker_ready]
  /\ requestable' = requestable \cup {q}
  /\ UNCHANGED <<partner, stacks, idle, root, share_request, p_fase, q_fase>>

\* q_share_work has returned TRUE: get_work does PUT_BUSY and returns TRUE.
PutBusy(q) ==
  /\ Goto(q, "q_busy", "run")
  /\ idle' = idle \ {q}
  /\ UNCHANGED <<partner, stacks, root, requestable, share_request, signals>>

-----------------------------------------------------------------------------
\* Every worker has left the scheduler: the query is over.
Over ==
  /\ \A w \in Worker : pc[w] = "end"
  /\ UNCHANGED vars

\* The steps of p_share_work once a request is accepted.
PStep(p) ==
  \/ P_RefuseEnd(p) \/ P_Start(p) \/ P_ShareNodes(p) \/ P_NodesShared(p)
  \/ P_ClaimLocal(p) \/ P_CopyLocal(p) \/ P_ClaimGlobal(p) \/ P_CopyGlobal(p)
  \/ P_ClaimTrail(p) \/ P_CopyTrail(p) \/ P_CopyDone(p) \/ P_WaitQ(p)

\* The steps of q_share_work once a request is made.
QStep(q) ==
  \/ Q_NoRequest(q) \/ Q_Request(q) \/ Q_Refused(q) \/ Q_Accepted(q)
  \/ Q_ClaimTrail(q) \/ Q_CopyTrail(q) \/ Q_ClaimGlobal(q) \/ Q_CopyGlobal(q)
  \/ Q_ClaimLocal(q) \/ Q_CopyLocal(q) \/ Q_CopyDone(q) \/ Q_OutOfRoot(q)
  \/ Q_ReleaseP(q) \/ Q_Ready(q) \/ PutBusy(q)

\* The steps of get_work up to its idle loop.
GetWorkStep(w) ==
  FindLiveNode(w) \/ NoLiveNode(w) \/ PutIdle(w) \/ RefuseIfAny(w) \/ RefuseEnd(w)

CheckRequests(p) == P_Refuse(p) \/ P_Accept(p)

Next ==
  \/ \E w \in Worker :
       \/ Run(w) \/ Fail(w) \/ CheckRequests(w) \/ PStep(w) \/ P_Release(w)
       \/ GetWorkStep(w) \/ EnterRoot(w) \/ Finish(w) \/ ResumeBelowRoot(w)
       \/ \E p \in Worker : ChooseVictim(w, p)
       \/ QStep(w)
  \/ Over

Spec == Init /\ [][Next]_vars

(***************************************************************************)
(* Each worker is a process that keeps running.  SCH_check_requests is     *)
(* part of the call instructions, and a worker takes finitely many         *)
(* alternatives without a call between them: a worker that comes back to   *)
(* run again and again checks again and again (strong fairness).  The      *)
(* last spin of p_share_work polls one word, and q is worker_ready for as  *)
(* long as it runs between two checks: p sees it (strong fairness).        *)
(***************************************************************************)
Fairness ==
  \A w \in Worker :
    /\ WF_vars(PStep(w))
    /\ WF_vars(QStep(w))
    /\ WF_vars(GetWorkStep(w))
    /\ SF_vars(CheckRequests(w))
    /\ SF_vars(P_Release(w))

FairSpec == Spec /\ Fairness
-----------------------------------------------------------------------------
(***************************************************************************)
(* Properties.                                                             *)
(***************************************************************************)

\* The workers with a computation of their own.  One that reaches get_work
\* from make_root_choice_point (in idle) has none yet; one that shares keeps
\* it; one that has been given a copy owns it once it releases p.
Working ==
  {w \in Worker : \/ pc[w] \in {"run", "p_refuse"} \cup PSharing \cup QAfter
                  \/ pc[w] = "gw_wait" /\ w \notin idle}

\* The two sides of a copy (lines 190-215 and 312-342 of or.copy_engine.c)
\* never both claim the same segment: what q has claimed ends below what p
\* has claimed.
ClaimsDisjoint ==
  \A q \in Worker : pc[q] \in QCopying => q_fase[q] < p_fase[q]

\* When q lets p go, q has every segment of p's stacks, none of them from
\* another moment, and the choice points it has are all public: no branch
\* that p may take is private to q.
TransferComplete ==
  \A q \in Worker : pc[q] = "q_release" =>
    /\ mem[q] = mem[partner[q]]
    /\ public[q] /\ public[partner[q]]

\* A request q has registered is not forgotten: until p answers, p has it
\* in share_request and is somewhere it will look at it, not in the idle
\* loop and not gone (PUT_IDLE under LOCK_WORKER, then the refusal).
NoLostRequest ==
  \A q \in Worker : pc[q] = "q_wait" /\ reply_signal[q] = worker_ready =>
    /\ share_request[partner[q]] = q
    /\ pc[partner[q]] \in {"run", "p_ready", "gw_wait", "gw_idle", "gw_refuse"}

\* "wait for incomplete installations" (p_share_work and get_work) never
\* waits: whoever gets there has seen its last partner leave q_share_work.
NoPendingInstallation ==
  \A w \in Worker : pc[w] \in {"p_ready", "gw_wait"} => reply_signal[w] = worker_ready

\* "Only when all workers are idle and in the root choicepoint it is safe to
\* finish execution": once one has left, nobody has work, and nobody who is
\* still looking for some can go on below the root.
FinishIsSafe ==
  (\E w \in Worker : pc[w] = "end") => Working = {} /\ root = Worker

\* While q copies from p, p changes none of its stacks.
StacksFrozen ==
  [][\A q \in Worker : pc[q] \in QCopying => mem'[partner[q]] = mem[partner[q]]]_vars

\* Every registered request is answered, whatever the victim is doing.
RequestAnswered == \A q \in Worker : (pc[q] = "q_wait") ~> (pc[q] # "q_wait")

\* A worker that shares its work goes back to it.
SharerFreed == \A p \in Worker : (pc[p] \in PSharing) ~> (pc[p] = "run")

(***************************************************************************)
(* The signals, phases and copies implement the exchange of WorkExchange:  *)
(* a worker takes over a whole computation in one step, the one where it   *)
(* releases p.  A computation is one whose three segments agree.           *)
(***************************************************************************)
Exchange == INSTANCE WorkExchange WITH
  Version <- {[s \in Segment |-> v] : v \in Version},
  busy    <- Working,
  left    <- {w \in Worker : pc[w] = "end"},
  asking  <- [w \in Worker |-> IF pc[w] \in QAsking THEN partner[w] ELSE Nobody],
  work    <- [w \in Worker |-> IF w \in Working THEN mem[w] ELSE Nobody]

\* Sharing work is atomic to everyone outside it.
SharingIsAtomic == Exchange!Spec
=============================================================================
