# A verification development for the or-parallel engine of YAP (OPTYap)

The repository is the Prolog system YAP with OPTYap, its engine for or-parallelism and
tabling, extended with teams: processes that each hold several workers in shared memory
and that exchange work over MPI. This directory holds TLA+ modules that model the
or-parallel part, the configurations that model-check them with TLC, and theorems about
them checked by TLAPS. `PROJECT.json` maps every definition to the lines it models and
lists runs, mutants, hazards and theorems.

All paths below are relative to the repository; `OPTYap/` stands for `src/OPTYap/`.

## 1. What is modelled: the build

The code is configured by macros. The models are of the build that `OPTYap/opt.config.h`
selects: environment copying (`YAPOR_COPY`), teams with MPI and splitting (`YAPOR_TEAMS`,
`YAPOR_MPI`, `YAPOR_SPLIT`), no tabling, and full copies of the stacks
(`INCREMENTAL_COPY` off). WorkSharing, OrScheduler, TeamLifecycle
and Prune have one team, where the calls to MPI return at once (`number_teams == 1`);
WorkSplit, Delegation and MpiTeams have several. Shared memory is sequentially consistent: the code
has no barriers, and the models say nothing of a processor that reorders the accesses to
signals that no lock protects.

## 2. Inventory

| Component | State | Operations | Talks to |
|---|---|---|---|
| Work sharing in a team (`or.copy_engine.c`, `opt.structs.h`) | per worker: `share_request`, `reply_signal`, `p_fase_signal`, `q_fase_signal`, the three stack segments; bitmaps of idle, root and requestable workers | `q_share_work`, `p_share_work`, refusal | workers poll each other's signals in shared memory |
| Or-tree and scheduler (`or.scheduler.c`, `or.insts.i`) | or-frames (alternative, members, nearest live node), each worker's choice points and `top_cp`; bitmaps of idle, root and invisible workers | `getwork`, `getwork_seq`, `get_work`, `move_up_one_node`, `get_work_below`, `get_work_above`, `find_a_better_position`, `search_for_hidden_shared_work`, `share_private_nodes` | the abstract machine (try, retry, trust, fail), work sharing |
| Start and end of queries (`or.insts.i`, `opt.preds.c`, `opt.init.c`) | bitmaps of present, free, finished, root and idle workers | `getwork_first_time`, `p_yapor_start`, `shared_end`, `make_root_choice_point`, `free_root_choice_point` | all workers of the team |
| Work splitting (`or.macros.h`, `or.copy_engine.c`) | `cp_ap`, `cp_so`, `OrFr_alternative`, `OrFr_so` | `SCH_new_alternative`, `SCH_retrieve_alternative`, `mpi_invalidar_alternativas2` | the copy that goes to another team |
| Delegation of a team's share (`or.macros.h`, `or.copy_engine.c`) | four delegation areas, `delegate_share_area`, `mpi_delegate_messages` | `SCH_check_delegate_share`, `SCH_refuse_delegate_share`, `check_messages_delegations` | worker 0 asks the others of its team to split for it |
| Teams over MPI (`or.macros.h`, `or.copy_engine.c`) | loads with time stamps, execution counter, message counts | `SCH_check_messages`, `mpi_team_get_work`, termination | messages with tag 44 between teams |
| Cut and pruning (`or.cut.c`, `or.macros.h`) | prune requests, pending prunes, branch arrays, solutions on or-frames | `prune_shared_branch`, `CUT_send_prune_request`, `CUT_wait_leftmost` | every worker to the right of the cut |
| Answers (`opt.preds.c`, `or.cut.c`) | solution frames | `p_parallel_new_answer`, `CUT_store_answers` | or-frames, leftmost order |
| Tabling (`tab.*`) | tries, generator and dependency frames | SLG resolution, completion, suspension | off in this build |
| Other engines (`or.sba_engine.c`, `or.cow_engine.c`, `or.thread_engine.c`) | | | not compiled |
| Shared memory and locks (`or.memory.c`, `locks_*.h`) | mapped areas, spin locks | allocation, `LOCK`, `UNLOCK` | everything; taken as primitives |
| Prolog engine (`src/C`, `src/H`) | the abstract machine | | only try, retry, trust and fail are in the models |
| System interface, libraries, packages | | | no part in or-parallelism |

What makes the parts hard, and what makes each of them correct:

* **Work sharing.** Two workers copy one stack from both ends at once and synchronise
  by polling; a worker may be the source of one copy and the target of the next; idle
  workers ask while their victims go idle. Correct means: the copy is of one moment and
  complete, no segment is copied by both, no request is forgotten, nobody waits for ever,
  and to the others the whole handshake is one step.
* **Or-tree.** Each or-frame has its own lock, and the walks over the tree hold one lock at
  a time; hints (`nearest_livenode`) are cleared without locks; sequential predicates must
  be resumed by the last member of their node. Correct means: every alternative is taken
  exactly once, sequential ones in order, and the query ends when everything is explored,
  and not before.
* **Start and end of queries.** Bits stay in the bitmaps from one query to the next; a
  worker may sleep through a query and wake up in the next one; `p_yapor_start` updates
  two bitmaps without their locks. Correct means: no query ends with work left, every
  query ends, and between queries the team is at rest.
* **Splitting.** The chain of choice points is split frame by frame while other workers
  take alternatives from the same frames. Correct means: no alternative is lost or given
  to two teams.
* **Delegation.** The area of a request is marked by worker 0, written by worker p and
  freed by worker 0, and worker 0 uses areas for its own work without marking them; p may go
  idle at any moment. Correct means: one writer per buffer, and every request is answered
  once and at last.
* **Teams over MPI.** A team decides that the query is over from what it has heard, over
  several hops, of the loads of the others; requests, refusals, work and notices cross, and
  those of the query before may come late. Correct means: a request is answered once, and
  the query ends when no team has work and none is on its way, and then does end.
* **Pruning and answers.** A cut has to reach every worker to its right while those share,
  move up, cut and store answers; each request, each pending prune and each stored answer is
  under the lock of one frame or one worker only. Correct means: the query has the answers
  of sequential Prolog.

## 3. Modules

```
WorkExchange        what sharing promises (abstract)
   ^ refined by
WorkSharing         the handshake of signals and phases     <- WorkSharingProofs
                                                            <- MCWorkSharing
SearchTree          the tree of a query (constants), used   <- SearchTreeProofs
                    by OrSearch, OrScheduler, Prune
OrSearch            what an or-parallel search promises (abstract)
   ^ refined by
OrScheduler         or-frames and scheduler                 <- OrSchedulerProofs
                                                            <- MCOrScheduler
TeamLifecycle       several queries of one team             <- TeamLifecycleProofs
                                                            <- MCTeamLifecycle
WorkSplit           splitting between teams                 <- WorkSplitProofs
                                                            <- MCWorkSplit
RequestService      what a team promises the others (abstract)
   ^ refined by
Delegation          delegation areas of one team            <- DelegationProofs
                                                            <- MCDelegation
MpiTeams            requests and the end of queries         <- MpiTeamsProofs
                                                            <- MCMpiTeams
Prune               cuts, pending prunes and answers        <- PruneProofs
                                                            <- MCPrune
```

The modules cut the system at its interfaces. WorkSharing shows that a share is atomic for the
stacks; OrScheduler uses a share as one action, frames included. OrScheduler has one query on a whole tree;
TeamLifecycle keeps of the tree only who is below the root and adds the queries. Prune
has the tree again, with the order of branches, and opens the share up where a prune request
can come in between. Delegation is one team with its workers, seen by the others through
requests and answers; MpiTeams has whole teams and messages between them, and takes from
Delegation that a delegated request is answered later, and once. WorkSplit is what is in the
copy that the messages carry.

### WorkSharing

State: `pc` (where each worker is in `p_share_work`, `q_share_work` or `get_work`), the
signals and phases of `opt.structs.h` with their numeric order (the code compares them
with `<`), the three stack segments (`mem[w][segment]` is the version of the computation
they belong to), whether a worker's choice points are all public, and the idle and root
bitmaps. One action is the code between two points where another worker can see or change
something it uses; a locked section is one action. Left open (nondeterministic): which
worker is asked, and whether it accepts, which in the code depend on loads and positions.
Left out: the requestable bitmap, addresses and sizes of segments, prune requests.

`WorkExchange` is the abstraction: `Share` moves a computation from a busy to an idle
worker in one step. `WorkSharing!SharingIsAtomic` states that WorkSharing implements it;
the moment of the exchange is `Q_ReleaseP`, `REMOTE_reply_signal(worker_p) = worker_ready`.

### OrScheduler

State: per worker the local copy of every choice point's `cp_ap` (an alternative,
`GETWORK`, `GETWORK_SEQ` or none), `top_cp`, the running alternative; per node the
or-frame's `alternative`, `members` and `nearest_livenode`; the idle, root and invisible
bitmaps; the local variables of the scheduler that live across steps. The search tree is a
constant, with sequential and parallel nodes. The actions are named for the branch of the
code they stand for (`Scan`, `ToWork`, `PutNoWork`, `IdleUp`, `Look`, `GoAbove`,
`AboveUp`, `GoBetter`, `Ask`, `Share`, ...). `taken` is a history variable.

`OrSearch` is the abstraction: alternatives are taken once and in order, those of a
sequential node when everything below the one before has been explored, and the execution
is over when the tree is. `OrScheduler!ExploresTheTree` states the refinement.

A share is one step of the or-frames too (`SharePrivateNodes`), which is coarser than the code:
`share_private_nodes` locks the public frames one by one and sets the tops at the end
(`or.copy_engine.c:678-696`, 757-758). WorkSharing has no or-frames and does not justify
this. What does is that p, which walks, is a member of all of these frames and does
nothing else, so that none of them is freed or resumed by its last member meanwhile. Races between that walk and
others cannot occur in the model, and the hazards list says so
(`or.scheduler.c:434`, `or.copy_engine.c:678`, half of `or.insts.i:370`).

With one team the stride of `YAPOR_SPLIT` is 1 and a choice point's alternatives are taken
one after the other. Cuts are left out; so are loads, which choose between workers.

### TeamLifecycle

State: `pc` of every worker through `getwork_first_time`, `p_yapor_start` and `get_work`;
the five bitmaps; `read`, the value a worker has read in an update that it has not
written back; the locks of the two bitmaps that `p_yapor_start` changes without them.
An update of those two (free, idle) is a read and a write, everywhere; an update of the
others, which are always locked, is one action. Whether a worker is below the root stands
for its place in the tree, `asking` for the handshake. `Resume` and `Share` together are
bounded by `Shares` in each query.

### WorkSplit

State: for each team and choice point of the branch, the next alternative and the stride;
how many choice points are public; the alternatives taken; `walk[p]`, the copy that team
p splits off for another one, and how far `mpi_invalidar_alternativas2` has come in it.
One frame is split per action, under its lock; workers of p take alternatives from public
choice points between two of them. A team walks for one other team at a time; in the code
several of its workers, one per delegation area, may walk the same frames at once
(`or.macros.h:955-969`), each frame under its lock. The bound is `Splits`. The assumption on `Alts` is the
limit of 200 in `SCH_new_alternative` and `SCH_retrieve_alternative`: beyond it the code
drops the rest of a choice point.

### Delegation

State: where worker 0 is in `SCH_check_messages`, `check_messages_delegations` and
`mpi_team_get_work`, and what it has chosen; where each other worker is in
`SCH_check_delegate_share`; `delegate_share_area` and the idle bitmap; the areas (free,
worker q, worker p, message, whether acceptance was sent) with their count; the requests and
answers of the other teams. The code writes messages 1, 2 and 3 in an area without a lock:
each write, and each look of worker 0 at one area, is an action. Loads are left open: any
worker that is not idle may be the one with the highest load, and may have too little when
it comes to sharing. The bytes of the copy are left out. `SCH_refuse_delegate_share` is
never called and has no action.

`RequestService` is the abstraction, as the other teams see it: every request is refused, or
promised work and then served, once, and at last. `Delegation!ServesRequests` states that
Delegation implements it.

### MpiTeams

State: for each team its execution counter, whether it has work or where worker 0 is in
`mpi_team_get_work`, the two arrays of loads and of clocks, its own clock; the delegated
requests; the messages on their way, in order between two teams, with tag 44 (codes 1 to 4
and 6) and with tag 7 (the work). A load is "idle" or not. The barriers between two queries
and the throwing away of messages that have arrived are one action, `NextQuery`, which may
leave messages that come later. Bounds: `Queries`, and `Bound` on queries and requests taken
up. `given` is a history variable: which work was given in this query, by whom and when, and for
which request. `stale` is another: one of three races has occurred, in which what a team knows
of the others is no longer of one moment:

* what a message says of its sender (or of a requester) replaces a newer entry
  (`GetRefusal`, `GetRequest`, `GetNotice`; finding 3);
* what the copy of the work says of the giver replaces a newer entry (`Install`), since a
  third team has already told that the giver is idle;
* a team that has been given work, and has not seen the acceptance yet, learns from a third
  team that the giver is idle since, and answers a request as idle itself (`GiverIdle` in
  `GetRequest`): the one who asked believes that both are idle.

The last two were found when the proof of `EndsQuietUnlessStale` failed: they need a fourth
team to do harm, and the run has three. Left out: message code 5, whose only sender is commented out
(`or.copy_engine.c:1186-1194`), the messages with the parent process, and the restart of the
other workers of a team.

### Prune

State: where each worker is in the engine, `get_work`, `prune_shared_branch` or a share;
the clause it runs; its choice points, `top_cp`, `prune_request` and `branch`; the or-frames
(alternative, members, pending prune, nearest left node, solutions, and which worker keeps
the lock from step to step); the local variables of `prune_shared_branch`.

A clause is an alternative of the search tree: it calls the goal whose choice point it
creates, then cuts, if it is in `HasCut`, and may fail after that. Which alternatives
succeed is `succeeds`, chosen at the beginning. `Prolog` defines, from the tree alone, what
sequential Prolog answers. Alternatives are numbered from the left; BRANCH_LTT counts from
the right, so the comparisons are the other way round.

One action is a locked section or the code between two, with these exceptions: a frame that
`prune_shared_branch` keeps locked while it sends requests or moves up is in `holder`; the
walk of `CUT_leftmost_or_frame`, which reads frames without their locks, is one step; and
requests are sent in any order. Where idle workers move is left more open than in the code
(`MayMove`). `nearest_livenode` is left out: a worker knows the nearest frame with work.
Sequential choice points and `CUT_wait_leftmost` are left out.

An idle worker chooses whom to ask without a lock (`Choose`), and the locked section of
`q_share_work` that follows looks at prune requests only (`TakeBranch`, `GiveUp`): the chosen one
may have left the frame, and what is read as its branch is then the entry of the last frame at
that depth in which it was (`Read`). It then refuses, or shares if it has become a member
again. `get_work_above` may come up to a worker that is idle by then: its branch is taken and
nobody is asked (`TakeIdleBranch`, where choosing and taking are one step). `search_for_hidden_shared_work`
chooses from an older set, which may be that of a frame that q has left since; in the model
q chooses at its top frame. `SafePosition` is about busy members of the frame, which is narrower than
the assertion of `q_share_work` (see the observations in Section 6). `Share` is one step with
the locks of all old frames free, where the code takes them one by one; p is a member of each
throughout. `CutStore` looks at the prune request once where the code looks twice (275 and 293),
and `DoPending` copies the position of the pending prune, which the code reads again through
a pointer into the frame (`or.cut.c:63`, 182).

`astray` is a history variable, set when one of five races occurs (finding 4, and the
observations after it). The properties are about executions without them: `AnswersUnlessAstray`
says that nothing else goes wrong. `RequestsAbove` holds with the races too.

`Leftmost` and `Leftnodes` follow `leftnode` upwards by recursive functions: in the code the
walk is a loop, which ends because `nearest_leftnode` is always above its frame
(`LeftInv` in PruneProofs).

## 4. Runs

| Run | Instance | Shows |
|---|---|---|
| `share` | WorkSharing with fairness, 2 workers, 2 versions | `ClaimsDisjoint`, `NoLostRequest`, `NoPendingInstallation`, `FinishIsSafe`, `TransferComplete`, `StacksFrozen`, `RequestAnswered`, `SharerFreed`, and the refinement `SharingIsAtomic` |
| `tree_safety` | OrScheduler, 3 workers, 5 nodes with 9 alternatives, one node sequential | `MembersExact`, `LiveNodesReachable`, and the refinement `ExploresTheTree` |
| `tree_live` | OrScheduler with fairness, 2 workers, same tree | `QueryEnds` |
| `tree_hidden` | as `tree_safety` | violation of `HiddenOnlyOnTheWay` (finding 1) |
| `team` | TeamLifecycle with fairness, 3 workers, 2 queries, 2 shares each | `NoWorkLeftBehind`, `OutOnlyWhenDone`, `QueryEnds` |
| `team_rest` | TeamLifecycle with fairness, 2 workers, 2 queries | violation of `ComesToRest` (finding 2) |
| `split_once` | WorkSplit, 3 teams, choice points of 6 and 3 alternatives, 3 splits | `ExactlyOnce` |
| `delegation` | Delegation with fairness, 3 workers, 2 areas, 2 other teams | `BuffersExclusive`, `NoneForgotten`, `FreeAreasCounted`, and the refinement `ServesRequests` |
| `teams_end` | MpiTeams with fairness, 3 teams, 2 queries | `OneAnswer`, `EndsQuietUnlessStale`, `QueryEnds` |
| `teams_race` | MpiTeams, 3 teams, 1 query | violation of `EndsOnlyWhenQuiet` (finding 3) |
| `prune` | Prune, 3 workers, 3 nodes with 6 alternatives, one cut | `AnswersUnlessAstray`, `BranchesAgree`, `RequestsAbove`, `SafePosition` |
| `prune_missed` | Prune, 3 workers, 4 nodes with 7 alternatives, one cut | violation of `AnswersOfProlog` (finding 4) |

Every passing run but `tree_live` also checks the module's type invariant. Every property has
a mutant: a definition of the module with the name of the definition it replaces and of the
mistake (`Q_ClaimLocal_Early`, `Share_InRoot`, ...).

Why the bounds are enough for the interesting cases:

* Sharing: two versions are needed to tell a copy taken at two moments from a good one, two
  workers to copy. With three, a worker can be between two shares (it has been q of one and
  is p of the next while the first still waits) and a victim can have two requests: the
  theorems state all the safety invariants for teams of any size, so the run has two and
  adds liveness and the refinement.
* The tree has a parallel node whose alternatives lead to a sequential and to a parallel
  node, and a choice point below an alternative of the sequential one: members below and
  above a sequential node, a last member that resumes it, and live nodes to skip.
* Two queries are the least in which a worker can bring bits of one query into the next;
  three workers, in which two can miss each other.
* Three splits let a team split what it was given, and a choice point have strides 1, 2, 4.
* Delegation: two workers to delegate to and two areas, so that worker 0 finds one area
  taken and the other free, and both taken; two teams, so that requests compete.
* MpiTeams: three teams are the least in which news travels over a third one. Two queries
  let messages of one arrive in the other. The execution counter has only two values: a
  message that survived two barriers would be taken for one of this query. The bound leaves
  that out; each barrier throws away what has arrived. The
  theorems about MpiTeams have the same bound on queries, and none on teams.
* Prune: in the first tree the cut is in the second of three clauses, so that there is
  a worker to its left (the prune is left pending), one to its right (it gets a request) and
  one in its own branch. The clause may fail after the cut, and both outcomes are checked. In
  the second tree the cut is one level further down, with shared choice points above what it
  prunes. Executions are followed up to the first race (`NotAstray`, a state constraint),
  since after it the properties have nothing to say.

`Alike` (symmetry) is used in runs without liveness properties only. `tree_safety` uses it with
the refinement `ExploresTheTree`, which is a safety formula (OrSearch's Init and steps, without
fairness) whose variables do not name workers: permuted states have the same abstract state,
and the same steps. `Live` (a view) drops local variables that are out of scope, and entries of
the branch array of workers that are not members of the frame and about to be read by nobody
(each of the two trees has one choice point per depth, so the entry is that of the frame). WorkSplit stops when all work is done, and MpiTeams
when its bounds are reached; their runs have no deadlock check.

### Fairness

* WorkSharing: every worker keeps executing its side of a handshake and of `get_work` (weak
  fairness); a running worker checks for requests again and again (`SCH_check_requests` is
  called at every call and try: strong fairness on `CheckRequests`, since a worker may be
  in the handshake in between); p, which polls q's signal for `worker_ready`, catches it
  between two shares of q (strong fairness on `P_Release`).
* OrScheduler: each worker keeps executing (weak fairness on each group of steps), and a
  worker in the loop of `get_work` comes to the step after its fruitless attempts again and
  again (strong fairness on `NextRound`): the loop is a fixed sequence of attempts.
* TeamLifecycle: each worker keeps executing; a worker that wants a lock gets it when it is
  free again and again; the loop of `get_work` moves up and tests for the end before it
  asks. `PollSpec`, used for finding 2 only, adds that worker 0, which polls the finished
  bitmap, sees a value it has again and again: even then the team does not come to rest.
* Delegation: each worker keeps executing and comes to `SCH_check_delegate_share`, which is
  part of `SCH_check_requests` and of `get_work`; worker 0 keeps polling (weak fairness). MPI
  delivers the message of each team at last, whatever the others send (strong fairness on
  `ReadRequest(q)`: worker 0 probes for any source).
* MpiTeams: worker 0 of a busy team looks at its delegations, a team's work is finite
  (`BecomeIdle`), a team without work goes on in `mpi_team_get_work`, and the teams meet at
  the barrier (weak fairness). Nothing is assumed of who gets work.

## 5. What is proved

`WorkSharingProofs` (for every set of workers and of versions):
`TypeCorrect`, `ClaimsAreDisjoint`, `TransferIsComplete`, `RequestsAreKept`,
`InstallationsAreOver`, `FinishingIsSafe`, `StacksAreFrozen`, and the refinement
`SharingImplementsExchange`, `Spec => SharingIsAtomic`. None of these invariants is
inductive. The invariant `IInv` says which bits and requests go with each location
(`LocationInv`), that a request and its answer point at each other (`RequestInv`), that
two workers that share know how far the other is (`PairInv`), which phases go with which
locations of the pair (`PhaseInv`), and which segments the target already has. The
proof that a step keeps it has one step per action. For the refinement comes in addition that
only a worker which is being given a copy has segments of two computations (`WholeInv`). Each
action is either unseen (nobody's abstract state changes: `SameFor` of every worker) or is one
step of WorkExchange: `Q_ReleaseP` is the exchange, `Finish` needs that nobody has work
left, which is `FinishIsSafe`'s invariant.

`TeamLifecycleProofs` (for every team, any number of queries and shares): `TypeCorrect`,
`NoWorkIsLeftBehind`, `OutWhenDone`. The invariant: nobody below the root is in the root
bitmap (`WorkersOutside`); a worker that runs is below the root (`BusyHasWork`); only
worker 0 starts queries and it never enlists (`ZeroLeads`); once `p_yapor_start` has taken
worker 0 out of the root bitmap it stays out (`ZeroOutside`). With it, a full root bitmap
means that nobody is below the root, whoever reads it and when. The bitmaps with races do
not occur in the invariant: what they lose can delay a query, and never end one early.

`DelegationProofs` (for every finite set of workers, any number of areas and any set of other
teams): `TypeCorrect`, `CountCorrect`, `BuffersCorrect`, `NothingForgotten`, and `AnswersOnce`,
the safety part of the refinement: `Spec => Service!Spec`. The invariant `IInv` is the
conjunction of `Types`, `FreeAreasCounted` (the counter is the number of free areas, so a
count equal to `NArenas` means that area 0 is free), `Areas` (an area that is taken belongs to
one request and one worker, and its message says how far that worker is), `Workers` (a worker
copies only into the area it was given), `Choice` (what worker 0 has chosen is still free
and still asks), `Getting` (all areas are free while worker 0 installs work) and `Requests` (the
answers a team has got, and what is still owed to it, are those of one request: nothing, a
promise, a refusal, or a promise and the work). Each part has a lemma for its step. The
refinement follows from `IInv` and the answers before and after each action.

`OrSchedulerProofs` (for every set of workers and every search tree, finite or not):
`TypeCorrect`, `MembersAreExact`, `LiveNodesAreReachable`, and `SchedulerExploresTheTree`, the
refinement `Spec => ExploresTheTree`. They share one invariant, `Inv`:

* `ShapeInv`: a worker's stack is a path of the tree, with gaps where a last alternative popped
  its node; a private node is on one stack only; stacks that share a node agree above it; what
  a choice point holds fits to its being private or public.
* `TakenInv`: the alternatives of a node are taken up to the one that its owner, or its or-frame,
  names next, and no further; a node that is on no stack has none left.
* `RunInv` and `BornInv`: the nodes of a worker's stack are above what it runs, and those above it
  on anybody's stack are on its own; what runs has not created its node yet, and no two
  workers run the same alternative; the alternatives of a node are taken only after the one
  that creates it.
* `LinkInv`, `LiveNodesReachable`: a nearest live node is above its node, and what it skips has
  nothing left. The hints are moved and cleared without locks: the invariant holds whoever
  writes last.
* `SchedInv`: what a worker in `get_work` knows between two steps: it has no private nodes, the
  nodes that its walk up has passed are without work, and a worker in the root bitmap is at the
  root.

That nothing is left below a node, or in the whole tree, is an argument by induction over the
tree. The prover has none for operators, so `SearchTree` states how a tree grows as
`GrowthAssumption`, a quantifier over sets: a set of nodes that has the root, and with a node all
that its alternatives create, has all nodes. Each induction is then one set. TLC evaluates
it, with the other two assumptions on the tree, in every run that has one. `SearchTreeProofs`
has the facts that OrSchedulerProofs and PruneProofs share: what alternatives are, the order of
choice points, paths and what becomes of one that grows or loses its end, and, from
`GrowthAssumption`, induction up the tree (`UpwardInduction`) and the existence of
functions that are defined by recursion up the tree (`UpwardRecursion`: the walk of
`CUT_leftmost_or_frame` has a result).

`WorkSplitProofs` (for every set of teams, every chain of choice points of up to 201 alternatives
each, any number of splits): `TypeCorrect`, `SplittingIsExact`. First the arithmetic of strides:
which alternatives (a, s) stands for, that a step takes away the first of them (`LeftAfterStep`),
and that a split divides them into those of (a, 2s) and those of (a + s, 2s)
(`LeftDivided`). Then `PartitionInv`: the alternatives of every choice point are partitioned
into those taken, those of each team and those of each copy on its way. `WalkInv` says
that a team which waits for a copy has nothing and waits for one only, and that a copy agrees
with the team it comes from on the private choice points that its walk has not reached.

`MpiTeamsProofs` (for any number of teams): `TypeCorrect` for any number of queries, and
`AnswersOnce` and `EndsQuiet` for one query and the next (`Queries <= 2`). The bound is needed: the
execution counter takes the values 10 and 0 in turn, and a message that is delayed over a
whole query is taken for one of the query after it. The two hold together or not at all: what
is left over from a query that ends too early would be answered in the next. The invariant `Inv` is
`Types`, that a team sends only notices to itself (`SelfNotices`), which messages of another
query are still about (`CounterInv`), and, until `stale`, `Fresh`, which has two parts:

* `ProtocolInv` follows the request of each team: it is in the channel, in a delegation
  area, refused, or accepted with its work on the way (`Asked`), or accepted and seen
  (`Promises`), at exactly one team; with all others there is nothing (`None`).
* `KnowledgeInv` says what can be concluded from the arrays of loads: an entry is not from the
  future (`AllInTime`); an entry that calls a team idle is from a clock at which that team was
  idle, and if it had given work before, the entry of the receiver is from after that gift
  (`Knows`). Messages carry the same (`Tells`). If a team knows all others to be idle, its
  entries are a cut of the execution that no gift of work crosses (`IsCut`); behind such a cut
  nothing can happen, since somebody would have to be given work first (`Cuts`), so that
  everything is quiet now. Each action keeps the cuts, moves no entry back (or sets
  `stale`), and sends what its arrays say.

The proof found the second and third of the races behind `stale` (Section 3): without them in
its definition the knowledge part is not inductive, and TLC confirmed a wrong end with four teams.

`PruneProofs` (for every set of workers, every search tree, any clauses with a cut and any
outcomes): `TypeCorrect`, `RequestsAreAbove`, `BranchesDoAgree`, `PositionsAreSafe`. The
first two hold whatever races occur and share the invariant `Inv`:

* `ShapeInv`: a worker's stack is a path of the tree (`StackInv`); the members of a frame are
  the workers that have it on their stack, and one that is just being given it (`ExactInv`);
  two workers that share know each other, and the one that asks has the other's top once the
  tops are set (`HandInv`); members of a frame have the same frames above it (`AgreeInv`).
* `FreshInv`: a private choice point is on one stack only, and nobody is at or below an
  alternative that is still to be tried, or runs what another runs. `retry` and `try` give a
  worker a new place on the tree, and this is why nobody else is in it.
* `LeftInv`, `PendInv`: nearest left nodes and the choice points of pending prunes are above
  their frame and have its members, so that a walk that follows them stays on the stack.
* `CutInv`: how far a cut is: the frames it has yet to visit are on the worker's stack and
  above it, and what it keeps locked from step to step is locked by it.
* `RequestInv`: a prune request is above the top of its worker, but for a cut that moves up
  past it and takes it away at its end (`CUT_reset_prune_request`).

The other two are about executions that none of the races has led astray. `SafeInv` adds to `Inv`:

* `KeptInv`: a frame with a pending prune has no alternatives left.
* `IdleInv`: a worker that asks for work is in the idle bitmap, and one that cuts returns to
  the engine.
* `CopyInv`: from the acceptance of a share to the installation of the copy the two are in the
  same alternatives, and nobody else is a member of the new frames.
* `CoverInv`: every member of a frame with a pending prune is not to the right of it, or has a
  request for a frame further up (`Called`), or is a worker that asks for work, whose branch there is
  replaced before it gets work (`Excused`). This is what makes a pending prune work: the
  one who leaves it has sent requests to all to its right, who comes in later takes the
  branch of somebody who is covered, and alternatives cannot be taken any more (`KeptInv`).

`Leftmost` finds a frame at or above the top of which the worker is a member
(`LeftmostFacts`); more of it is not needed, since these properties do not depend on a
prune being left at the right frame. `AnswersUnlessAstray` does.

The assumptions on constants are those named in the modules: `Nobody` is not a worker,
there is a version, worker 0 is a worker, there is at least one area, there is a query, the
bounds are naturals, a choice point has between 1 and 201 alternatives (`AltsAssumption`; more
are dropped by the code), and the search tree is a tree (`TreeAssumption`, `OrderAssumption`,
`GrowthAssumption`). Prune has a tree without sequential choice points, `HasCut` is a set of
its alternatives, and only those that create no choice point, or cut, can fail by themselves
(`PruneAssumption`).

Only model-checked: the liveness properties and the fairness part of the refinements (TLAPS
does not reason about fairness and ENABLED), and `AnswersUnlessAstray`, which compares with
what sequential Prolog answers (`Prolog`), a recursion over the tree: an induction over it is
out of the prover's reach. That the models' Init and actions are those of the code is
argued by the map, line by line, and not proved.

## 6. Findings

1. **A worker stays invisible** (`tree_hidden`, `OPTYap/or.scheduler.c:602`). `get_work_above`
   makes itself and its victim invisible while it moves up ("put workers invisibles" ...
   "put workers visibles"), and returns early, with both still invisible, when
   `move_up_one_node` resumes a sequential choice point. Until the next query nobody moves up
   to either of them.
2. **A bit of the free workers is lost** (`team_rest`, `OPTYap/opt.preds.c:1247-1249`).
   `p_yapor_start` clears and sets the bitmap of free workers without
   `GLOBAL_lock_free_workers`, and releases that lock without holding it. A worker that
   enlists at that moment writes back a bitmap without worker 0. After the query, and
   until the start of the next one puts it back, nobody inserts worker 0: the others,
   which should "wait for a new parallel goal", find the bitmap incomplete and go through
   `get_work` again and again. `team` shows that this
   race is the only thing that can keep a query from ending (`EnlistRace`).
3. **A query ends while a team is about to get work** (`teams_race`,
   `OPTYap/or.copy_engine.c:1101`). What a refusal says of its sender replaces what the
   receiver knows, without the comparison of times that protects the other entries. Team 1
   asks team 0, which gives it work, notes that team 1 has some, becomes idle and asks team 2,
   with its arrays. Team 2, which had asked team 1, hears this first, and then the refusal
   that team 1 sent before the answer of team 0 reached it. It falls back to "team 1 is idle",
   knows of nobody with work and announces the end: team 1 leaves `get_work` with its work
   on the way. "Only when all workers are idle and in the root choicepoint it is safe to
   finish execution" (`or.scheduler.c:227`). The theorem
   `EndsQuiet` shows that a wrong end needs such a replacement, or one of the two other
   races that set `stale` (Section 3, MpiTeams).
4. **A cut misses a worker** (`prune_missed`, `OPTYap/or.copy_engine.c:773`). A worker that
   cuts goes through the members of a frame and sends each of them a request, unless the
   member's top choice point is not below the cut. A member q that is just getting work from
   p has still its old top choice point. If p sets the new one, and looks at its own request
   to pass it on ("update worker Q prune request"), before its own request comes, q gets
   none from anybody. It goes on in the pruned branch, and its answer reaches the root, though
   a cut "cuts any choices taken in the current procedure" (`docs/builtins.tex:108`).

Observations that no run reports as a finding. The first is a behaviour of TeamLifecycle
(`StartIdle` between a late worker's read and write); the next four are the other races that
set `astray` in Prune:

* `p_yapor_start` deletes worker 0 from the idle workers without their lock
  (`opt.preds.c:1221`): a late worker's `PUT_IDLE` can write the bit back, and worker 0 runs
  and counts as idle for its first branch, so that nobody asks it for work. `team` shows that
  the query ends nevertheless.
* A prune that is left pending: `prune_shared_branch` unlocks the leftmost frame after the
  requests (`or.cut.c:212`), moves up, and only then takes the frame's alternatives away and
  sets the pending prune (292-296). A worker to the left that backtracks in between takes an
  alternative to the right of the cut and is not pruned; the assertion of `q_share_work`
  (`or.copy_engine.c:248`) can then fail. (`CutStore`.)
* `q_share_work` takes over p's branch in q's top frame before it asks p
  (`or.copy_engine.c:255`): p can take another alternative of that frame before it accepts,
  and q goes on with a wrong branch. (`Share`.) The assertion before it can also read
  the branch of a worker that has just become idle or has left the frame, and fail: no
  harm follows unless this race does, since such a worker is not asked or refuses, or is a
  busy member again when it shares.
* `move_up_one_node` takes the answers of a frame along and stores them in the leftmost
  frame (`or.scheduler.c:467-474`) without looking for a prune request again, as
  `prune_shared_branch` and `p_parallel_new_answer` do. (`PutAnswers`.)
* `p_parallel_new_answer` may store an answer in a frame in which the worker to the left has
  meanwhile executed the pending prune: a pruned worker, leaving last, frees it.
  (`StoreAnswer`.)
* `prune_shared_branch` asserts when it ends that a prune request is above its top choice point
  (`or.cut.c:270`). This is not so when a request was sent while it moved up: a worker
  w0 leaves a prune up to n1 pending in n3 and goes on; w1, the last one to its left,
  executes the pending prune and moves up; w0, now leftmost, cuts up to n1 again and sends w1,
  which is still in n3, a request for n1; w1 arrives at n1 with a request for n1. The
  reset that follows removes it (`EndCut`), so that no harm is done, and `RequestsAbove` says
  what holds: outside of a cut a request is above. The proof of `RequestsAreAbove` came upon
  it (`RequestInv`).
* `SCH_new_alternative` drops alternatives of choice points with more than 200 left; the
  stride of an or-frame doubles at every split and overflows after 31; a `GETWORK_SEQ` choice
  point is split as if it were a clause; `mpi_team_get_work` returns 1
  (`or.copy_engine.c:1060`) also when no work was installed; the undoing of a multi-assignment
  entry in `q_share_work` steps the wrong end of the trail segment (`or.copy_engine.c:279`).

## 7. Not modelled

* Tabling and the other engines: not in the build.
* Loads: who has most decides whom an idle worker or team asks; the models allow anybody.
* `CUT_wait_leftmost`, and with it built-ins with side effects; the printing of answers.
* The messages between worker 0 of the first team and the parent (goal and answers), and
  message code 5 and `SCH_refuse_delegate_share`, which nothing in the code uses.
* The restart of the other workers of a team when it receives work
  (`or.copy_engine.c:1054`): Delegation ends with the installation, TeamLifecycle has one team.
* The lock primitives, the shared memory and MPI, which are taken as they are meant.
* The abstract machine (but for try, retry, trust, cut and fail), the garbage collector,
  libraries, packages, the JIT and the foreign code in `src/packages`: sequential, and outside
  of this development. They are nearly all of the repository's lines, which is why the
  modules map to a small share of them. Of the or-parallel engine's own files for this build
  (`or.copy_engine.c`, `or.scheduler.c`, `or.cut.c`, `or.macros.h`, `or.insts.i`) they map to
  half: 2500 of 4850 lines, among which are the conditional parts for tabling.

## 8. Plan

The plan of the models and proofs is carried out but for these:

1. **Composition.** MpiTeams with TeamLifecycle: a team that gets work restarts its workers.
2. **CUT_wait_leftmost** on Prune, with a built-in that has a side effect.
3. **Soundness of answers** beyond TLC's instances: that what `CUT_store_answers` puts at the
   root is what `Prolog` has there, of which the part without induction is that a frame's
   answers are of branches that nothing to the left of can take back.
