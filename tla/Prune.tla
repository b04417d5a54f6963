-------------------------------- MODULE Prune --------------------------------
(***************************************************************************)
(* Cuts and answers of a parallel query.                                   *)
(*                                                                         *)
(* A clause that cuts prunes the alternatives to the right of its branch,  *)
(* whoever runs them: prune_shared_branch sends prune requests, and leaves *)
(* a pending prune in the or-frame below which a branch to the left can    *)
(* still cut first. Answers wait in the or-frame up to which their branch  *)
(* is leftmost, since a cut to the left may take them back.                *)
(*                                                                         *)
(* A clause is an alternative of SearchTree: it calls the goal of the      *)
(* choice point it creates, then cuts if it is in HasCut, and may fail     *)
(* after the cut. An alternative that creates none succeeds or fails.      *)
(* Alternatives are numbered from the left: where the code's BRANCH_LTT,   *)
(* the number of alternatives left to try, is larger, the number here is   *)
(* smaller. A locked section is one step, unless it holds the lock of a    *)
(* frame while it sends requests or moves (holder). Sharing is what        *)
(* WorkSharing does of it where requests come in between.                  *)
(***************************************************************************)
EXTENDS SearchTree, FiniteSets

CONSTANTS Worker,
          None,        \* no choice point, no worker
          HasCut,      \* the clauses with a cut after their goal
          Outcomes     \* the sets of alternatives that succeed: those that create
                       \* no choice point, and those with a cut after the cut

ASSUME PruneAssumption ==
  /\ Sequential = {} /\ None \notin Node \cup Worker
  /\ HasCut \subseteq Alternative \ {Query}
  /\ Outcomes \subseteq SUBSET (HasCut \cup {x \in Alternative : Created(x) = Leaf})

VARIABLES
  pc,             \* where each worker is in the engine, the scheduler or a cut
  cur,            \* the clause each worker runs
  answer,         \* the goal by which the query of each worker has succeeded
  cp_ap,          \* each worker's choice points: the next alternative or GETWORK
  top_cp,         \* LOCAL_top_cp, each worker's youngest shared choice point
  prune_request,  \* LOCAL_prune_request, the choice point to move up to
  branch,         \* BRANCH(w, depth): the alternative, and whether a cut may come
  alternative,    \* OrFr_alternative
  members,        \* OrFr_members
  pend,           \* OrFr_pend_prune_cp and OrFr_pend_prune_ltt
  leftnode,       \* OrFr_nearest_leftnode
  solutions,      \* OrFr_qg_solutions: the answers, with the alternative they are of
  holder,         \* the worker that keeps the frame locked from step to step
  cut,            \* the local variables of prune_shared_branch
  back,           \* where a worker goes on when it has pruned or stored
  node,           \* or_fr_with_work
  partner,        \* the worker it asks, or shares with
  idle,           \* GLOBAL_bm_idle_workers
  succeeds,       \* history: the alternatives that succeed in this execution
  astray          \* history: one of the races below has happened

NULL == 0
GETWORK == -1

stacks == <<cur, answer, cp_ap, top_cp>>
frames == <<alternative, members, pend, leftnode, solutions, holder>>
locals == <<cut, back, node, partner>>
history == <<succeeds, astray>>
vars == <<pc, stacks, prune_request, branch, frames, locals, idle, history>>

\* YOUNGER_CP
Younger(n, m) == <<n, m>> \in Under

\* The choice points of w, the one it backtracks to, the one below another.
Stack(w) == {n \in Node : cp_ap[w][n] # NULL}
B(w) == Youngest(Stack(w))
CpB(w, n) == Youngest({m \in Stack(w) : Younger(n, m)})
Private(w) == {n \in Stack(w) : Younger(n, top_cp[w])}

NextAlternative(n, a) == IF a < Len(Tree[n]) THEN a + 1 ELSE NULL

\* The clause whose goal created n.
Parent(n) == CHOOSE x \in Alternative : Created(x) = n

Free(n, w) == holder[n] \in {None, w}

\* cp_ap of w when it has cut the choice points younger than n.
CutTo(w, n) == [m \in Node |-> IF Younger(m, n) THEN NULL ELSE cp_ap[w][m]]

\* The answers of the goal of n in the order of sequential Prolog.
Prolog[n \in Node] ==
  LET From[a \in 1 .. Len(Tree[n]) + 1] ==
        IF a > Len(Tree[n]) THEN <<>> ELSE
        LET x == <<n, a>>
            s == IF Created(x) # Leaf THEN Prolog[Created(x)]
                 ELSE IF x \in succeeds THEN <<x>> ELSE <<>> IN
        IF x \in HasCut /\ s # <<>> THEN IF x \in succeeds THEN <<Head(s)>> ELSE <<>>
        ELSE s \o From[a + 1]
  IN From[1]

NoCut ==
  [to |-> None,     \* prune_cp
   pend |-> None,   \* old_LOCAL_top_or_fr, if the prune was pending there
   at |-> 0,        \* pend_ltt
   left |-> None,   \* leftmost_or_fr
   frame |-> None,  \* the frame at which pruning continues
   todo |-> {},     \* members to send a request to
   sent |-> {},     \* members a request was meant for
   seen |-> {},     \* members of the frame below
   more |-> FALSE,  \* prune_more
   sols |-> {}]     \* qg_solutions

Init == \E first \in Worker :
  /\ pc = [w \in Worker |-> IF w = first THEN "run" ELSE "scan"]
  /\ cur = [w \in Worker |-> Query]
  /\ answer = [w \in Worker |-> Query]
  /\ cp_ap = [w \in Worker |-> [n \in Node |-> IF n = Root THEN GETWORK ELSE NULL]]
  /\ top_cp = [w \in Worker |-> Root]
  /\ prune_request = [w \in Worker |-> None]
  /\ branch = [w \in Worker |-> [n \in Node |-> [alt |-> 1, cut |-> FALSE]]]
  /\ alternative = [n \in Node |-> NULL]
  /\ members = [n \in Node |-> IF n = Root THEN Worker ELSE {}]
  /\ pend = [n \in Node |-> None]
  /\ leftnode = [n \in Node |-> Root]
  /\ solutions = [n \in Node |-> {}]
  /\ holder = [n \in Node |-> None]
  /\ cut = [w \in Worker |-> NoCut]
  /\ back = [w \in Worker |-> "fail"]
  /\ node = [w \in Worker |-> Root]
  /\ partner = [w \in Worker |-> w]
  /\ idle = {}
  /\ succeeds \in Outcomes
  /\ astray = FALSE

Goto(w, from, to) == pc[w] = from /\ pc' = [pc EXCEPT ![w] = to]

-----------------------------------------------------------------------------
(* The engine: SCH_check_requests comes with every call, so a worker that  *)
(* runs looks for requests between any two of these steps.                 *)

\* A goal with alternatives.
Try(w) ==
  LET n == Created(cur[w]) IN
  /\ pc[w] = "run" /\ n # Leaf
  /\ cp_ap' = [cp_ap EXCEPT ![w][n] = 2]
  /\ cur' = [cur EXCEPT ![w] = <<n, 1>>]
  /\ UNCHANGED <<pc, answer, top_cp, prune_request, branch, frames, locals, idle, history>>

\* A goal without.
Call(w) ==
  /\ Created(cur[w]) = Leaf
  /\ Goto(w, "run", IF cur[w] \in succeeds THEN "exit" ELSE "fail")
  /\ answer' = [answer EXCEPT ![w] = cur[w]]
  /\ UNCHANGED <<cur, cp_ap, top_cp, prune_request, branch, frames, locals, idle, history>>

\* The clause ends without a cut: the goal it is of has succeeded.
Exit(w) ==
  /\ pc[w] = "exit" /\ cur[w] # Query /\ cur[w] \notin HasCut
  /\ cur' = [cur EXCEPT ![w] = Parent(cur[w][1])]
  /\ UNCHANGED <<pc, answer, cp_ap, top_cp, prune_request, branch, frames, locals, idle, history>>

\* CUT_prune_to: private choice points go at once, shared ones by a prune.
Cut(w) ==
  LET x == cur[w]
      to == CpB(w, x[1])
      then == IF x \in succeeds THEN "exit" ELSE "fail"
      shared == Younger(top_cp[w], to) IN
  /\ pc[w] = "exit" /\ x \in HasCut
  /\ cp_ap' = [cp_ap EXCEPT ![w] = CutTo(w, IF shared THEN top_cp[w] ELSE to)]
  /\ cur' = [cur EXCEPT ![w] = Parent(x[1])]
  /\ IF shared /\ prune_request[w] = None
     THEN /\ pc' = [pc EXCEPT ![w] = "cut"]
          /\ cut' = [cut EXCEPT ![w] = [NoCut EXCEPT !.to = to]]
          /\ back' = [back EXCEPT ![w] = then]
     ELSE /\ pc' = [pc EXCEPT ![w] = then]
          /\ UNCHANGED <<cut, back>>
  /\ UNCHANGED <<answer, top_cp, prune_request, branch, frames, node, partner, idle, history>>

\* Backtracking into a private choice point.
Retry(w) ==
  LET n == B(w) IN
  /\ Goto(w, "fail", "run")
  /\ n # top_cp[w]
  /\ cur' = [cur EXCEPT ![w] = <<n, cp_ap[w][n]>>]
  /\ cp_ap' = [cp_ap EXCEPT ![w][n] = NextAlternative(n, @)]
  /\ UNCHANGED <<answer, top_cp, prune_request, branch, frames, locals, idle, history>>

\* getwork with SCH_new_alternative.
GetAlternative(w) ==
  LET n == top_cp[w]
      x == <<n, alternative[n]>> IN
  /\ Goto(w, "fail", "run")
  /\ B(w) = n /\ alternative[n] # NULL /\ Free(n, w)
  /\ cur' = [cur EXCEPT ![w] = x]
  /\ branch' = [branch EXCEPT ![w][n] = [alt |-> alternative[n], cut |-> x \in HasCut]]
  /\ alternative' = [alternative EXCEPT ![n] = NextAlternative(n, @)]
  /\ UNCHANGED <<answer, cp_ap, top_cp, prune_request, members, pend, leftnode, solutions,
                 holder, locals, idle, history>>

\* getwork without an alternative, and the first lines of get_work.
EnterScheduler(w) ==
  /\ Goto(w, "fail", IF prune_request[w] = None THEN "scan" ELSE "prune")
  /\ B(w) = top_cp[w] /\ alternative[top_cp[w]] = NULL /\ Free(top_cp[w], w)
  /\ UNCHANGED <<stacks, prune_request, branch, frames, locals, idle, history>>

\* SCH_check_prune_request: the worker gives up its branch.
CheckPruneRequest(w) ==
  /\ prune_request[w] # None
  /\ Goto(w, "run", "prune")
  /\ cp_ap' = [cp_ap EXCEPT ![w] = CutTo(w, top_cp[w])]
  /\ UNCHANGED <<cur, answer, top_cp, prune_request, branch, frames, locals, idle, history>>

-----------------------------------------------------------------------------
(* Answers *)

\* Mutant: the comparison of the branches is the other way round.
LeftIn_Right(w, n, S) == \E i \in S : branch[i][n].alt > branch[w][n].alt

\* CUT_leftmost_or_frame: the youngest frame with a branch to the left of w,
\* where members of the frame below have been looked at there.
LeftIn(w, n, S) == \E i \in S : branch[i][n].alt < branch[w][n].alt
Leftmost(w) ==
  LET Above[n \in Node] ==
        LET l == leftnode[n] IN
        IF l = Root \/ LeftIn(w, l, members[l] \ members[n]) THEN l ELSE Above[l]
      top == top_cp[w]
  IN IF top = Root \/ LeftIn(w, top, members[top]) THEN top ELSE Above[top]

\* The frames of w that lie between then skip to the one found.
Leftnodes(w) ==
  LET l == Leftmost(w)
      Between[n \in Node] ==
        IF Younger(leftnode[n], l) THEN {n} \cup Between[leftnode[n]] ELSE {}
  IN [n \in Node |-> IF n \in Between[top_cp[w]] THEN l ELSE leftnode[n]]

\* p_parallel_new_answer, up to the lock of the leftmost frame.
NewAnswer(w) ==
  /\ cur[w] = Query
  /\ Goto(w, "exit", "answer")
  /\ cut' = [cut EXCEPT ![w] = [NoCut EXCEPT !.left = Leftmost(w), !.sols = {answer[w]}]]
  /\ leftnode' = Leftnodes(w)
  /\ UNCHANGED <<stacks, prune_request, branch, alternative, members, pend, solutions, holder,
                 back, node, partner, idle, history>>

\* CUT_store_answer and CUT_store_answers.
Stored(w) == LET l == cut[w].left IN
  [solutions EXCEPT ![l] = @ \cup {[alt |-> branch[w][l].alt, answer |-> s] : s \in cut[w].sols}]

\* In frame n nobody is to the left of w any more, and somebody is left who
\* frees the answers in it when he moves up: he has a prune request.
Abandoned(w, n) ==
  /\ n # Root /\ ~ LeftIn(w, n, members[n])
  /\ \E v \in members[n] : prune_request[v] # None /\ Younger(n, prune_request[v])

\* p_parallel_new_answer, with the lock.
StoreAnswer(w) ==
  /\ pc[w] = "answer" /\ Free(cut[w].left, w)
  /\ Goto(w, "answer", "fail")
  /\ solutions' = IF prune_request[w] = None THEN Stored(w) ELSE solutions
  /\ cut' = [cut EXCEPT ![w] = NoCut]
  /\ astray' = (astray \/ (prune_request[w] = None /\ Abandoned(w, cut[w].left)))
  /\ UNCHANGED <<stacks, prune_request, branch, alternative, members, pend, leftnode, holder,
                 back, node, partner, idle, succeeds>>

-----------------------------------------------------------------------------
(* Pruning *)

\* CUT_send_prune_request: the oldest choice point counts.
Sent(i, cp) == IF Younger(top_cp[i], cp)
                  /\ (prune_request[i] # None => Younger(prune_request[i], cp))
               THEN [prune_request EXCEPT ![i] = cp] ELSE prune_request

\* Mutant: a request for the new top choice point itself stays.
Reset_Below(w, top) == IF prune_request[w] # None /\ Younger(prune_request[w], top)
                       THEN [prune_request EXCEPT ![w] = None] ELSE prune_request

\* CUT_reset_prune_request, where top is the top choice point of w.
Reset(w, top) == IF prune_request[w] # None /\ AtOrUnder(prune_request[w], top)
                 THEN [prune_request EXCEPT ![w] = None] ELSE prune_request

\* Worker j, with this request, goes on below cp.
Missed(j, request, cp) == Younger(top_cp[j], cp) /\ (request # None => Younger(request, cp))

\* prune_shared_branch finds its leftmost frame and looks for a request.
BeginCut(w) ==
  /\ pc[w] = "cut"
  /\ leftnode' = Leftnodes(w)
  /\ IF prune_request[w] = None
     THEN /\ Goto(w, "cut", "lock")
          /\ cut' = [cut EXCEPT ![w].left = Leftmost(w), ![w].more = TRUE]
          /\ UNCHANGED idle
     ELSE /\ Goto(w, "cut", back[w])
          /\ cut' = [cut EXCEPT ![w] = NoCut]
          /\ idle' = idle \ {w}
  /\ UNCHANGED <<stacks, prune_request, branch, alternative, members, pend, solutions, holder,
                 back, node, partner, history>>

\* No branch to the left can prune what this one prunes.
BeingLeftmost(w) == AtOrUnder(cut[w].to, cut[w].left)
\* The frame whose members get requests, and up to which w moves.
SendFrame(w) == IF BeingLeftmost(w) THEN cut[w].to ELSE cut[w].left

NextUp(w) == IF top_cp[w] = SendFrame(w) THEN "store" ELSE "up"

Released(w) == [n \in Node |-> IF holder[n] = w THEN None ELSE holder[n]]

\* Whom to send requests: when leftmost, those of the own branch below to;
\* else those to the right in the leftmost frame. Those of the branch whose
\* pending prune this is go on (members2).
LockToSend(w) ==
  pc[w] = "lock" /\
  LET s == SendFrame(w)
      f == cut[w].pend
      kept == IF f = None THEN {} ELSE {i \in members[f] : branch[i][f].alt = cut[w].at}
      cand == members[s] \ (kept \cup {w})
      own == branch[w][s].alt
      todo == {i \in cand : IF BeingLeftmost(w) THEN branch[i][s].alt = own
                                                 ELSE branch[i][s].alt >= own}
      cuts == \E i \in cand : branch[i][s].alt < own /\ branch[i][s].cut IN
  /\ Goto(w, "lock", IF todo = {} THEN NextUp(w) ELSE "send")
  /\ Free(s, w) /\ (f # None => Free(f, w))
  /\ holder' = IF todo = {} /\ NextUp(w) = "store" THEN Released(w)
                ELSE [n \in Node |-> IF n = f \/ (n = s /\ todo # {}) THEN w ELSE holder[n]]
  /\ cut' = [cut EXCEPT ![w].todo = todo, ![w].sent = todo,
                         ![w].more = @ /\ (BeingLeftmost(w) \/ ~ cuts)]
  /\ UNCHANGED <<stacks, prune_request, branch, alternative, members, pend, leftnode, solutions,
                 back, node, partner, idle, history>>

Send(w) == \E i \in cut[w].todo :
  LET s == SendFrame(w)
      cp == IF BeingLeftmost(w) THEN s ELSE CpB(w, s)
      rest == cut[w].todo \ {i} IN
  /\ Goto(w, "send", IF rest = {} THEN NextUp(w) ELSE "send")
  /\ prune_request' = Sent(i, cp)
  /\ cut' = [cut EXCEPT ![w].todo = rest]
  /\ holder' = IF rest # {} THEN holder
                ELSE IF NextUp(w) = "store" THEN Released(w)
                ELSE [n \in Node |-> IF n = cut[w].pend THEN w ELSE Released(w)[n]]
  /\ astray' = (astray \/ (rest = {} /\ \E j \in cut[w].sent : Missed(j, prune_request'[j], cp)))
  /\ UNCHANGED <<stacks, branch, alternative, members, pend, leftnode, solutions,
                 back, node, partner, idle, succeeds>>

\* Worker w leaves frame n.
Without(w, n) == [members EXCEPT ![n] = @ \ {w}]

\* Mutant: the choice point stays on the stack.
Pop_Stays(w, n) == top_cp' = [top_cp EXCEPT ![w] = CpB(w, n)] /\ UNCHANGED cp_ap

Pop(w, n) == /\ top_cp' = [top_cp EXCEPT ![w] = CpB(w, n)]
             /\ cp_ap' = [cp_ap EXCEPT ![w][n] = NULL]

\* Moving up one frame, with the answers that are not pruned.
CutUp(w) ==
  LET n == top_cp[w]
      up == CpB(w, n)
      last == up = SendFrame(w) IN
  /\ pc[w] = "up" /\ Free(n, w)
  /\ Goto(w, "up", IF last THEN "store" ELSE "up")
  /\ Pop(w, n)
  /\ members' = Without(w, n)
  /\ alternative' = [alternative EXCEPT ![n] = NULL]
  /\ pend' = [pend EXCEPT ![n] = None]
  /\ solutions' = [solutions EXCEPT ![n] = {}]
  /\ leftnode' = IF members'[n] = {} THEN [leftnode EXCEPT ![n] = Root] ELSE leftnode
  /\ cut' = [cut EXCEPT
       ![w].more = @ /\ (BeingLeftmost(w) \/ pend[n] = None),
       ![w].sols = @ \cup {s.answer : s \in {t \in solutions[n] : t.alt <= branch[w][n].alt}}]
  /\ holder' = IF last THEN Released(w) ELSE holder
  /\ UNCHANGED <<cur, answer, prune_request, branch, back, node, partner, idle, history>>

\* Mutant: the alternatives to the right of the cut stay.
CutStore_KeepsWork(w) ==
  LET l == cut[w].left
      own == [cp |-> cut[w].to, alt |-> branch[w][l].alt]
      more == cut[w].more /\ pend[l] = None IN
  /\ pc[w] = "store" /\ Free(l, w)
  /\ IF prune_request[w] # None
     THEN /\ pc' = [pc EXCEPT ![w] = "done"]
          /\ UNCHANGED <<solutions, alternative, pend, cut>>
     ELSE /\ solutions' = Stored(w)
          /\ IF BeingLeftmost(w)
             THEN /\ pc' = [pc EXCEPT ![w] = "done"]
                  /\ UNCHANGED <<alternative, pend, cut>>
             ELSE /\ UNCHANGED alternative
                  /\ pend' = [pend EXCEPT ![l] = own]
                  /\ pc' = [pc EXCEPT ![w] = IF more THEN "look" ELSE "done"]
                  /\ cut' = [cut EXCEPT ![w].frame = l]
  /\ astray' = (astray \/ (prune_request[w] = None /\ ~ BeingLeftmost(w) /\
       \E i \in members[l] : branch[i][l].alt > own.alt /\ Missed(i, prune_request[i], CpB(w, l))))
  /\ UNCHANGED <<stacks, prune_request, branch, members, leftnode, holder,
                 back, node, partner, idle, succeeds>>

\* The answers go to the leftmost frame. When others are to the left, the rest
\* of the prune is left pending there. The request is looked at once.
CutStore(w) ==
  LET l == cut[w].left
      own == [cp |-> cut[w].to, alt |-> branch[w][l].alt]
      more == cut[w].more /\ pend[l] = None IN
  /\ pc[w] = "store" /\ Free(l, w)
  /\ IF prune_request[w] # None
     THEN /\ pc' = [pc EXCEPT ![w] = "done"]
          /\ UNCHANGED <<solutions, alternative, pend, cut>>
     ELSE /\ solutions' = Stored(w)
          /\ IF BeingLeftmost(w)
             THEN /\ pc' = [pc EXCEPT ![w] = "done"]
                  /\ UNCHANGED <<alternative, pend, cut>>
             ELSE /\ alternative' = [alternative EXCEPT ![l] = NULL]
                  /\ pend' = [pend EXCEPT ![l] = own]
                  /\ pc' = [pc EXCEPT ![w] = IF more THEN "look" ELSE "done"]
                  /\ cut' = [cut EXCEPT ![w].frame = l]
  /\ astray' = (astray \/ (prune_request[w] = None /\ ~ BeingLeftmost(w) /\
       \E i \in members[l] : branch[i][l].alt > own.alt /\ Missed(i, prune_request[i], CpB(w, l))))
  /\ UNCHANGED <<stacks, prune_request, branch, members, leftnode, holder,
                 back, node, partner, idle, succeeds>>

\* Pruning continues in the frames from there to the choice point cut to.
LookUp(w) ==
  LET up == CpB(w, cut[w].frame) IN
  /\ Goto(w, "look", IF up = cut[w].to THEN "done" ELSE "more")
  /\ cut' = [cut EXCEPT ![w].frame = up, ![w].seen = members[cut[w].frame]]
  /\ UNCHANGED <<stacks, prune_request, branch, frames, back, node, partner, idle, history>>

CutMore(w) ==
  LET n == cut[w].frame
      own == branch[w][n].alt
      todo == {i \in members[n] \ cut[w].seen : branch[i][n].alt > own \/ branch[i][n].cut} IN
  /\ pc[w] = "more" /\ Free(n, w)
  /\ Goto(w, "more", "send_more")
  /\ holder' = [holder EXCEPT ![n] = w]
  /\ cut' = [cut EXCEPT ![w].todo = todo]
  /\ UNCHANGED <<stacks, prune_request, branch, alternative, members, pend, leftnode, solutions,
                 back, node, partner, idle, history>>

SendMore(w) == \E i \in cut[w].todo :
  LET n == cut[w].frame IN
  /\ pc[w] = "send_more"
  /\ branch[i][n].alt > branch[w][n].alt
  /\ prune_request' = Sent(i, CpB(w, n))
  /\ cut' = [cut EXCEPT ![w].todo = @ \ {i}]
  /\ UNCHANGED <<pc, stacks, branch, frames, back, node, partner, idle, history>>

\* A worker to the left may still cut: goto end_prune_more.
StopMore(w) ==
  LET n == cut[w].frame IN
  /\ pc[w] = "send_more"
  /\ \E i \in cut[w].todo : branch[i][n].alt <= branch[w][n].alt
  /\ Goto(w, "send_more", "done")
  /\ holder' = [holder EXCEPT ![n] = None]
  /\ UNCHANGED <<stacks, prune_request, branch, alternative, members, pend, leftnode, solutions,
                 locals, idle, history>>

NextMore(w) ==
  LET n == cut[w].frame IN
  /\ cut[w].todo = {}
  /\ Goto(w, "send_more", "look")
  /\ alternative' = [alternative EXCEPT ![n] = NULL]
  /\ holder' = [holder EXCEPT ![n] = None]
  /\ UNCHANGED <<stacks, prune_request, branch, members, pend, leftnode, solutions,
                 locals, idle, history>>

\* end_prune_more, and the return to the engine or, with PUT_BUSY, to get_work.
EndCut(w) ==
  /\ Goto(w, "done", back[w])
  /\ prune_request' = Reset(w, top_cp[w])
  /\ cut' = [cut EXCEPT ![w] = NoCut]
  /\ idle' = idle \ {w}
  /\ UNCHANGED <<stacks, branch, frames, back, node, partner, history>>

-----------------------------------------------------------------------------
(* get_work *)

\* move_up_to_prune_request
PruneUp(w) ==
  LET n == top_cp[w]
      alone == members[n] = {w}
      up == CpB(w, n)
      last == up = prune_request[w] IN
  /\ pc[w] = "prune" /\ Free(n, w)
  /\ Goto(w, "prune", IF last THEN "scan" ELSE "prune")
  /\ Pop(w, n)
  /\ members' = Without(w, n)
  /\ IF alone
     THEN /\ alternative' = [alternative EXCEPT ![n] = NULL]
          /\ pend' = [pend EXCEPT ![n] = None]
          /\ solutions' = [solutions EXCEPT ![n] = {}]
          /\ leftnode' = [leftnode EXCEPT ![n] = Root]
     ELSE UNCHANGED <<alternative, pend, solutions, leftnode>>
  /\ prune_request' = IF last THEN Reset(w, up) ELSE prune_request
  /\ UNCHANGED <<cur, answer, branch, holder, locals, idle, history>>

\* The nearest node with work, or none: the worker becomes idle and refuses
\* requests that have come in.
LiveNodes(w) == {n \in Stack(w) : Younger(top_cp[w], n) /\ alternative[n] # NULL}

Scan(w) ==
  /\ Goto(w, "scan", "work")
  /\ LiveNodes(w) # {}
  /\ node' = [node EXCEPT ![w] = Youngest(LiveNodes(w))]
  /\ UNCHANGED <<stacks, prune_request, branch, frames, cut, back, partner, idle, history>>

PutIdle(w) ==
  /\ pc[w] = "scan" /\ LiveNodes(w) = {}
  /\ pc' = [v \in Worker |-> IF v = w \/ (pc[v] = "ask" /\ partner[v] = w) THEN "idle" ELSE pc[v]]
  /\ idle' = idle \cup {w}
  /\ UNCHANGED <<stacks, prune_request, branch, frames, locals, history>>

\* move_up_one_node: to the node with work, or from a node in which nobody is
\* busy, or to a worker that is not below (get_work_above,
\* find_a_better_position).
MayMove(w) ==
  /\ top_cp[w] # Root /\ Free(top_cp[w], w)
  /\ \/ pc[w] = "work"
     \/ pc[w] = "idle" /\ (\/ members[top_cp[w]] \subseteq idle
                           \/ members[top_cp[w]] # Worker)

Arrived(w, up) == IF pc[w] = "work" /\ up = node[w] THEN "fail" ELSE pc[w]

\* CUT_last_worker_left_pending_prune
LastLeft(w, n) == \A i \in members[n] \ {w} : branch[i][n].alt >= pend[n].alt
ExecutesPending(w) ==
  LET n == top_cp[w] IN pend[n] # None /\ prune_request[w] = None /\ LastLeft(w, n)

\* The pending prune is taken up. Its position is copied; the code reads it
\* through a pointer to the frame, where it stays until another is stored.
DoPending(w) ==
  LET n == top_cp[w] IN
  /\ MayMove(w) /\ ExecutesPending(w)
  /\ pc' = [pc EXCEPT ![w] = "cut"]
  /\ back' = [back EXCEPT ![w] = "fail"]
  /\ cut' = [cut EXCEPT ![w] = [NoCut EXCEPT !.to = pend[n].cp, !.pend = n, !.at = pend[n].alt]]
  /\ branch' = [branch EXCEPT ![w][n] = [alt |-> pend[n].alt, cut |-> FALSE]]
  /\ pend' = [pend EXCEPT ![n] = None]
  /\ UNCHANGED <<stacks, prune_request, alternative, members, leftnode, solutions, holder,
                 node, partner, idle, history>>

\* One of several members leaves.
MoveUp(w) ==
  LET n == top_cp[w]
      up == CpB(w, n) IN
  /\ MayMove(w) /\ ~ ExecutesPending(w)
  /\ members[n] # {w}
  /\ pc' = [pc EXCEPT ![w] = Arrived(w, up)]
  /\ Pop(w, n)
  /\ members' = Without(w, n)
  /\ prune_request' = Reset(w, up)
  /\ UNCHANGED <<cur, answer, branch, alternative, pend, leftnode, solutions, holder, locals,
                 idle, history>>

\* The last one frees the frame and takes its answers along.
MoveUpLast(w) ==
  LET n == top_cp[w]
      up == CpB(w, n)
      sols == IF prune_request[w] = None THEN {s.answer : s \in solutions[n]} ELSE {} IN
  /\ MayMove(w) /\ ~ ExecutesPending(w)
  /\ members[n] = {w}
  /\ Pop(w, n)
  /\ members' = Without(w, n)
  /\ alternative' = [alternative EXCEPT ![n] = NULL]
  /\ pend' = [pend EXCEPT ![n] = None]
  /\ solutions' = [solutions EXCEPT ![n] = {}]
  /\ leftnode' = [leftnode EXCEPT ![n] = Root]
  /\ prune_request' = Reset(w, up)
  /\ pc' = [pc EXCEPT ![w] = IF sols = {} THEN Arrived(w, up) ELSE "carry"]
  /\ back' = [back EXCEPT ![w] = Arrived(w, up)]
  /\ cut' = [cut EXCEPT ![w].sols = sols]
  /\ UNCHANGED <<cur, answer, branch, holder, node, partner, idle, history>>

\* Then it looks for the leftmost frame ...
FindLeftmost(w) ==
  /\ Goto(w, "carry", "put")
  /\ cut' = [cut EXCEPT ![w].left = Leftmost(w)]
  /\ leftnode' = Leftnodes(w)
  /\ UNCHANGED <<stacks, prune_request, branch, alternative, members, pend, solutions, holder,
                 back, node, partner, idle, history>>

\* ... and stores them there, without a look at its prune request.
PutAnswers(w) ==
  /\ pc[w] = "put" /\ Free(cut[w].left, w)
  /\ Goto(w, "put", back[w])
  /\ solutions' = Stored(w)
  /\ cut' = [cut EXCEPT ![w] = NoCut]
  /\ astray' = (astray \/ prune_request[w] # None)
  /\ UNCHANGED <<stacks, prune_request, branch, alternative, members, pend, leftnode, holder,
                 back, node, partner, idle, succeeds>>

-----------------------------------------------------------------------------
(* Sharing *)

\* get_work_below, get_work_above and search_for_hidden_shared_work look for a
\* busy member without a lock. (The last of them may use the members of a frame
\* that q has left since; here q chooses in its top frame.)
Choose(q, p) ==
  /\ Goto(q, "idle", "request")
  /\ p \in members[top_cp[q]] \ ({q} \cup idle)
  /\ partner' = [partner EXCEPT ![q] = p]
  /\ UNCHANGED <<stacks, prune_request, branch, frames, cut, back, node, idle, history>>

\* What q reads as the branch of p in frame n. When p has left the frame, it is
\* the entry of the last frame at that depth in which p was.
Depth(n) == Cardinality({m \in Node : Younger(n, m)})
Read(p, n) == IF p \in members[n] THEN {branch[p][n]}
              ELSE {branch[p][m] : m \in {m \in Node : Depth(m) = Depth(n)}}

\* Workers that somebody asks already.
Asked == {partner[v] : v \in {u \in Worker : pc[u] = "ask"}}

\* q_share_work makes sure that nobody is being pruned, moves to the branch of
\* p, and asks p, unless it is idle or has a request. Between these two p may
\* change its alternative or become idle, as it may when it has been asked.
TakeBranch(q) ==
  LET p == partner[q]
      n == top_cp[q] IN
  /\ Goto(q, "request", IF p \in idle \cup Asked THEN "idle" ELSE "ask")
  /\ Free(n, q)
  /\ prune_request[p] = None
  /\ prune_request' = Reset(q, n) /\ prune_request'[q] = None
  /\ \E b \in Read(p, n) : branch' = [branch EXCEPT ![q][n] = b]
  /\ UNCHANGED <<stacks, frames, locals, idle, history>>

\* When get_work_above has moved up to p, p may be idle: q takes its branch and
\* asks nobody.
TakeIdleBranch(q, p) ==
  LET n == top_cp[q] IN
  /\ Goto(q, "idle", "idle") /\ Free(n, q)
  /\ p \in (members[n] \cap idle) \ {q} /\ prune_request[p] = None
  /\ prune_request' = Reset(q, n) /\ prune_request'[q] = None
  /\ branch' = [branch EXCEPT ![q][n] = branch[p][n]]
  /\ UNCHANGED <<stacks, frames, locals, idle, history>>

\* q or p has a prune request.
GiveUp(q) ==
  /\ Goto(q, "request", "idle") /\ Free(top_cp[q], q)
  /\ prune_request[partner[q]] # None \/ Reset(q, top_cp[q])[q] # None
  /\ UNCHANGED <<stacks, prune_request, branch, frames, locals, idle, history>>

Refuse(p, q) ==
  /\ pc[p] = "run" /\ partner[q] = p
  /\ Goto(q, "ask", "idle")
  /\ UNCHANGED <<stacks, prune_request, branch, frames, locals, idle, history>>

\* Mutant: q keeps its branch of long ago in frames that p shares already.
SharedBranches_NewOnly(p, q) == [w \in Worker |-> [n \in Node |->
  IF w \in {p, q} /\ n \in Private(p) THEN [alt |-> cp_ap[p][n] - 1, cut |-> TRUE]
  ELSE branch[w][n]]]

\* The branches of p and q when p has shared its private choice points.
SharedBranches(p, q) == [w \in Worker |-> [n \in Node |->
  IF w \in {p, q} /\ n \in Private(p) THEN [alt |-> cp_ap[p][n] - 1, cut |-> TRUE]
  ELSE IF w = q /\ n \in Stack(p) /\ Younger(n, top_cp[q]) THEN branch[p][n]
  ELSE branch[w][n]]]

\* share_private_nodes: frames for the private choice points, and the shared
\* ones above that q is not yet in, which it locks one by one: p is a member
\* of all of them throughout.
Share(p, q) ==
  LET top == top_cp[q]
      new == Private(p)
      old == {n \in Stack(p) \ new : Younger(n, top)} IN
  /\ pc[q] = "ask" /\ partner[q] = p
  /\ p \in members[top] /\ B(p) # top
  /\ \A n \in old : Free(n, p)
  /\ Goto(p, "run", "share")
  /\ partner' = [partner EXCEPT ![p] = q]
  /\ alternative' = [n \in Node |-> IF n \in new THEN cp_ap[p][n] ELSE alternative[n]]
  /\ members' = [n \in Node |-> IF n \in new THEN {p, q}
                                ELSE IF n \in old THEN members[n] \cup {q} ELSE members[n]]
  /\ leftnode' = [n \in Node |-> IF n \in new THEN top_cp[p] ELSE leftnode[n]]
  /\ branch' = SharedBranches(p, q)
  /\ cp_ap' = [cp_ap EXCEPT ![p] = [n \in Node |-> IF n \in new THEN GETWORK ELSE @[n]]]
  /\ astray' = (astray \/ branch[q][top].alt # branch[p][top].alt)
  /\ UNCHANGED <<cur, answer, top_cp, prune_request, pend, solutions, holder, cut, back, node,
                 idle, succeeds>>

\* The top choice points, with the lock of q's old top frame, and the request
\* of p passed on by share_private_nodes.
SetTops(p) ==
  LET q == partner[p]
      b == B(p) IN
  /\ Free(top_cp[q], p)
  /\ Goto(p, "share", "forward")
  /\ top_cp' = [top_cp EXCEPT ![p] = b, ![q] = b]
  /\ cp_ap' = [cp_ap EXCEPT ![q] = cp_ap[p]]
  /\ prune_request' = IF prune_request[p] # None /\ Younger(b, prune_request[p])
                         /\ (prune_request[q] # None => Younger(prune_request[q], prune_request[p]))
                      THEN [prune_request EXCEPT ![q] = prune_request[p]] ELSE prune_request
  /\ UNCHANGED <<cur, answer, branch, frames, locals, idle, history>>

\* p_share_work passes it on once more, and the copy is installed.
Forward(p) ==
  LET q == partner[p] IN
  /\ pc[p] = "forward"
  /\ pc' = [pc EXCEPT ![p] = "run", ![q] = "fail"]
  /\ prune_request' = IF prune_request[p] = None THEN prune_request ELSE Sent(q, prune_request[p])
  /\ idle' = idle \ {q}
  /\ UNCHANGED <<stacks, branch, frames, locals, history>>

\* All workers are idle in the root choice point.
Finish ==
  /\ \A w \in Worker : pc[w] = "idle" /\ top_cp[w] = Root
  /\ pc' = [w \in Worker |-> "end"]
  /\ UNCHANGED <<stacks, prune_request, branch, frames, locals, idle, history>>

Over == (\A w \in Worker : pc[w] = "end") /\ UNCHANGED vars

Step(w) ==
  \/ Try(w) \/ Call(w) \/ Exit(w) \/ Cut(w) \/ Retry(w) \/ GetAlternative(w) \/ EnterScheduler(w)
  \/ CheckPruneRequest(w) \/ NewAnswer(w) \/ StoreAnswer(w)
  \/ BeginCut(w) \/ LockToSend(w) \/ Send(w) \/ CutUp(w) \/ CutStore(w)
  \/ LookUp(w) \/ CutMore(w) \/ SendMore(w) \/ StopMore(w) \/ NextMore(w) \/ EndCut(w)
  \/ PruneUp(w) \/ Scan(w) \/ PutIdle(w) \/ DoPending(w) \/ MoveUp(w) \/ MoveUpLast(w)
  \/ FindLeftmost(w) \/ PutAnswers(w)
  \/ \E v \in Worker : Choose(w, v) \/ TakeIdleBranch(w, v) \/ Refuse(w, v) \/ Share(w, v)
  \/ TakeBranch(w) \/ GiveUp(w) \/ SetTops(w) \/ Forward(w)

Next == (\E w \in Worker : Step(w)) \/ Finish \/ Over
Spec == Init /\ [][Next]_vars

-----------------------------------------------------------------------------
(* Properties *)

Locations == {"run", "exit", "fail", "scan", "prune", "work", "idle", "request", "ask", "share",
  "forward", "answer", "carry", "put", "cut", "lock", "send", "up", "store", "look", "more",
  "send_more", "done", "end"}

CutLocals ==
  [to : Node \cup {None}, pend : Node \cup {None}, at : Nat, left : Node \cup {None},
   frame : Node \cup {None}, todo : SUBSET Worker, sent : SUBSET Worker, seen : SUBSET Worker,
   more : BOOLEAN, sols : SUBSET Alternative]

\* A worker is a member of its top frame, and its choice points above the top
\* one, and no others, are shared: backtracking into them is getwork.
TypeOK ==
  /\ pc \in [Worker -> Locations]
  /\ cur \in [Worker -> Alternative] /\ answer \in [Worker -> Alternative]
  /\ cp_ap \in [Worker -> [Node -> Int]] /\ top_cp \in [Worker -> Node]
  /\ \A w \in Worker : \A n \in Node :
       /\ cp_ap[w][n] \in {NULL, GETWORK} \cup (2 .. Len(Tree[n]))
       /\ n \in Stack(w) /\ pc[w] # "share" =>
            (cp_ap[w][n] = GETWORK <=> AtOrUnder(top_cp[w], n))
  /\ \A w \in Worker : w \in members[top_cp[w]]
  /\ prune_request \in [Worker -> Node \cup {None}]
  /\ branch \in [Worker -> [Node -> [alt : Nat, cut : BOOLEAN]]]
  /\ alternative \in [Node -> Nat] /\ members \in [Node -> SUBSET Worker]
  /\ \A n \in Node : alternative[n] \in {NULL} \cup (2 .. Len(Tree[n]))
  /\ pend \in [Node -> {None} \cup [cp : Node, alt : Nat]]
  /\ leftnode \in [Node -> Node] /\ holder \in [Node -> Worker \cup {None}]
  /\ solutions \in [Node -> SUBSET [alt : Nat, answer : Alternative]]
  /\ cut \in [Worker -> CutLocals] /\ back \in [Worker -> {"fail", "exit", "work", "idle"}]
  /\ node \in [Worker -> Node] /\ partner \in [Worker -> Worker]
  /\ idle \subseteq Worker /\ astray \in BOOLEAN

Answers == {s.answer : s \in solutions[Root]}
Expected == LET p == Prolog[Root] IN {p[i] : i \in DOMAIN p}

\* A parallel query has the answers of sequential Prolog: at the root, where no
\* cut can take them back, there is never another one, and at the end none is
\* missing (builtins.tex, "Cuts any choices taken in the current procedure").
AnswersOfProlog ==
  /\ Answers \subseteq Expected
  /\ (\A w \in Worker : pc[w] = "end") => Answers = Expected

\* That is so as long as none of the five races that set astray occurs.
AnswersUnlessAstray == astray \/ AnswersOfProlog

\* Two workers that share a choice point share the same ones above it, and are
\* in the same alternative of each: what BRANCH says of them agrees.
BranchesAgree == astray \/
  \A n \in Node, m \in Node : Younger(n, m) =>
    \A i, j \in members[n] :
      i \in members[m] => j \in members[m] /\ branch[i][m].alt = branch[j][m].alt

\* A worker that moves up has its prune request above it: the assertions of
\* move_up_to_prune_request and move_up_one_node.
RequestsAbove ==
  \A w \in Worker :
    prune_request[w] # None /\ pc[w] \in {"prune", "work", "idle"}
      => Younger(top_cp[w], prune_request[w])

\* A worker that asks for work and finds no prune request at a busy member p can
\* move to the branch of p: it is not to the right of a pending prune (the
\* assertion of q_share_work).
SafePosition == astray \/
  \A q, p \in Worker : LET n == top_cp[q] IN
    pc[q] \in {"idle", "request"} /\ p \in members[n] \ idle /\
    prune_request[p] = None /\ pend[n] # None
      => branch[p][n].alt <= pend[n].alt
=============================================================================
