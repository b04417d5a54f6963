----------------------------- MODULE Delegation -----------------------------
(***************************************************************************)
(* How a team with several workers answers the requests of other teams     *)
(* (or.macros.h, SCH_check_messages and SCH_check_delegate_share;          *)
(* or.copy_engine.c, check_messages_delegations and mpi_team_get_work).    *)
(*                                                                         *)
(* Only worker 0 talks to other teams.  It answers a request itself or     *)
(* delegates it to a worker p with more work: p copies its stacks into a   *)
(* delegation area, and worker 0 sends them when p has left message 1      *)
(* there.  Message 3 says that the copy is being made, message 2 that p    *)
(* has too little work by now.  Worker 0 polls the areas, p polls its      *)
(* delegate_share_area; a worker's lock is held only while worker 0 makes  *)
(* sure that p is not idle, and while p becomes idle.                      *)
(*                                                                         *)
(* Loads are left open: any worker that is not idle may be the one with    *)
(* the highest load, and may have too little when it comes to sharing.     *)
(***************************************************************************)
EXTENDS Naturals, Sequences, FiniteSets

CONSTANTS Worker, Zero,   \* the workers of the team, and worker 0
          Team,           \* the other teams
          NArenas,        \* GLOBAL_mpi_n_arenas
          Nobody          \* MAX_WORKERS

Area == 0 .. NArenas - 1

ASSUME DelegationAssumption ==
  /\ Zero \in Worker /\ IsFiniteSet(Worker)
  /\ NArenas \in Nat \ {0}
  /\ Nobody \notin Worker \cup Area \cup Team

VARIABLES
  zero,           \* where worker 0 is
  at,             \* the area worker 0 looks at next
  chosen,         \* the team, worker and area worker 0 has chosen
  pc,             \* where each other worker is
  aux_area,       \* its local variable
  share_area,     \* delegate_share_area of each worker
  idle,           \* GLOBAL_bm_idle_workers
  delegated,      \* GLOBAL_mpi_delegated_workers
  is_free, worker_q, worker_p, messages, msg_ok, \* the areas
  n_free,         \* GLOBAL_mpi_n_free_arenas
  asking,         \* teams that have asked and not received an answer
  inbox,          \* teams whose request has not been read
  replies         \* the answers to each team's request: codes 2 and 3, and 7 for work

areas == <<is_free, worker_q, worker_p, messages, msg_ok, n_free, delegated>>
workers == <<pc, aux_area, share_area, idle>>
worker0 == <<zero, at, chosen>>
network == <<asking, inbox, replies>>
vars == <<worker0, workers, areas, network>>

Others == Worker \ {Zero}

NoChoice == [q |-> Nobody, p |-> Nobody, area |-> Nobody]

\* The first free area.
FirstFree(a) == is_free[a] /\ \A b \in 0 .. a - 1 : ~ is_free[b]

Reply(q, codes) == replies' = [replies EXCEPT ![q] = @ \o codes]

-----------------------------------------------------------------------------
(* The other teams                                                          *)

\* A team has one request under way.
Request(q) ==
  /\ q \notin asking
  /\ asking' = asking \cup {q}
  /\ inbox' = inbox \cup {q}
  /\ UNCHANGED <<worker0, workers, areas, replies>>

\* It has been refused, or has received the work.
Receive(q) ==
  /\ replies[q] \in {<<3>>, <<2, 7>>}
  /\ asking' = asking \ {q}
  /\ replies' = [replies EXCEPT ![q] = <<>>]
  /\ UNCHANGED <<worker0, workers, areas, inbox>>

-----------------------------------------------------------------------------
(* A worker other than 0: SCH_check_delegate_share                          *)

StartCopy(p) ==
  /\ pc[p] = "run" /\ share_area[p] # Nobody
  /\ aux_area' = [aux_area EXCEPT ![p] = share_area[p]]
  /\ messages' = [messages EXCEPT ![share_area[p]] = 3]
  /\ pc' = [pc EXCEPT ![p] = "copy"]
  /\ UNCHANGED <<worker0, share_area, idle, is_free, worker_q, worker_p, msg_ok, n_free,
                 delegated, network>>

\* mpi_delegate_team_p_share_work, and LOCAL_delegate_share_area = MAX_WORKERS
EndCopy(p) ==
  /\ pc[p] = "copy"
  /\ share_area' = [share_area EXCEPT ![p] = Nobody]
  /\ pc' = [pc EXCEPT ![p] = "copied"]
  /\ UNCHANGED <<worker0, aux_area, idle, areas, network>>

Copied(p) ==
  /\ pc[p] = "copied"
  /\ messages' = [messages EXCEPT ![aux_area[p]] = 1]
  /\ pc' = [pc EXCEPT ![p] = "run"]
  /\ UNCHANGED <<worker0, aux_area, share_area, idle, is_free, worker_q, worker_p, msg_ok,
                 n_free, delegated, network>>

\* the load is 5 or less: always in get_work, where it has been set to 0
TooLittle(p) ==
  /\ pc[p] \in {"run", "check"} /\ share_area[p] # Nobody
  /\ aux_area' = [aux_area EXCEPT ![p] = share_area[p]]
  /\ share_area' = [share_area EXCEPT ![p] = Nobody]
  /\ pc' = [pc EXCEPT ![p] = "refuse"]
  /\ UNCHANGED <<worker0, idle, areas, network>>

Refused(p) ==
  /\ pc[p] = "refuse"
  /\ messages' = [messages EXCEPT ![aux_area[p]] = 2]
  /\ pc' = [pc EXCEPT ![p] = IF p \in idle THEN "idle" ELSE "run"]
  /\ UNCHANGED <<worker0, aux_area, share_area, idle, is_free, worker_q, worker_p, msg_ok,
                 n_free, delegated, network>>

(* get_work: with its own lock the worker becomes idle, and looks once more *)
PutIdle(p) ==
  /\ pc[p] = "run"
  /\ idle' = idle \cup {p}
  /\ pc' = [pc EXCEPT ![p] = "check"]
  /\ UNCHANGED <<worker0, aux_area, share_area, areas, network>>

NothingDelegated(p) ==
  /\ pc[p] = "check" /\ share_area[p] = Nobody
  /\ pc' = [pc EXCEPT ![p] = "idle"]
  /\ UNCHANGED <<worker0, aux_area, share_area, idle, areas, network>>

\* somebody has work to share
PutBusy(p) ==
  /\ pc[p] = "idle" /\ idle # Worker
  /\ idle' = idle \ {p}
  /\ pc' = [pc EXCEPT ![p] = "run"]
  /\ UNCHANGED <<worker0, aux_area, share_area, areas, network>>

-----------------------------------------------------------------------------
(* Worker 0: SCH_check_messages, from the abstract machine or from the idle *)
(* loop, first the delegation areas and then one message                    *)

To0(l, a) == zero' = l /\ at' = a

CheckMessages ==
  /\ zero = "run"
  /\ To0(IF n_free < NArenas THEN "scan" ELSE "probe", 0)
  /\ UNCHANGED <<chosen, workers, areas, network>>

\* The next area.  After the last one SCH_check_messages goes on to the
\* messages, and mpi_team_get_work starts again until all areas are free.
NextArea(n) ==
  IF at + 1 < NArenas THEN To0(zero, at + 1)
  ELSE To0(IF zero = "scan" THEN "probe" ELSE IF n < NArenas THEN "drain" ELSE "get", 0)

LookPast ==
  /\ zero \in {"scan", "drain"}
  /\ is_free[at] \/ messages[at] = 0
  /\ NextArea(n_free)
  /\ UNCHANGED <<chosen, workers, areas, network>>

FreeArea(a) ==
  /\ is_free' = [is_free EXCEPT ![a] = TRUE]
  /\ n_free' = n_free + 1
  /\ worker_q' = [worker_q EXCEPT ![a] = Nobody]
  /\ worker_p' = [worker_p EXCEPT ![a] = Nobody]
  /\ messages' = [messages EXCEPT ![a] = 0]
  /\ msg_ok' = [msg_ok EXCEPT ![a] = FALSE]
  /\ delegated' = delegated \ {worker_p[a]}

\* Mutant: the area is freed although the copy is being made.
LookCopying_Frees ==
  /\ zero \in {"scan", "drain"}
  /\ ~ is_free[at] /\ messages[at] = 3
  /\ IF msg_ok[at] THEN UNCHANGED replies ELSE Reply(worker_q[at], <<2>>)
  /\ FreeArea(at)
  /\ NextArea(n_free + 1)
  /\ UNCHANGED <<chosen, workers, asking, inbox>>

LookCopying ==
  /\ zero \in {"scan", "drain"}
  /\ ~ is_free[at] /\ messages[at] = 3
  /\ IF msg_ok[at] THEN UNCHANGED replies ELSE Reply(worker_q[at], <<2>>)
  /\ msg_ok' = [msg_ok EXCEPT ![at] = TRUE]
  /\ NextArea(n_free)
  /\ UNCHANGED <<chosen, workers, is_free, worker_q, worker_p, messages, n_free, delegated,
                 asking, inbox>>

\* Mutant: mpi_msg_ok_sent is not looked at.
LookCopied_OkAgain ==
  /\ zero \in {"scan", "drain"}
  /\ ~ is_free[at] /\ messages[at] = 1
  /\ Reply(worker_q[at], <<2, 7>>)
  /\ FreeArea(at)
  /\ NextArea(n_free + 1)
  /\ UNCHANGED <<chosen, workers, asking, inbox>>

LookCopied ==
  /\ zero \in {"scan", "drain"}
  /\ ~ is_free[at] /\ messages[at] = 1
  /\ Reply(worker_q[at], IF msg_ok[at] THEN <<7>> ELSE <<2, 7>>)
  /\ FreeArea(at)
  /\ NextArea(n_free + 1)
  /\ UNCHANGED <<chosen, workers, asking, inbox>>

LookRefused ==
  /\ zero \in {"scan", "drain"}
  /\ ~ is_free[at] /\ messages[at] = 2
  /\ Reply(worker_q[at], <<3>>)
  /\ FreeArea(at)
  /\ NextArea(n_free + 1)
  /\ UNCHANGED <<chosen, workers, asking, inbox>>

-----------------------------------------------------------------------------
(* One message                                                              *)

NoMessage ==
  /\ zero = "probe"
  /\ To0("run", 0)
  /\ UNCHANGED <<chosen, workers, areas, network>>

\* no worker has enough work, or no area is free
Reject(q) ==
  /\ zero = "probe" /\ q \in inbox
  /\ inbox' = inbox \ {q}
  /\ Reply(q, <<3>>)
  /\ To0("run", 0)
  /\ UNCHANGED <<chosen, workers, areas, asking>>

\* worker 0 has most: it promises its work and copies it into a free area
Promise(q) == \E a \in Area :
  /\ zero = "probe" /\ q \in inbox /\ Zero \notin idle /\ FirstFree(a)
  /\ inbox' = inbox \ {q}
  /\ Reply(q, <<2>>)
  /\ share_area' = [share_area EXCEPT ![Zero] = a]
  /\ worker_q' = [worker_q EXCEPT ![a] = q]
  /\ chosen' = [q |-> q, p |-> Zero, area |-> a]
  /\ To0("own", 0)
  /\ UNCHANGED <<pc, aux_area, idle, is_free, worker_p, messages, msg_ok, n_free, delegated,
                 asking>>

\* Mutant: worker 0 frees its area as if it had been delegated.
SendOwn_Frees ==
  /\ zero = "own"
  /\ Reply(chosen.q, <<7>>)
  /\ FreeArea(chosen.area)
  /\ share_area' = [share_area EXCEPT ![Zero] = Nobody]
  /\ chosen' = NoChoice
  /\ To0("run", 0)
  /\ UNCHANGED <<pc, aux_area, idle, asking, inbox>>

SendOwn ==
  /\ zero = "own"
  /\ Reply(chosen.q, <<7>>)
  /\ share_area' = [share_area EXCEPT ![Zero] = Nobody]
  /\ chosen' = NoChoice
  /\ To0("run", 0)
  /\ UNCHANGED <<pc, aux_area, idle, areas, asking, inbox>>

\* worker p has most
ChooseWorker(q) == \E p \in Others, a \in Area :
  /\ zero = "probe" /\ q \in inbox /\ FirstFree(a)
  /\ p \notin idle /\ p \notin delegated
  /\ inbox' = inbox \ {q}
  /\ chosen' = [q |-> q, p |-> p, area |-> a]
  /\ To0("delegate", 0)
  /\ UNCHANGED <<workers, areas, asking, replies>>

\* Mutant: the worker may have become idle.
Delegate_ToIdle ==
  /\ zero = "delegate"
  /\ n_free' = n_free - 1
  /\ msg_ok' = [msg_ok EXCEPT ![chosen.area] = FALSE]
  /\ is_free' = [is_free EXCEPT ![chosen.area] = FALSE]
  /\ worker_q' = [worker_q EXCEPT ![chosen.area] = chosen.q]
  /\ worker_p' = [worker_p EXCEPT ![chosen.area] = chosen.p]
  /\ share_area' = [share_area EXCEPT ![chosen.p] = chosen.area]
  /\ delegated' = delegated \cup {chosen.p}
  /\ chosen' = NoChoice
  /\ To0("run", 0)
  /\ UNCHANGED <<pc, aux_area, idle, messages, network>>

\* Mutant: the area is still counted as free.
Delegate_Uncounted ==
  /\ zero = "delegate" /\ chosen.p \notin idle
  /\ msg_ok' = [msg_ok EXCEPT ![chosen.area] = FALSE]
  /\ is_free' = [is_free EXCEPT ![chosen.area] = FALSE]
  /\ worker_q' = [worker_q EXCEPT ![chosen.area] = chosen.q]
  /\ worker_p' = [worker_p EXCEPT ![chosen.area] = chosen.p]
  /\ share_area' = [share_area EXCEPT ![chosen.p] = chosen.area]
  /\ delegated' = delegated \cup {chosen.p}
  /\ chosen' = NoChoice
  /\ To0("run", 0)
  /\ UNCHANGED <<n_free, pc, aux_area, idle, messages, network>>

\* under the lock of the worker: it is not idle and has work
Delegate ==
  /\ zero = "delegate" /\ chosen.p \notin idle
  /\ n_free' = n_free - 1
  /\ msg_ok' = [msg_ok EXCEPT ![chosen.area] = FALSE]
  /\ is_free' = [is_free EXCEPT ![chosen.area] = FALSE]
  /\ worker_q' = [worker_q EXCEPT ![chosen.area] = chosen.q]
  /\ worker_p' = [worker_p EXCEPT ![chosen.area] = chosen.p]
  /\ share_area' = [share_area EXCEPT ![chosen.p] = chosen.area]
  /\ delegated' = delegated \cup {chosen.p}
  /\ chosen' = NoChoice
  /\ To0("run", 0)
  /\ UNCHANGED <<pc, aux_area, idle, messages, network>>

DoNotDelegate ==
  /\ zero = "delegate"
  /\ Reply(chosen.q, <<3>>)
  /\ chosen' = NoChoice
  /\ To0("run", 0)
  /\ UNCHANGED <<workers, areas, asking, inbox>>

-----------------------------------------------------------------------------
(* Worker 0 has no work: get_work, and mpi_team_get_work when nobody has    *)

PutIdle0 ==
  /\ zero = "run" /\ Zero \notin idle
  /\ idle' = idle \cup {Zero}
  /\ UNCHANGED <<worker0, pc, aux_area, share_area, areas, network>>

PutBusy0 ==
  /\ zero = "run" /\ Zero \in idle /\ idle # Worker
  /\ idle' = idle \ {Zero}
  /\ UNCHANGED <<worker0, pc, aux_area, share_area, areas, network>>

GetWork ==
  /\ zero = "run" /\ Zero \in idle
  /\ \A p \in Others : pc[p] = "idle"
  /\ To0(IF n_free < NArenas THEN "drain" ELSE "get", 0)
  /\ UNCHANGED <<chosen, workers, areas, network>>

GetRequest(q) ==
  /\ zero = "get" /\ q \in inbox
  /\ inbox' = inbox \ {q}
  /\ Reply(q, <<3>>)
  /\ UNCHANGED <<worker0, workers, areas, asking>>

\* another team has promised work: it is received into area 0
GetAccepted ==
  /\ zero = "get"
  /\ share_area' = [share_area EXCEPT ![Zero] = 0]
  /\ To0("recv", 0)
  /\ UNCHANGED <<chosen, pc, aux_area, idle, areas, network>>

Install ==
  /\ zero = "recv"
  /\ share_area' = [share_area EXCEPT ![Zero] = Nobody]
  /\ idle' = idle \ {Zero}
  /\ To0("run", 0)
  /\ UNCHANGED <<chosen, pc, aux_area, areas, network>>

-----------------------------------------------------------------------------
Init ==
  /\ zero = "run" /\ at = 0 /\ chosen = NoChoice
  /\ pc = [p \in Others |-> "idle"]
  /\ aux_area = [p \in Others |-> Nobody]
  /\ share_area = [w \in Worker |-> Nobody]
  /\ idle = Others
  /\ delegated = {}
  /\ is_free = [a \in Area |-> TRUE]
  /\ worker_q = [a \in Area |-> Nobody]
  /\ worker_p = [a \in Area |-> Nobody]
  /\ messages = [a \in Area |-> 0]
  /\ msg_ok = [a \in Area |-> FALSE]
  /\ n_free = NArenas
  /\ asking = {} /\ inbox = {}
  /\ replies = [q \in Team |-> <<>>]

CheckDelegateShare(p) == StartCopy(p) \/ EndCopy(p) \/ Copied(p) \/ TooLittle(p) \/ Refused(p)

Work(p) == CheckDelegateShare(p) \/ PutIdle(p) \/ NothingDelegated(p) \/ PutBusy(p)

Scan == LookPast \/ LookCopying \/ LookCopied \/ LookRefused

ReadRequest(q) == Reject(q) \/ Promise(q) \/ ChooseWorker(q) \/ GetRequest(q)

Answer0 == SendOwn \/ Delegate \/ DoNotDelegate \/ Install

Next == \/ \E p \in Others : Work(p)
        \/ \E q \in Team : Request(q) \/ Receive(q) \/ ReadRequest(q)
        \/ CheckMessages \/ Scan \/ NoMessage \/ Answer0
        \/ PutIdle0 \/ PutBusy0 \/ GetWork \/ GetAccepted

Spec == Init /\ [][Next]_vars

(***************************************************************************)
(* Every worker polls: the others their delegate_share_area as long as     *)
(* they run and once when they become idle, worker 0 the areas and then    *)
(* the messages wherever it is.  Of several teams' messages MPI delivers   *)
(* each at last, although worker 0 reads one at a time.                    *)
(***************************************************************************)
FairSpec ==
  /\ Spec
  /\ \A p \in Others : WF_vars(CheckDelegateShare(p) \/ NothingDelegated(p))
  /\ WF_vars(CheckMessages) /\ WF_vars(Scan) /\ WF_vars(NoMessage) /\ WF_vars(Answer0)
  /\ \A q \in Team : SF_vars(ReadRequest(q))

-----------------------------------------------------------------------------
TypeOK ==
  /\ zero \in {"run", "scan", "probe", "own", "delegate", "drain", "get", "recv"}
  /\ at \in Area
  /\ chosen \in [q : Team \cup {Nobody}, p : Worker \cup {Nobody}, area : Area \cup {Nobody}]
  /\ pc \in [Others -> {"run", "copy", "copied", "refuse", "check", "idle"}]
  /\ aux_area \in [Others -> Area \cup {Nobody}]
  /\ share_area \in [Worker -> Area \cup {Nobody}]
  /\ idle \subseteq Worker /\ delegated \subseteq Others
  /\ is_free \in [Area -> BOOLEAN]
  /\ worker_q \in [Area -> Team \cup {Nobody}]
  /\ worker_p \in [Area -> Others \cup {Nobody}]
  /\ messages \in [Area -> 0 .. 3]
  /\ msg_ok \in [Area -> BOOLEAN]
  /\ n_free \in 0 .. NArenas
  /\ asking \subseteq Team /\ inbox \subseteq asking
  /\ replies \in [Team -> Seq({2, 3, 7})]

\* The workers that write into the buffer of an area: with a copy for another
\* team, or with the work that worker 0 receives.
Writers(a) == {p \in Others : pc[p] = "copy" /\ share_area[p] = a}
              \cup {w \in {Zero} : zero \in {"own", "recv"} /\ share_area[Zero] = a}

(***************************************************************************)
(* The buffer of an area has one writer, which is worker 0 if the area is  *)
(* free and the worker it is delegated to if it is not.  Worker 0 marks    *)
(* nothing when it uses an area itself, and receives into area 0 without   *)
(* looking at it.                                                          *)
(***************************************************************************)
BuffersExclusive ==
  \A a \in Area : Writers(a) \subseteq {IF is_free[a] THEN Zero ELSE worker_p[a]}

(***************************************************************************)
(* No delegation is forgotten: of an area that is taken either the worker  *)
(* still knows, or it has left its answer.  In particular a worker that    *)
(* waits in the idle loop, where it looks at delegate_share_area no more,  *)
(* has answered all.                                                       *)
(***************************************************************************)
Knows(p, a) == \/ pc[p] \in {"run", "check", "copy"} /\ share_area[p] = a
               \/ pc[p] \in {"copied", "refuse"} /\ aux_area[p] = a
NoneForgotten ==
  \A a \in Area : is_free[a] \/ messages[a] \in {1, 2} \/ Knows(worker_p[a], a)

\* Worker 0 counts the free areas: it skips the scan, leaves the wait of
\* mpi_team_get_work and overwrites area 0 because of the count alone.
FreeAreasCounted == n_free = Cardinality({a \in Area : is_free[a]})

(***************************************************************************)
(* The team keeps the promise of RequestService: every request is answered *)
(* once, with the work after the promise, and at last.                     *)
(***************************************************************************)
State(q) == CASE q \notin asking /\ replies[q] = <<>> -> "none"
              [] q \in asking /\ replies[q] = <<>> -> "asked"
              [] q \in asking /\ replies[q] = <<2>> -> "promised"
              [] q \in asking /\ replies[q] = <<2, 7>> -> "served"
              [] q \in asking /\ replies[q] = <<3>> -> "refused"
              [] OTHER -> "wrong"
Service == INSTANCE RequestService WITH request <- [q \in Team |-> State(q)]
ServesRequests == Service!FairSpec
=============================================================================
