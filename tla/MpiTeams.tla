------------------------------ MODULE MpiTeams ------------------------------
(***************************************************************************)
(* Teams that ask one another for work over MPI, and how they find out     *)
(* that a query is over (or.macros.h, SCH_check_messages; or.copy_engine.c,*)
(* check_messages_delegations and mpi_team_get_work).                      *)
(*                                                                         *)
(* Worker 0 of a team handles all messages.  While the team has work it    *)
(* answers requests; when all its workers are idle it asks the teams that, *)
(* as far as it knows, have work, and when it knows of none it tells all   *)
(* the others that the query is over.  What it knows are two arrays: the   *)
(* load of every team and that team's clock at the time.  The arrays go    *)
(* along with most messages, and the later entry wins.                     *)
(*                                                                         *)
(* A load is -1 (the team was waiting for work) or not; all loads from 0   *)
(* on are the value 0.  Which of the other workers of a team serves a      *)
(* request is left to module Delegation: here a delegated request is a     *)
(* record that is answered later.                                          *)
(*                                                                         *)
(* Between two queries the teams meet twice and throw the messages away    *)
(* that have arrived by then; one that comes later carries the execution   *)
(* counter of its query, which is 10 or 0 in turn, and is ignored.         *)
(***************************************************************************)
EXTENDS Naturals, Integers, Sequences, FiniteSets

CONSTANTS Teams,      \* the ranks of the communicator
          Team0,      \* rank 0, where the query starts
          Queries,    \* bound: the number of queries
          Bound       \* bound: queries and requests that busy teams take up

ASSUME TeamsAssumption == /\ Team0 \in Teams
                          /\ Queries \in Nat \ {0} /\ Bound \in Nat

VARIABLES execution_counter, \* GLOBAL_execution_counter
          pc,           \* "busy", or where worker 0 is in mpi_team_get_work
          waiting,      \* waiting_for_response
          mpi_load,     \* GLOBAL_mpi_load
          mpi_load_time,\* GLOBAL_mpi_load_time
          time_stamp,   \* GLOBAL_time_stamp
          from,         \* the team whose work worker 0 waits for in "recv"
          delegated,    \* requests in the delegation areas of a team
          msgs,         \* msgs[p][q]: messages with tag 44 from p to q
          work,         \* work[p][q]: messages with tag 7 from p to q
          answers,      \* how many requests busy teams have taken up
          queries,      \* the queries that have been started
          given,        \* history: the work given in this query: from whom at
                        \* which time, to whom for the request of which time
          stale         \* history: a team has replaced what it knew of another
                        \* by something older, or answered as idle when it had
                        \* been given work and knew the giver to be idle since

state == <<pc, waiting, time_stamp, from>>
known == <<mpi_load, mpi_load_time, stale>>
copies == <<work, given>>
network == <<msgs, copies>>
counters == <<execution_counter, queries, answers>>
vars == <<state, known, delegated, network, counters>>

Idle == -1
Some == 0

\* The messages with tag 44 are named for their code.
Message(t, code) == [counter |-> execution_counter[t], code |-> code]
Request(t, L, T) ==
  [counter |-> execution_counter[t], code |-> 1, time |-> time_stamp[t], loads |-> L, times |-> T]
Accepted(t) == Message(t, 2)
Refusal(t, load, L, T) ==
  [counter |-> execution_counter[t], code |-> 3, time |-> time_stamp[t], load |-> load,
   loads |-> L, times |-> T]
Notice(t, time) == [counter |-> execution_counter[t], code |-> 4, time |-> time, load |-> Some]
TheEnd(t) == Message(t, 6)

\* the arrays in the copy, tag 7
Work(time, L, T) == [time |-> time, loads |-> L, times |-> T]

NoMessages == [p \in Teams |-> [q \in Teams |-> <<>>]]
Send(net, p, q, m) == [net EXCEPT ![p][q] = Append(@, m)]
Received(p, q) == [msgs EXCEPT ![p][q] = Tail(@)]

\* Mutant: the execution counter is not looked at.
Arrived_AnyQuery(t, q, codes) == msgs[q][t] # <<>> /\ Head(msgs[q][t]).code \in codes

\* The next message of q is one of this query, with that code.
Arrived(t, q, codes) == /\ msgs[q][t] # <<>>
                        /\ Head(msgs[q][t]).counter = execution_counter[t]
                        /\ Head(msgs[q][t]).code \in codes

Outdated(t, q) == /\ msgs[q][t] # <<>>
                  /\ Head(msgs[q][t]).counter # execution_counter[t]

-----------------------------------------------------------------------------
(* The arrays of loads.  Newer entries of others are taken over; what a     *)
(* message says of its sender (or of a requester) replaces the entry,       *)
(* whatever its time.                                                       *)

Newer(t, m, u) == u # t /\ m.times[u] > mpi_load_time[t][u]
MergedLoads(t, m) == [u \in Teams |-> IF Newer(t, m, u) THEN m.loads[u] ELSE mpi_load[t][u]]
MergedTimes(t, m) == [u \in Teams |-> IF Newer(t, m, u) THEN m.times[u] ELSE mpi_load_time[t][u]]

Know(t, L, T) == /\ mpi_load' = [mpi_load EXCEPT ![t] = L]
                 /\ mpi_load_time' = [mpi_load_time EXCEPT ![t] = T]

\* The entry of u is replaced by an older one.
Stale(T, u, time) == stale' = (stale \/ time < T[u])

Given(t, q, time) == [from |-> t, at |-> time_stamp[t], to |-> q, time |-> time]

\* t has been given work for its last request, and knows that the giver has
\* become idle since.
GiverIdle(t, L, T) == \E g \in given :
  g.to = t /\ g.time = time_stamp[t] /\ L[g.from] = Idle /\ g.at < T[g.from]

-----------------------------------------------------------------------------
(* A team with work: SCH_check_messages                                     *)

\* GLOBAL_mpi_load(worker_q) = 0; GLOBAL_mpi_load_time(worker_q) = msg[2]; then
\* the merge, which leaves the entry of q alone: a team keeps no entry for itself
\* that is newer than the time of its request.
LearnRequest(t, q, m) == Know(t, [MergedLoads(t, m) EXCEPT ![q] = Some],
                                 [MergedTimes(t, m) EXCEPT ![q] = m.time])

Reject(t, q) ==
  /\ pc[t] = "busy" /\ Arrived(t, q, {1})
  /\ answers + queries <= Bound
  /\ LET m == Head(msgs[q][t]) IN
     /\ LearnRequest(t, q, m)
     /\ msgs' = Send(Received(q, t), t, q,
                     Refusal(t, Some, mpi_load'[t], mpi_load_time'[t]))
  /\ time_stamp' = [time_stamp EXCEPT ![t] = @ + 1]
  /\ answers' = answers + 1
  /\ UNCHANGED <<execution_counter, queries, pc, waiting, from, stale, delegated, copies>>

\* worker 0 splits its own work and sends it at once
GiveWork(t, q) ==
  /\ pc[t] = "busy" /\ Arrived(t, q, {1})
  /\ answers + queries <= Bound
  /\ LET m == Head(msgs[q][t])
         L == [MergedLoads(t, m) EXCEPT ![q] = Some]
         T == [MergedTimes(t, m) EXCEPT ![q] = m.time] IN
     /\ msgs' = Send(Received(q, t), t, q, Accepted(t))
     /\ work' = Send(work, t, q, Work(time_stamp[t], L, T))
     /\ Know(t, L, [T EXCEPT ![q] = m.time + 1])
     /\ given' = given \cup {Given(t, q, m.time)}
  /\ time_stamp' = [time_stamp EXCEPT ![t] = @ + 1]
  /\ answers' = answers + 1
  /\ UNCHANGED <<execution_counter, queries, pc, waiting, from, stale, delegated>>

\* another worker is to split its work: the request goes to a delegation area
Delegate(t, q) ==
  /\ pc[t] = "busy" /\ Arrived(t, q, {1})
  /\ answers + queries <= Bound
  /\ LET m == Head(msgs[q][t]) IN
     /\ LearnRequest(t, q, m)
     /\ delegated' = [delegated EXCEPT ![t] = @ \cup {[q |-> q, time |-> m.time, ok |-> FALSE]}]
     /\ msgs' = Received(q, t)
  /\ answers' = answers + 1
  /\ UNCHANGED <<execution_counter, queries, state, stale, copies>>

LearnNotice(t, q) ==
  /\ pc[t] = "busy" /\ Arrived(t, q, {4})
  /\ LET m == Head(msgs[q][t]) IN
     /\ Know(t, [mpi_load[t] EXCEPT ![q] = m.load], [mpi_load_time[t] EXCEPT ![q] = m.time])
     /\ Stale(mpi_load_time[t], q, m.time)
     /\ msgs' = Received(q, t)
  /\ UNCHANGED <<state, delegated, copies, counters>>

\* a message of another query is dropped, any other is an error, reported and dropped
DropMessage(t, q) ==
  /\ pc[t] = "busy"
  /\ Arrived(t, q, {2, 3, 6}) \/ Outdated(t, q)
  /\ msgs' = Received(q, t)
  /\ UNCHANGED <<state, known, delegated, copies, counters>>

-----------------------------------------------------------------------------
(* The delegated requests, in SCH_check_messages of a busy team and in      *)
(* check_messages_delegations of one that has become idle                   *)

\* delegate_message 3: the copy is being made
DelegatedStarts(t) == \E d \in delegated[t] :
  /\ pc[t] \in {"busy", "drain"} /\ ~ d.ok
  /\ msgs' = Send(msgs, t, d.q, Accepted(t))
  /\ delegated' = [delegated EXCEPT ![t] = (@ \ {d}) \cup {[d EXCEPT !.ok = TRUE]}]
  /\ UNCHANGED <<state, known, copies, counters>>

\* Mutant: mpi_msg_ok_sent is not looked at.
DelegatedDone_OkAgain(t) == \E d \in delegated[t] :
  /\ pc[t] \in {"busy", "drain"}
  /\ msgs' = Send(msgs, t, d.q, Accepted(t))
  /\ work' = Send(work, t, d.q, Work(time_stamp[t], mpi_load[t], mpi_load_time[t]))
  /\ Know(t, [mpi_load[t] EXCEPT ![d.q] = Some], [mpi_load_time[t] EXCEPT ![d.q] = d.time + 1])
  /\ given' = given \cup {Given(t, d.q, d.time)}
  /\ time_stamp' = [time_stamp EXCEPT ![t] = @ + 1]
  /\ delegated' = [delegated EXCEPT ![t] = @ \ {d}]
  /\ UNCHANGED <<pc, waiting, from, stale, counters>>

\* delegate_message 1: the copy is complete
DelegatedDone(t) == \E d \in delegated[t] :
  /\ pc[t] \in {"busy", "drain"}
  /\ msgs' = IF d.ok THEN msgs ELSE Send(msgs, t, d.q, Accepted(t))
  /\ work' = Send(work, t, d.q, Work(time_stamp[t], mpi_load[t], mpi_load_time[t]))
  /\ Know(t, [mpi_load[t] EXCEPT ![d.q] = Some], [mpi_load_time[t] EXCEPT ![d.q] = d.time + 1])
  /\ given' = given \cup {Given(t, d.q, d.time)}
  /\ time_stamp' = [time_stamp EXCEPT ![t] = @ + 1]
  /\ delegated' = [delegated EXCEPT ![t] = @ \ {d}]
  /\ UNCHANGED <<pc, waiting, from, stale, counters>>

\* delegate_message 2: the worker has too little work left
DelegatedRefused(t) == \E d \in delegated[t] :
  /\ pc[t] \in {"busy", "drain"} /\ ~ d.ok
  /\ msgs' = Send(msgs, t, d.q, Refusal(t, Some, mpi_load[t], mpi_load_time[t]))
  /\ time_stamp' = [time_stamp EXCEPT ![t] = @ + 1]
  /\ delegated' = [delegated EXCEPT ![t] = @ \ {d}]
  /\ UNCHANGED <<pc, waiting, from, known, copies, counters>>

-----------------------------------------------------------------------------
(* A team without work: mpi_team_get_work                                   *)

\* All workers of the team are idle in the root choice point.
BecomeIdle(t) ==
  /\ pc[t] = "busy"
  /\ pc' = [pc EXCEPT ![t] = IF delegated[t] = {} THEN "get" ELSE "drain"]
  /\ waiting' = [waiting EXCEPT ![t] = FALSE]
  /\ time_stamp' = [time_stamp EXCEPT ![t] = @ + 1]
  /\ UNCHANGED <<from, known, delegated, network, counters>>

\* while(GLOBAL_mpi_n_free_arenas < GLOBAL_mpi_n_arenas) is left
Drained(t) ==
  /\ pc[t] = "drain" /\ delegated[t] = {}
  /\ pc' = [pc EXCEPT ![t] = "get"]
  /\ UNCHANGED <<waiting, time_stamp, from, known, delegated, network, counters>>

\* The end of a round of the loop, with the messages in net and the arrays
\* L and T: unless it waits for an answer, worker 0 asks a team that may have
\* work, and if there is none the query is over.
Candidates(t, L) == {u \in Teams \ {t} : L[u] > Idle}

Round(t, net, L, T, wait) ==
  /\ Know(t, L, T)
  /\ \/ /\ wait
        /\ msgs' = net
        /\ UNCHANGED <<pc, waiting>>
     \/ /\ ~ wait
        /\ \E u \in Candidates(t, L) : msgs' = Send(net, t, u, Request(t, L, T))
        /\ waiting' = [waiting EXCEPT ![t] = TRUE]
        /\ UNCHANGED pc
     \/ /\ ~ wait
        /\ Candidates(t, L) = {}
        /\ msgs' = [net EXCEPT ![t] = [u \in Teams |-> IF u = t THEN @[u] ELSE Append(@[u], TheEnd(t))]]
        /\ pc' = [pc EXCEPT ![t] = "end"]
        /\ UNCHANGED waiting

\* no message has come
Ask(t) ==
  /\ pc[t] = "get" /\ ~ waiting[t]
  /\ Round(t, msgs, mpi_load[t], mpi_load_time[t], FALSE)
  /\ UNCHANGED <<time_stamp, from, stale, delegated, copies, counters>>

\* a request: this team has no work either
GetRequest(t, q) ==
  /\ pc[t] = "get" /\ Arrived(t, q, {1})
  /\ LET m == Head(msgs[q][t])
         L == [MergedLoads(t, m) EXCEPT ![q] = Idle]
         T == [MergedTimes(t, m) EXCEPT ![q] = m.time] IN
     /\ stale' = (stale \/ m.time < MergedTimes(t, m)[q] \/ GiverIdle(t, L, T))
     /\ Round(t, Send(Received(q, t), t, q, Refusal(t, Idle, L, T)), L, T, waiting[t])
  /\ UNCHANGED <<time_stamp, from, delegated, copies, counters>>

\* Mutant: waiting_for_response is not set back.
GetRefusal_Waits(t, p) ==
  /\ pc[t] = "get" /\ Arrived(t, p, {3})
  /\ LET m == Head(msgs[p][t]) IN
     /\ Stale(MergedTimes(t, m), p, m.time)
     /\ Round(t, Received(p, t), [MergedLoads(t, m) EXCEPT ![p] = m.load],
                                 [MergedTimes(t, m) EXCEPT ![p] = m.time], TRUE)
  /\ UNCHANGED <<time_stamp, from, delegated, copies, counters>>

\* a refusal: ask the next team
GetRefusal(t, p) ==
  /\ pc[t] = "get" /\ Arrived(t, p, {3})
  /\ LET m == Head(msgs[p][t]) IN
     /\ Stale(MergedTimes(t, m), p, m.time)
     /\ Round(t, Received(p, t), [MergedLoads(t, m) EXCEPT ![p] = m.load],
                                 [MergedTimes(t, m) EXCEPT ![p] = m.time], FALSE)
  /\ UNCHANGED <<time_stamp, from, delegated, copies, counters>>

GetNotice(t, q) ==
  /\ pc[t] = "get" /\ Arrived(t, q, {4})
  /\ LET m == Head(msgs[q][t]) IN
     /\ Stale(mpi_load_time[t], q, m.time)
     /\ Round(t, Received(q, t), [mpi_load[t] EXCEPT ![q] = m.load],
                                 [mpi_load_time[t] EXCEPT ![q] = m.time], waiting[t])
  /\ UNCHANGED <<time_stamp, from, delegated, copies, counters>>

GetEnd(t, q) ==
  /\ pc[t] = "get" /\ Arrived(t, q, {6})
  /\ msgs' = Received(q, t)
  /\ pc' = [pc EXCEPT ![t] = "end"]
  /\ UNCHANGED <<waiting, time_stamp, from, known, delegated, copies, counters>>

\* a message of another query
GetOutdated(t, q) ==
  /\ pc[t] = "get" /\ Outdated(t, q)
  /\ Round(t, Received(q, t), mpi_load[t], mpi_load_time[t], waiting[t])
  /\ UNCHANGED <<time_stamp, from, stale, delegated, copies, counters>>

\* p has accepted: wait for its work (MPI_Recv with tag 7 from p)
GetAccepted(t, p) ==
  /\ pc[t] = "get" /\ Arrived(t, p, {2})
  /\ msgs' = Received(p, t)
  /\ pc' = [pc EXCEPT ![t] = "recv"]
  /\ from' = [from EXCEPT ![t] = p]
  /\ UNCHANGED <<waiting, time_stamp, known, delegated, copies, counters>>

\* mpi_delegate_team_q_share_work, the notice to team 0, and back to work
Install(t) ==
  /\ pc[t] = "recv" /\ work[from[t]][t] # <<>>
  /\ LET p == from[t]
         m == Head(work[p][t]) IN
     /\ Know(t, [MergedLoads(t, m) EXCEPT ![p] = Some], [MergedTimes(t, m) EXCEPT ![p] = m.time])
     /\ work' = [work EXCEPT ![p][t] = Tail(@)]
     /\ msgs' = IF p = Team0 THEN msgs
                ELSE Send(msgs, t, Team0, Notice(t, time_stamp[t] + 1))
     /\ Stale(MergedTimes(t, m), p, m.time)
  /\ time_stamp' = [time_stamp EXCEPT ![t] = @ + 2]
  /\ pc' = [pc EXCEPT ![t] = "busy"]
  /\ UNCHANGED <<waiting, from, given, delegated, counters>>

-----------------------------------------------------------------------------
(* Between two queries: getwork_first_time                                  *)

\* Mutant: the execution counter goes on instead of going back to 0.
NextQuery_CountsOn ==
  /\ queries < Queries /\ answers + queries <= Bound
  /\ \A t \in Teams : pc[t] = "end"
  /\ execution_counter' = [t \in Teams |-> execution_counter[t] + 10]
  /\ mpi_load' = [t \in Teams |-> [u \in Teams |-> Some]]
  /\ mpi_load_time' = [t \in Teams |-> [u \in Teams |-> 0]]
  /\ \E p, q \in Teams : \E i \in 1 .. Len(msgs[p][q]) + 1 :
       msgs' = [NoMessages EXCEPT ![p][q] = SubSeq(msgs[p][q], i, Len(msgs[p][q]))]
  /\ pc' = [t \in Teams |-> IF t = Team0 THEN "busy" ELSE "get"]
  /\ waiting' = [t \in Teams |-> FALSE]
  /\ time_stamp' = [t \in Teams |-> IF t = Team0 THEN 1 ELSE 2]
  /\ queries' = queries + 1
  /\ given' = {}
  /\ UNCHANGED <<answers, from, stale, delegated, work>>

\* All teams set everything back and meet, throw away what has arrived, and
\* meet again; then team 0 runs the goal and the others wait for its root
\* choice point and look for work.  No team sees anything of another one
\* between the barriers, so that all of it is one step.  Messages may arrive
\* after it (bound: those from one team to one other team).
NextQuery ==
  /\ queries < Queries /\ answers + queries <= Bound
  /\ \A t \in Teams : pc[t] = "end"
  /\ execution_counter' = [t \in Teams |-> 10 - execution_counter[t]]
  /\ mpi_load' = [t \in Teams |-> [u \in Teams |-> Some]]
  /\ mpi_load_time' = [t \in Teams |-> [u \in Teams |-> 0]]
  /\ \E p, q \in Teams : \E i \in 1 .. Len(msgs[p][q]) + 1 :
       msgs' = [NoMessages EXCEPT ![p][q] = SubSeq(msgs[p][q], i, Len(msgs[p][q]))]
  /\ pc' = [t \in Teams |-> IF t = Team0 THEN "busy" ELSE "get"]
  /\ waiting' = [t \in Teams |-> FALSE]
  /\ time_stamp' = [t \in Teams |-> IF t = Team0 THEN 1 ELSE 2]
  /\ queries' = queries + 1
  /\ given' = {}
  /\ UNCHANGED <<answers, from, stale, delegated, work>>

-----------------------------------------------------------------------------
Init ==
  /\ execution_counter = [t \in Teams |-> 10]
  /\ queries = 1
  /\ pc = [t \in Teams |-> IF t = Team0 THEN "busy" ELSE "get"]
  /\ waiting = [t \in Teams |-> FALSE]
  /\ mpi_load = [t \in Teams |-> [u \in Teams |-> Some]]
  /\ mpi_load_time = [t \in Teams |-> [u \in Teams |-> 0]]
  /\ time_stamp = [t \in Teams |-> IF t = Team0 THEN 1 ELSE 2]
  /\ from = [t \in Teams |-> t]
  /\ delegated = [t \in Teams |-> {}]
  /\ msgs = NoMessages
  /\ work = NoMessages
  /\ answers = 0
  /\ given = {}
  /\ stale = FALSE

CheckMessages(t) == \E q \in Teams :
  \/ Reject(t, q)
  \/ GiveWork(t, q)
  \/ Delegate(t, q)
  \/ LearnNotice(t, q)
  \/ DropMessage(t, q)

CheckDelegations(t) ==
  \/ DelegatedStarts(t)
  \/ DelegatedDone(t)
  \/ DelegatedRefused(t)

GetWork(t) ==
  \/ Drained(t)
  \/ Ask(t)
  \/ \E q \in Teams : \/ GetRequest(t, q)
                      \/ GetRefusal(t, q)
                      \/ GetNotice(t, q)
                      \/ GetOutdated(t, q)
                      \/ GetEnd(t, q)
                      \/ GetAccepted(t, q)
  \/ Install(t)

Next ==
  \/ \E t \in Teams : \/ CheckMessages(t)
                      \/ CheckDelegations(t)
                      \/ BecomeIdle(t)
                      \/ GetWork(t)
  \/ NextQuery

Spec == Init /\ [][Next]_vars

FairSpec == /\ Spec
            /\ \A t \in Teams : /\ WF_vars(CheckDelegations(t))
                                /\ WF_vars(BecomeIdle(t))
                                /\ WF_vars(GetWork(t))
            /\ WF_vars(NextQuery)

-----------------------------------------------------------------------------
TypeOK ==
  /\ execution_counter \in [Teams -> {0, 10}]
  /\ pc \in [Teams -> {"busy", "drain", "get", "recv", "end"}]
  /\ waiting \in [Teams -> BOOLEAN]
  /\ mpi_load \in [Teams -> [Teams -> {Idle, Some}]]
  /\ mpi_load_time \in [Teams -> [Teams -> Nat]]
  /\ time_stamp \in [Teams -> Nat]
  /\ from \in [Teams -> Teams]
  /\ \A t \in Teams : \A d \in delegated[t] : d.q \in Teams \ {t} /\ d.time \in Nat /\ d.ok \in BOOLEAN
  /\ \A p, q \in Teams : \A i \in DOMAIN msgs[p][q] : msgs[p][q][i].code \in {1, 2, 3, 4, 6}
  /\ answers \in 0 .. Bound /\ queries \in 1 .. Queries

\* The messages on the way from p to q in the query that t is in.
OnTheWay(t, p, q, codes) ==
  {<<p, q, i>> : i \in {j \in DOMAIN msgs[p][q] : /\ msgs[p][q][j].counter = execution_counter[t]
                                                 /\ msgs[p][q][j].code \in codes}}

\* The requests of t that have not been read, are delegated, or whose answer
\* has not been read.
Unanswered(t) == UNION {   OnTheWay(t, t, p, {1})
                     \cup {<<p, d>> : d \in {e \in delegated[p] : e.q = t /\ ~ e.ok}}
                     \cup OnTheWay(t, p, t, {2, 3}) : p \in Teams}

\* The work that t has been promised and has not received.
Promised(t) == UNION {   {<<p, d>> : d \in {e \in delegated[p] : e.q = t /\ e.ok}}
                    \cup {<<p, t, i>> : i \in DOMAIN work[p][t]} : p \in Teams}

(***************************************************************************)
(* Each request is answered exactly once, and with work if it is accepted, *)
(* until the query is over: a team that waits for an answer has one        *)
(* request under way, a team that waits for work from p gets one copy, and *)
(* a team that is busy has neither.  Worker 0 takes the first answer as    *)
(* the one to its last request, and the first message with tag 7 as the    *)
(* work that it has been promised.                                         *)
(***************************************************************************)
OneAnswer == stale \/ \A t \in Teams :
  /\ pc[t] = "get" => Cardinality(Unanswered(t)) = (IF waiting[t] THEN 1 ELSE 0)
  /\ pc[t] = "recv" => Unanswered(t) = {} /\ Cardinality(Promised(t)) = 1
  /\ pc[t] \in {"busy", "drain"} => Unanswered(t) \cup Promised(t) = {}

\* Nobody has work, waits for it or is about to get it.
Quiet ==
  /\ \A t \in Teams : pc[t] \notin {"busy", "recv"} /\ delegated[t] = {}
  /\ \A p, q \in Teams : work[p][q] = <<>> /\ OnTheWay(q, p, q, {2}) = {}

\* "Only when all workers are idle and in the root choicepoint it is safe to
\* finish execution" (or.scheduler.c:227): a team leaves mpi_team_get_work
\* only when no team has work.
EndsOnlyWhenQuiet == (\E t \in Teams : pc[t] = "end") => Quiet

\* It is so unless a team has replaced what it knew by something older.
EndsQuietUnlessStale == stale \/ EndsOnlyWhenQuiet

\* Every team comes to the end of the last query, and so of each.
QueryEnds == []<>((\A t \in Teams : pc[t] = "end") \/ stale)
=============================================================================
