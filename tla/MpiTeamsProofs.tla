--------------------------- MODULE MpiTeamsProofs ---------------------------
(***************************************************************************)
(* Proofs about teams that ask one another for work, for any number of     *)
(* them:                                                                   *)
(*                                                                         *)
(*   - the types of the variables (TypeOK);                                *)
(*   - every request is answered once, and with work if it is accepted     *)
(*     (OneAnswer);                                                        *)
(*   - a team leaves mpi_team_get_work only when no team has work          *)
(*     (EndsQuietUnlessStale).                                             *)
(*                                                                         *)
(* The last two hold together or not at all: what is left over of a query  *)
(* that ends too early goes wrong in the next one. They are about one      *)
(* query and the one after it, since an execution counter tells messages   *)
(* of two successive queries apart and no more.                            *)
(*                                                                         *)
(* The invariant has two parts. The first follows the request of a team    *)
(* from the channel to a delegation area and back (Protocol). The second   *)
(* says what a team that knows others to be idle knows for sure: the entry *)
(* of a team is then from a time when it was idle, and if that team had    *)
(* given work by then, the receiver's entry is from after that (Knows). So *)
(* the entries of a team that knows all others to be idle are a cut that   *)
(* no gift of work crosses, and behind such a cut nothing happens (Cuts).  *)
(***************************************************************************)
EXTENDS MpiTeams, FiniteSetTheorems, TLAPS

(***************************************************************************)
(* Types.                                                                  *)
(***************************************************************************)
Counters == {0, 10}
Loads == [Teams -> {Idle, Some}]
Times == [Teams -> Nat]

Messages ==
       [counter : Counters, code : {2, 6}]
  \cup [counter : Counters, code : {1}, time : Nat, loads : Loads, times : Times]
  \cup [counter : Counters, code : {3}, time : Nat, load : {Idle, Some}, loads : Loads, times : Times]
  \cup [counter : Counters, code : {4}, time : Nat, load : {Some}]

Copies == [time : Nat, loads : Loads, times : Times]
Nets(M) == [Teams -> [Teams -> Seq(M)]]
Delegations == [q : Teams, time : Nat, ok : BOOLEAN]
Gifts == [from : Teams, at : Nat, to : Teams, time : Nat]

Types ==
  /\ execution_counter \in [Teams -> Counters]
  /\ pc \in [Teams -> {"busy", "drain", "get", "recv", "end"}]
  /\ waiting \in [Teams -> BOOLEAN]
  /\ mpi_load \in [Teams -> Loads]
  /\ mpi_load_time \in [Teams -> Times]
  /\ time_stamp \in [Teams -> Nat]
  /\ from \in [Teams -> Teams]
  /\ delegated \in [Teams -> SUBSET Delegations]
  /\ \A t \in Teams : \A d \in delegated[t] : d.q # t
  /\ msgs \in Nets(Messages)
  /\ work \in Nets(Copies)
  /\ answers \in 0 .. Bound /\ queries \in 1 .. Queries
  /\ given \in SUBSET Gifts
  /\ stale \in BOOLEAN

\* The messages of a channel. Only team 0 sends one to itself, a notice.
In(s) == {s[i] : i \in DOMAIN s}

SelfNotices == \A t \in Teams : \A m \in In(msgs[t][t]) : m.code = 4

\* The first query counts 10, and the second one 0.
CounterInv ==
  /\ \A t \in Teams : execution_counter[t] = IF queries = 1 THEN 10 ELSE 0
  /\ queries = 1 => \A p, q \in Teams : \A m \in In(msgs[p][q]) : m.counter = 10

(***************************************************************************)
(* The way of a request.                                                   *)
(***************************************************************************)

\* How many messages with counter c and this code are in s, if 2 is many.
Num(s, c, code) ==
  LET P == {i \in DOMAIN s : s[i].counter = c /\ s[i].code = code} IN
  IF P = {} THEN 0 ELSE IF \E i \in P : P = {i} THEN 1 ELSE 2

\* The requests of t in the delegation areas D of a team.
Of(D, t) == {d \in D : d.q = t}

\* Between t and p, with messages A from t to p, messages R from p to t,
\* delegation areas D and copies W from p to t: there is nothing for t ...
Nothing(c, t, A, R, D, W) ==
  Num(A, c, 1) = 0 /\ Num(R, c, 2) = 0 /\ Num(R, c, 3) = 0 /\ Of(D, t) = {} /\ W = <<>>

\* ... or work is to come ...
Coming(t, D, W) ==
  \/ (\E d \in Of(D, t) : Of(D, t) = {d} /\ d.ok) /\ W = <<>>
  \/ Of(D, t) = {} /\ Len(W) = 1

\* ... after an answer that has been read ...
Accepts(c, t, A, R, D, W) ==
  Num(A, c, 1) = 0 /\ Num(R, c, 2) = 0 /\ Num(R, c, 3) = 0 /\ Coming(t, D, W)

\* ... or t's request is under way: as a message, delegated, refused, accepted.
UnderWay(c, t, A, R, D, W) ==
  \/ Num(A, c, 1) = 1 /\ Num(R, c, 2) = 0 /\ Num(R, c, 3) = 0 /\ Of(D, t) = {} /\ W = <<>>
  \/ /\ Num(A, c, 1) = 0 /\ Num(R, c, 2) = 0 /\ Num(R, c, 3) = 0
     /\ (\E d \in Of(D, t) : Of(D, t) = {d} /\ ~ d.ok) /\ W = <<>>
  \/ Num(A, c, 1) = 0 /\ Num(R, c, 2) = 0 /\ Num(R, c, 3) = 1 /\ Of(D, t) = {} /\ W = <<>>
  \/ Num(A, c, 1) = 0 /\ Num(R, c, 2) = 1 /\ Num(R, c, 3) = 0 /\ Coming(t, D, W)

\* The same of two teams in a state with network net, areas dels, copies w.
None(c, t, p, net, dels, w) == Nothing(c, t, net[t][p], net[p][t], dels[p], w[p][t])
Asked(c, t, p, net, dels, w) == UnderWay(c, t, net[t][p], net[p][t], dels[p], w[p][t])
Promises(c, t, p, net, dels, w) == Accepts(c, t, net[t][p], net[p][t], dels[p], w[p][t])

\* What there is for team t, which is at loc.
Protocol(c, t, loc, wait, src, net, dels, w) ==
  /\ loc \in {"busy", "drain"} \/ (loc = "get" /\ ~ wait) =>
       \A p \in Teams : None(c, t, p, net, dels, w)
  /\ loc = "get" /\ wait =>
       \E p \in Teams \ {t} : /\ Asked(c, t, p, net, dels, w)
                              /\ \A u \in Teams \ {p} : None(c, t, u, net, dels, w)
  /\ loc = "recv" => /\ src # t /\ Promises(c, t, src, net, dels, w)
                     /\ \A u \in Teams \ {src} : None(c, t, u, net, dels, w)
  /\ loc = "end" => \A p \in Teams : /\ Num(net[p][t], c, 2) = 0 /\ Of(dels[p], t) = {}
                                     /\ w[p][t] = <<>>
  /\ loc = "drain" => ~ wait
  /\ loc \notin {"busy", "drain"} => dels[t] = {}

ProtocolInv ==
  \A t \in Teams : Protocol(execution_counter[t], t, pc[t], waiting[t], from[t], msgs, delegated, work)

(***************************************************************************)
(* Time. A gift of work goes to a team that is idle, at the time of its    *)
(* request; until it arrives, that time is the team's own. What is said    *)
(* of time is said of a moment s: where the teams are, what their time is, *)
(* and what has been given so far.                                         *)
(***************************************************************************)
Places == {"busy", "drain", "get", "recv", "end"}
Moments == [loc : [Teams -> Places], time : Times, given : SUBSET Gifts]

Now == [loc |-> pc, time |-> time_stamp, given |-> given]

Ended(s) == \E t \in Teams : s.loc[t] = "end"

\* Team u is idle at its time n, or was and has then been given work.
IdleAt(s, u, n) == \/ s.loc[u] \in {"get", "recv"} /\ n = s.time[u]
                   \/ \E g \in s.given : g.to = u /\ g.time = n

\* Team u is about to be given work, and time n is up to what that makes known.
InTime(s, u, n) ==
  \/ n <= s.time[u]
  \/ n = s.time[u] + 1 /\ \E g \in s.given : g.to = u /\ g.time = s.time[u]

\* The times of gifts; one at the receiver's own time is under way.
GiftTimes(s) == \A g \in s.given : /\ g.from # g.to /\ g.at < s.time[g.from]
                                   /\ g.time <= s.time[g.to]

GivenInv ==
  /\ GiftTimes(Now)
  /\ \A g \in given : g.time = time_stamp[g.to] => work[g.from][g.to] # <<>>
  /\ \A p, t \in Teams : work[p][t] # <<>> =>
       \E g \in given : g.from = p /\ g.to = t /\ g.time = time_stamp[t]

\* A cut: the teams of S at a time when they were idle. What a team outside S
\* gives, or one of S before the cut, it gives behind the cut.
IsCut(s, S, T) ==
  /\ \A u \in S : IdleAt(s, u, T[u])
  /\ \A g \in s.given : g.to \in S /\ (g.from \in S => g.at < T[g.from]) => g.time < T[g.to]

\* Nothing is given to the teams of a cut after it.
Cuts(s) == \A S \in SUBSET Teams : \A T \in Times :
             IsCut(s, S, T) => \A g \in s.given : g.to \in S => g.time < T[g.to]

(***************************************************************************)
(* Knowledge.                                                              *)
(***************************************************************************)
AllInTime(s, T) == \A u \in Teams : InTime(s, u, T[u])

\* What team t knows of others is right, if its arrays are L and T.
Knows(s, t, L, T) ==
  \A u \in Teams \ {t} : L[u] = Idle =>
    /\ IdleAt(s, u, T[u])
    /\ \A g \in s.given : g.from = u /\ g.at < T[u] /\ g.to # t => g.time < T[g.to]

\* t knows whom it has given work up to its time n, but for team x.
KnowsOwn(s, t, n, x, T) ==
  \A g \in s.given : g.from = t /\ g.at < n /\ g.to # x => g.time < T[g.to]

Knowing(s, t, L, T) == AllInTime(s, T) /\ Knows(s, t, L, T) /\ KnowsOwn(s, t, s.time[t], t, T)

\* What t tells x with arrays L and T at its time n is right.
Tells(s, t, x, L, T, n) ==
  /\ n <= s.time[t] /\ AllInTime(s, T)
  /\ \A u \in Teams \ {t, x} : L[u] = Idle =>
       /\ IdleAt(s, u, T[u])
       /\ \A g \in s.given : g.from = u /\ g.at < T[u] /\ g.to # x =>
            g.time < (IF g.to = t THEN n ELSE T[g.to])

TellsIdle(s, t, x, T, n) == IdleAt(s, t, n) /\ KnowsOwn(s, t, n, x, T)

\* A message of this query from t to x is right: it tells what t knows, and the
\* end of the query when it is over for t.
TellsRight(s, t, x, m) ==
  /\ m.code = 1 => /\ Tells(s, t, x, m.loads, m.times, m.time)
                   /\ TellsIdle(s, t, x, m.times, m.time) /\ m.time = s.time[t]
  /\ m.code = 3 => /\ Tells(s, t, x, m.loads, m.times, m.time)
                   /\ m.load = Idle => TellsIdle(s, t, x, m.times, m.time)
  /\ m.code = 4 => m.time <= s.time[t]

Right(s, t, x, m) == /\ m.code = 6 => s.loc[t] = "end"
                     /\ Ended(s) \/ TellsRight(s, t, x, m)

RightNet(c, s, net) ==
  \A p, q \in Teams : \A m \in In(net[p][q]) : m.counter = c => Right(s, p, q, m)

KnowledgeInv ==
  /\ \A t \in Teams : Knowing(Now, t, mpi_load[t], mpi_load_time[t])
  /\ \A p, q \in Teams : \A m \in In(work[p][q]) : Tells(Now, p, q, m.loads, m.times, m.time)
  /\ \A p \in Teams : \A d \in delegated[p] : d.time = time_stamp[d.q]

SomeEnded == \E t \in Teams : pc[t] = "end"

\* What holds as long as no team has learnt something stale.
Fresh ==
  /\ ProtocolInv
  /\ RightNet(execution_counter[Team0], Now, msgs)
  /\ SomeEnded => Quiet
  /\ SomeEnded \/ (GivenInv /\ Cuts(Now) /\ KnowledgeInv)

Inv == Types /\ SelfNotices /\ CounterInv /\ (stale \/ Fresh)

-----------------------------------------------------------------------------
(***************************************************************************)
(* Messages and channels.                                                  *)
(***************************************************************************)
LEMMA MessageFacts ==
  ASSUME NEW m \in Messages
  PROVE  /\ m.counter \in Counters /\ m.code \in {1, 2, 3, 4, 6}
         /\ m.code = 1 => m.time \in Nat /\ m.loads \in Loads /\ m.times \in Times
         /\ m.code = 3 => m.time \in Nat /\ m.load \in {Idle, Some} /\ m.loads \in Loads
                          /\ m.times \in Times
         /\ m.code = 4 => m.time \in Nat /\ m.load = Some
<1>1. CASE m \in [counter : Counters, code : {2, 6}]  BY <1>1
<1>2. CASE m \in [counter : Counters, code : {1}, time : Nat, loads : Loads, times : Times]
      BY <1>2
<1>3. CASE m \in [counter : Counters, code : {3}, time : Nat, load : {Idle, Some},
                  loads : Loads, times : Times]
      BY <1>3
<1>4. CASE m \in [counter : Counters, code : {4}, time : Nat, load : {Some}]
      BY <1>4
<1> QED BY <1>1, <1>2, <1>3, <1>4 DEF Messages

LEMMA NewMessages ==
  ASSUME NEW t \in Teams, execution_counter[t] \in Counters, time_stamp[t] \in Nat,
         NEW L \in Loads, NEW T \in Times
  PROVE  /\ Accepted(t) \in Messages /\ TheEnd(t) \in Messages /\ Request(t, L, T) \in Messages
         /\ \A load \in {Idle, Some} : Refusal(t, load, L, T) \in Messages
         /\ \A n \in Nat : Notice(t, n) \in Messages
<1>1. Accepted(t) \in Messages /\ TheEnd(t) \in Messages
      BY DEF Accepted, TheEnd, Message, Messages
<1>2. Request(t, L, T) \in Messages  BY DEF Request, Messages
<1>3. \A load \in {Idle, Some} : Refusal(t, load, L, T) \in Messages
      BY DEF Refusal, Messages
<1>4. \A n \in Nat : Notice(t, n) \in Messages  BY DEF Notice, Messages
<1> QED BY <1>1, <1>2, <1>3, <1>4

\* The head is in a channel, a tail has no other messages, one is appended.
LEMMA InFacts ==
  ASSUME NEW M, NEW s \in Seq(M)
  PROVE  /\ s # <<>> => /\ Head(s) \in In(s) /\ Head(s) \in M /\ Tail(s) \in Seq(M)
                        /\ \A x \in In(Tail(s)) : x \in In(s)
         /\ \A m \in M : /\ Append(s, m) \in Seq(M) /\ Append(s, m) # <<>>
                         /\ \A x \in In(Append(s, m)) : x \in In(s) \/ x = m
         /\ \A x \in In(s) : x \in M
         /\ \A i, j \in Nat \ {0} : j <= Len(s) => /\ SubSeq(s, i, j) \in Seq(M)
                                       /\ \A x \in In(SubSeq(s, i, j)) : x \in In(s)
<1>1. ASSUME s # <<>>
      PROVE  /\ Head(s) \in In(s) /\ Head(s) \in M /\ Tail(s) \in Seq(M)
             /\ \A x \in In(Tail(s)) : x \in In(s)
  <2>1. Len(s) > 0 /\ Tail(s) \in Seq(M) /\ Len(Tail(s)) = Len(s) - 1
        /\ \A i \in 1 .. Len(s) - 1 : Tail(s)[i] = s[i + 1]
        BY <1>1
  <2>2. Head(s) = s[1] /\ 1 \in DOMAIN s /\ s[1] \in M  BY <1>1
  <2>3. ASSUME NEW i \in DOMAIN Tail(s) PROVE Tail(s)[i] \in In(s)
    <3>1. i \in 1 .. Len(s) - 1  BY <2>1
    <3>2. i + 1 \in DOMAIN s  BY <3>1
    <3> QED BY <2>1, <3>1, <3>2 DEF In
  <2> QED BY <2>1, <2>2, <2>3 DEF In
<1>2. ASSUME NEW m \in M
      PROVE  /\ Append(s, m) \in Seq(M) /\ Append(s, m) # <<>>
             /\ \A x \in In(Append(s, m)) : x \in In(s) \/ x = m
  <2>1. /\ Append(s, m) \in Seq(M) /\ Len(Append(s, m)) = Len(s) + 1 /\ Len(s) \in Nat
        /\ \A i \in 1 .. Len(s) : Append(s, m)[i] = s[i]
        /\ Append(s, m)[Len(s) + 1] = m
        OBVIOUS
  <2>2. Append(s, m) # <<>>  BY <2>1
  <2>3. ASSUME NEW i \in DOMAIN Append(s, m) PROVE Append(s, m)[i] \in In(s) \cup {m}
    <3>1. i \in 1 .. Len(s) + 1  BY <2>1
    <3>2. CASE i = Len(s) + 1  BY <2>1, <3>2
    <3>3. CASE i \in 1 .. Len(s)
      <4>1. i \in DOMAIN s  BY <3>3
      <4> QED BY <2>1, <3>3, <4>1 DEF In
    <3> QED BY <2>1, <3>1, <3>2, <3>3
  <2> QED BY <2>1, <2>2, <2>3 DEF In
<1>3. \A x \in In(s) : x \in M  BY DEF In
<1>4. ASSUME NEW i \in Nat \ {0}, NEW j \in Nat \ {0}, j <= Len(s)
      PROVE  SubSeq(s, i, j) \in Seq(M) /\ \A x \in In(SubSeq(s, i, j)) : x \in In(s)
  <2> DEFINE r == SubSeq(s, i, j)
             n == IF i <= j THEN j - i + 1 ELSE 0
  <2>1. Len(s) \in Nat /\ DOMAIN s = 1 .. Len(s)  OBVIOUS
  <2>2. \A k \in i .. j : k \in DOMAIN s  BY <1>4, <2>1
  <2>3. r = [k \in 1 .. n |-> s[i + k - 1]]  BY <1>4, <2>1
  <2>4. n \in Nat /\ \A k \in 1 .. n : i + k - 1 \in i .. j  OBVIOUS
  <2>5. \A k \in 1 .. n : r[k] = s[i + k - 1] /\ s[i + k - 1] \in M /\ s[i + k - 1] \in In(s)
    <3>1. \A k \in DOMAIN s : s[k] \in M /\ s[k] \in In(s)  BY DEF In
    <3> QED BY <2>2, <2>3, <2>4, <3>1
  <2>6. r \in [1 .. n -> M] /\ DOMAIN r = 1 .. n
    <3> HIDE DEF n
    <3> QED BY <2>3, <2>5
  <2> HIDE DEF r, n
  <2>7. r \in Seq(M)
    <3>1. Seq(M) = UNION {[1 .. k -> M] : k \in Nat}  OBVIOUS
    <3> QED BY <2>4, <2>6, <3>1
  <2>8. \A x \in In(r) : x \in In(s)
    <3>1. \A x \in In(r) : \E k \in 1 .. n : x = r[k]  BY <2>6 DEF In
    <3> QED BY <2>5, <3>1
  <2> QED BY <2>7, <2>8 DEF r
<1> QED BY <1>1, <1>2, <1>3, <1>4

LEMMA NoLength ==
  ASSUME NEW M, NEW s \in Seq(M), Len(s) = 0
  PROVE  s = <<>>
OBVIOUS

LEMMA TailOfOne ==
  ASSUME NEW s \in Seq(Copies), Len(s) = 1
  PROVE  Tail(s) = <<>>
<1> DEFINE r == Tail(s)
<1>1. r \in Seq(Copies) /\ Len(r) = 0  OBVIOUS
<1> HIDE DEF r
<1>2. r = <<>>  BY <1>1, NoLength
<1> QED BY <1>2 DEF r

LEMMA NumAppend ==
  ASSUME NEW s \in Seq(Messages), NEW m \in Messages, NEW c, NEW k
  PROVE  /\ Num(s, c, k) \in 0 .. 2
         /\ ~ (m.counter = c /\ m.code = k) => Num(Append(s, m), c, k) = Num(s, c, k)
         /\ m.counter = c /\ m.code = k /\ Num(s, c, k) = 0 => Num(Append(s, m), c, k) = 1
<1> DEFINE P(r) == {i \in DOMAIN r : r[i].counter = c /\ r[i].code = k}
           r == Append(s, m)
           n == Len(s) + 1
<1>1. /\ n \in Nat /\ DOMAIN s = 1 .. n - 1 /\ DOMAIN r = 1 .. n
      /\ \A i \in 1 .. n - 1 : r[i] = s[i]
      /\ r[n] = m
      OBVIOUS
<1> HIDE DEF r, n
<1>2. ~ (m.counter = c /\ m.code = k) => P(r) = P(s)  BY <1>1
<1>3. ASSUME m.counter = c, m.code = k, P(s) = {} PROVE P(r) = {n}
  <2>1. \A i \in 1 .. n - 1 : ~ (r[i].counter = c /\ r[i].code = k)
        BY <1>1, <1>3
  <2>2. \A i \in 1 .. n : i \in 1 .. n - 1 \/ i = n  BY <1>1
  <2>3. n \in 1 .. n
    <3>1. n > 0  BY DEF n
    <3> QED BY <1>1, <3>1
  <2> QED BY <1>1, <1>3, <2>1, <2>2, <2>3
<1> HIDE DEF P
<1>4. /\ Num(s, c, k) = IF P(s) = {} THEN 0 ELSE IF \E i \in P(s) : P(s) = {i} THEN 1 ELSE 2
      /\ Num(r, c, k) = IF P(r) = {} THEN 0 ELSE IF \E i \in P(r) : P(r) = {i} THEN 1 ELSE 2
      BY DEF Num, P
<1> QED BY <1>2, <1>3, <1>4 DEF r

LEMMA NumTail ==
  ASSUME NEW s \in Seq(Messages), s # <<>>, NEW c, NEW k
  PROVE  /\ ~ (Head(s).counter = c /\ Head(s).code = k) => Num(Tail(s), c, k) = Num(s, c, k)
         /\ Head(s).counter = c /\ Head(s).code = k =>
              Num(s, c, k) # 0 /\ (Num(s, c, k) = 1 => Num(Tail(s), c, k) = 0)
<1> DEFINE P(r) == {i \in DOMAIN r : r[i].counter = c /\ r[i].code = k}
           r == Tail(s)
           n == Len(s)
<1>1. /\ n \in Nat /\ n > 0 /\ DOMAIN s = 1 .. n /\ DOMAIN r = 1 .. n - 1
      /\ \A i \in 1 .. n - 1 : r[i] = s[i + 1]
      /\ Head(s) = s[1]
      OBVIOUS
<1> HIDE DEF r, n
<1>2. \A i \in Int : i \in P(r) <=> i + 1 \in P(s) /\ i # 0  BY <1>1
<1>3. (1 \in P(s)) <=> (Head(s).counter = c /\ Head(s).code = k)  BY <1>1
<1>4. P(s) \subseteq Int /\ P(r) \subseteq Int /\ 0 \notin P(s)  BY <1>1
<1> HIDE DEF P
<1>5. ASSUME 1 \notin P(s)
      PROVE  /\ P(s) = {} <=> P(r) = {}
             /\ (\E i \in P(s) : P(s) = {i}) <=> \E i \in P(r) : P(r) = {i}
  <2>1. \A i \in P(s) : i - 1 \in P(r)  BY <1>2, <1>4, <1>5
  <2>2. \A i \in P(r) : i + 1 \in P(s)  BY <1>2, <1>4
  <2>3. ASSUME NEW i \in P(s), P(s) = {i} PROVE P(r) = {i - 1}
        BY <1>4, <2>1, <2>2, <2>3
  <2>4. ASSUME NEW i \in P(r), P(r) = {i} PROVE P(s) = {i + 1}
        BY <1>4, <2>1, <2>2, <2>4
  <2> QED BY <2>1, <2>2, <2>3, <2>4
<1>6. ASSUME 1 \in P(s), NEW i \in P(s), P(s) = {i} PROVE P(r) = {}
      BY <1>2, <1>4, <1>6
<1>7. /\ Num(s, c, k) = IF P(s) = {} THEN 0 ELSE IF \E i \in P(s) : P(s) = {i} THEN 1 ELSE 2
      /\ Num(r, c, k) = IF P(r) = {} THEN 0 ELSE IF \E i \in P(r) : P(r) = {i} THEN 1 ELSE 2
      BY DEF Num, P
<1>8. ASSUME 1 \in P(s) PROVE Num(s, c, k) # 0 /\ (Num(s, c, k) = 1 => Num(r, c, k) = 0)
      BY <1>6, <1>7, <1>8
<1>9. ASSUME 1 \notin P(s) PROVE Num(r, c, k) = Num(s, c, k)  BY <1>5, <1>7, <1>9
<1> QED BY <1>3, <1>8, <1>9 DEF r

\* None of this kind is in a channel without such messages.
LEMMA NumZero ==
  ASSUME NEW s \in Seq(Messages), NEW c, NEW k
  PROVE  Num(s, c, k) = 0 <=> \A m \in In(s) : ~ (m.counter = c /\ m.code = k)
BY DEF Num, In

LEMMA SendPlaces ==
  ASSUME NEW M, NEW net \in Nets(M), NEW p \in Teams, NEW q \in Teams, NEW m
  PROVE  /\ Send(net, p, q, m)[p][q] = Append(net[p][q], m)
         /\ \A a, b \in Teams : a # p \/ b # q => Send(net, p, q, m)[a][b] = net[a][b]
BY DEF Send, Nets

LEMMA SendFacts ==
  ASSUME NEW M, NEW net \in Nets(M), NEW p \in Teams, NEW q \in Teams, NEW m \in M
  PROVE  /\ Send(net, p, q, m) \in Nets(M)
         /\ Send(net, p, q, m)[p][q] = Append(net[p][q], m) /\ Send(net, p, q, m)[p][q] # <<>>
         /\ \A a, b \in Teams : a # p \/ b # q => Send(net, p, q, m)[a][b] = net[a][b]
         /\ \A a, b \in Teams : \A x \in In(Send(net, p, q, m)[a][b]) :
              x \in In(net[a][b]) \/ (a = p /\ b = q /\ x = m)
<1> DEFINE new == Send(net, p, q, m)
<1>1. net[p] \in [Teams -> Seq(M)] /\ net[p][q] \in Seq(M)  BY DEF Nets
<1>2. Append(net[p][q], m) \in Seq(M) /\ Append(net[p][q], m) # <<>>
      /\ \A x \in In(Append(net[p][q], m)) : x \in In(net[p][q]) \/ x = m
      BY <1>1, InFacts
<1>3. new = [net EXCEPT ![p] = [net[p] EXCEPT ![q] = Append(net[p][q], m)]]
      BY DEF Send, Nets
<1> HIDE DEF new
<1>4. /\ new[p][q] = Append(net[p][q], m)
      /\ \A a, b \in Teams : a # p \/ b # q => new[a][b] = net[a][b]
      BY <1>1, <1>3 DEF Nets
<1>5. [net[p] EXCEPT ![q] = Append(net[p][q], m)] \in [Teams -> Seq(M)]
      BY <1>1, <1>2
<1>6. new \in Nets(M)  BY <1>3, <1>5 DEF Nets
<1> QED BY <1>2, <1>4, <1>6 DEF new

LEMMA SentType ==
  ASSUME NEW net \in Nets(Messages), NEW p \in Teams, NEW q \in Teams, NEW m \in Messages
  PROVE  Send(net, p, q, m) \in Nets(Messages)
<1> DEFINE M == Messages
<1>1. net \in Nets(M) /\ m \in M  OBVIOUS
<1> HIDE DEF M
<1>2. Send(net, p, q, m) \in Nets(M)  BY <1>1, SendFacts
<1> QED BY <1>2 DEF M

LEMMA SentAt ==
  ASSUME NEW net \in Nets(Messages), NEW p \in Teams, NEW q \in Teams, NEW m \in Messages
  PROVE  /\ Send(net, p, q, m)[p][q] = Append(net[p][q], m)
         /\ \A a, b \in Teams : a # p \/ b # q => Send(net, p, q, m)[a][b] = net[a][b]
<1> DEFINE M == Messages
<1>1. net \in Nets(M)  OBVIOUS
<1> HIDE DEF M
<1>2. Send(net, p, q, m)[p][q] = Append(net[p][q], m)
      BY <1>1, SendPlaces
<1>3. \A a, b \in Teams : a # p \/ b # q => Send(net, p, q, m)[a][b] = net[a][b]
      BY <1>1, SendPlaces
<1> QED BY <1>2, <1>3

LEMMA SentIn ==
  ASSUME NEW net \in Nets(Messages), NEW p \in Teams, NEW q \in Teams, NEW m \in Messages
  PROVE  \A a, b \in Teams : \A x \in In(Send(net, p, q, m)[a][b]) :
           x \in In(net[a][b]) \/ (a = p /\ b = q /\ x = m)
<1>1. ASSUME NEW a \in Teams, NEW b \in Teams, NEW x \in In(Send(net, p, q, m)[a][b])
      PROVE  x \in In(net[a][b]) \/ (a = p /\ b = q /\ x = m)
  <2>1. CASE a = p /\ b = q
    <3>1. net[p][q] \in Seq(Messages)  BY DEF Nets
    <3>2. \A y \in In(Append(net[p][q], m)) : y \in In(net[p][q]) \/ y = m
          BY <3>1, InFacts
    <3>3. Send(net, p, q, m)[p][q] = Append(net[p][q], m)  BY SentAt
    <3>4. x \in In(Append(net[p][q], m))  BY <1>1, <2>1, <3>3
    <3> QED BY <2>1, <3>2, <3>4
  <2>2. CASE a # p \/ b # q  BY <1>1, <2>2, SentAt
  <2> QED BY <2>1, <2>2
<1> QED BY <1>1

LEMMA SentWork ==
  ASSUME NEW net \in Nets(Copies), NEW p \in Teams, NEW q \in Teams, NEW m \in Copies
  PROVE  \A a, b \in Teams : \A x \in In(Send(net, p, q, m)[a][b]) :
           x \in In(net[a][b]) \/ (a = p /\ b = q /\ x = m)
<1> DEFINE M == Copies
<1>2. net \in Nets(M) /\ m \in M  OBVIOUS
<1> HIDE DEF M
<1>3. Send(net, p, q, m)[p][q] = Append(net[p][q], m)
      BY <1>2, SendPlaces
<1>4. \A a, b \in Teams : a # p \/ b # q => Send(net, p, q, m)[a][b] = net[a][b]
      BY <1>2, SendPlaces
<1>1. ASSUME NEW a \in Teams, NEW b \in Teams, NEW x \in In(Send(net, p, q, m)[a][b])
      PROVE  x \in In(net[a][b]) \/ (a = p /\ b = q /\ x = m)
  <2>1. CASE a = p /\ b = q
    <3>1. net[p][q] \in Seq(Copies)  BY DEF Nets
    <3>2. \A y \in In(Append(net[p][q], m)) : y \in In(net[p][q]) \/ y = m
          BY <3>1, InFacts
    <3>4. x \in In(Append(net[p][q], m))  BY <1>1, <1>3, <2>1
    <3> QED BY <2>1, <3>2, <3>4
  <2>2. CASE a # p \/ b # q  BY <1>1, <1>4, <2>2
  <2> QED BY <2>1, <2>2
<1> QED BY <1>1

LEMMA ReceivedFacts ==
  ASSUME msgs \in Nets(Messages), NEW p \in Teams, NEW q \in Teams, msgs[p][q] # <<>>
  PROVE  LET new == Received(p, q)
             m == Head(msgs[p][q]) IN
         /\ new \in Nets(Messages) /\ m \in In(msgs[p][q]) /\ m \in Messages
         /\ new[p][q] = Tail(msgs[p][q])
         /\ \A a, b \in Teams : a # p \/ b # q => new[a][b] = msgs[a][b]
         /\ \A a, b \in Teams : \A x \in In(new[a][b]) : x \in In(msgs[a][b])
<1> DEFINE new == Received(p, q)
<1>1. msgs[p] \in [Teams -> Seq(Messages)] /\ msgs[p][q] \in Seq(Messages)  BY DEF Nets
<1>2. Tail(msgs[p][q]) \in Seq(Messages) /\ Head(msgs[p][q]) \in Messages
      /\ Head(msgs[p][q]) \in In(msgs[p][q])
      /\ \A x \in In(Tail(msgs[p][q])) : x \in In(msgs[p][q])
      BY <1>1, InFacts
<1>3. new = [msgs EXCEPT ![p] = [msgs[p] EXCEPT ![q] = Tail(msgs[p][q])]]
      BY DEF Received, Nets
<1> HIDE DEF new
<1>4. /\ new[p][q] = Tail(msgs[p][q])
      /\ \A a, b \in Teams : a # p \/ b # q => new[a][b] = msgs[a][b]
      BY <1>1, <1>3 DEF Nets
<1>5. [msgs[p] EXCEPT ![q] = Tail(msgs[p][q])] \in [Teams -> Seq(Messages)]
      BY <1>1, <1>2
<1>6. new \in Nets(Messages)  BY <1>3, <1>5 DEF Nets
<1> QED BY <1>2, <1>4, <1>6 DEF new

\* The message that ends the query, in the network net.
Ending(t, net) ==
  [net EXCEPT ![t] = [u \in Teams |-> IF u = t THEN @[u] ELSE Append(@[u], TheEnd(t))]]

LEMMA EndingFacts ==
  ASSUME NEW net \in Nets(Messages), NEW t \in Teams, TheEnd(t) \in Messages
  PROVE  LET new == Ending(t, net) IN
         /\ new \in Nets(Messages)
         /\ \A u \in Teams \ {t} : new[t][u] = Append(net[t][u], TheEnd(t))
         /\ \A a, b \in Teams : a # t \/ b = t => new[a][b] = net[a][b]
         /\ \A a, b \in Teams : \A x \in In(new[a][b]) :
              x \in In(net[a][b]) \/ (a = t /\ b # t /\ x = TheEnd(t))
<1> DEFINE row == [u \in Teams |-> IF u = t THEN net[t][u] ELSE Append(net[t][u], TheEnd(t))]
           new == Ending(t, net)
<1>1. \A u \in Teams : net[t][u] \in Seq(Messages)  BY DEF Nets
<1>2. ASSUME NEW u \in Teams
      PROVE  Append(net[t][u], TheEnd(t)) \in Seq(Messages)
             /\ \A x \in In(Append(net[t][u], TheEnd(t))) : x \in In(net[t][u]) \/ x = TheEnd(t)
      BY <1>1, InFacts
<1>3. row \in [Teams -> Seq(Messages)]  BY <1>1, <1>2
<1>4. new = [net EXCEPT ![t] = row]  BY DEF Ending, Nets
<1>5. /\ \A u \in Teams \ {t} : row[u] = Append(net[t][u], TheEnd(t))
      /\ row[t] = net[t][t]
      OBVIOUS
<1> HIDE DEF new, row
<1>6. new \in Nets(Messages)  BY <1>3, <1>4 DEF Nets
<1>7. new[t] = row /\ \A a \in Teams \ {t} : new[a] = net[a]  BY <1>4 DEF Nets
<1>8. /\ \A u \in Teams \ {t} : new[t][u] = Append(net[t][u], TheEnd(t))
      /\ \A a, b \in Teams : a # t \/ b = t => new[a][b] = net[a][b]
      BY <1>5, <1>7
<1>9. ASSUME NEW a \in Teams, NEW b \in Teams, NEW x \in In(new[a][b])
      PROVE  x \in In(net[a][b]) \/ (a = t /\ b # t /\ x = TheEnd(t))
  <2>1. CASE a # t \/ b = t  BY <1>8, <1>9, <2>1
  <2>2. CASE a = t /\ b # t
    <3>1. new[a][b] = Append(net[t][b], TheEnd(t))  BY <1>8, <2>2
    <3> QED BY <1>2, <1>9, <2>2, <3>1
  <2> QED BY <2>1, <2>2
<1> QED BY <1>6, <1>8, <1>9 DEF new

-----------------------------------------------------------------------------
(***************************************************************************)
(* Types.                                                                  *)
(***************************************************************************)
LEMMA MergedTypes ==
  ASSUME Types, NEW t \in Teams, NEW m, m.loads \in Loads, m.times \in Times
  PROVE  MergedLoads(t, m) \in Loads /\ MergedTimes(t, m) \in Times
BY DEF Types, MergedLoads, MergedTimes, Loads, Times

\* Team t sends messages: of its query, and to itself only notices.
Sends(t) ==
  \A a, b \in Teams : \A x \in In(msgs'[a][b]) :
    x \in In(msgs[a][b]) \/ (a = t /\ x.counter = execution_counter[t] /\ (x.code = 4 \/ b # t))

\* What all steps but the start of a query do.
Safe(t) == /\ Types' /\ Sends(t)
           /\ execution_counter' = execution_counter /\ queries' = queries

LEMMA RoundTypes ==
  ASSUME Types, NEW t \in Teams, NEW net \in Nets(Messages), NEW L \in Loads, NEW T \in Times,
         NEW wait \in BOOLEAN, Round(t, net, L, T, wait)
  PROVE  /\ msgs' \in Nets(Messages) /\ pc' \in [Teams -> {"busy", "drain", "get", "recv", "end"}]
         /\ waiting' \in [Teams -> BOOLEAN]
         /\ mpi_load' \in [Teams -> Loads] /\ mpi_load_time' \in [Teams -> Times]
         /\ \A a, b \in Teams : \A x \in In(msgs'[a][b]) :
              x \in In(net[a][b]) \/ (a = t /\ b # t /\ x.counter = execution_counter[t])
<1>1. /\ execution_counter[t] \in Counters /\ time_stamp[t] \in Nat
      /\ mpi_load \in [Teams -> Loads] /\ mpi_load_time \in [Teams -> Times]
      /\ pc \in [Teams -> {"busy", "drain", "get", "recv", "end"}]
      /\ waiting \in [Teams -> BOOLEAN]
      BY DEF Types
<1>2. mpi_load' \in [Teams -> Loads] /\ mpi_load_time' \in [Teams -> Times]
      BY <1>1 DEF Round, Know
<1>3. Request(t, L, T) \in Messages /\ TheEnd(t) \in Messages  BY <1>1, NewMessages
<1>4. Request(t, L, T).counter = execution_counter[t] /\ TheEnd(t).counter = execution_counter[t]
      BY DEF Request, TheEnd, Message
<1>5. CASE wait /\ msgs' = net /\ UNCHANGED <<pc, waiting>>
      BY <1>1, <1>2, <1>5
<1>6. CASE /\ ~ wait
           /\ \E u \in Candidates(t, L) : msgs' = Send(net, t, u, Request(t, L, T))
           /\ waiting' = [waiting EXCEPT ![t] = TRUE]
           /\ UNCHANGED pc
  <2>1. PICK u \in Teams \ {t} : msgs' = Send(net, t, u, Request(t, L, T))
        BY <1>6 DEF Candidates
  <2>2. /\ msgs' \in Nets(Messages)
        /\ \A a, b \in Teams : \A x \in In(msgs'[a][b]) :
             x \in In(net[a][b]) \/ (a = t /\ b = u /\ x = Request(t, L, T))
    <3> DEFINE m == Request(t, L, T)
    <3>1. m \in Messages  BY <1>3
    <3> HIDE DEF m
    <3>2. Send(net, t, u, m) \in Nets(Messages)  BY <3>1, SentType
    <3>3. \A a, b \in Teams : \A x \in In(Send(net, t, u, m)[a][b]) :
               x \in In(net[a][b]) \/ (a = t /\ b = u /\ x = m)
          BY <3>1, SentIn
    <3> QED BY <2>1, <3>2, <3>3 DEF m
  <2>3. waiting' \in [Teams -> BOOLEAN] /\ pc' = pc  BY <1>1, <1>6
  <2> QED BY <1>1, <1>2, <1>4, <2>2, <2>3
<1>7. CASE /\ ~ wait
           /\ Candidates(t, L) = {}
           /\ msgs' = Ending(t, net)
           /\ pc' = [pc EXCEPT ![t] = "end"]
           /\ UNCHANGED waiting
  <2>1. /\ msgs' \in Nets(Messages)
        /\ \A a, b \in Teams : \A x \in In(msgs'[a][b]) :
             x \in In(net[a][b]) \/ (a = t /\ b # t /\ x = TheEnd(t))
    <3>1. /\ Ending(t, net) \in Nets(Messages)
          /\ \A a, b \in Teams : \A x \in In(Ending(t, net)[a][b]) :
               x \in In(net[a][b]) \/ (a = t /\ b # t /\ x = TheEnd(t))
          BY <1>3, EndingFacts
    <3> QED BY <1>7, <3>1
  <2>2. waiting' = waiting /\ pc' \in [Teams -> {"busy", "drain", "get", "recv", "end"}]
        BY <1>1, <1>7
  <2> QED BY <1>1, <1>2, <1>4, <2>1, <2>2
<1> QED BY <1>5, <1>6, <1>7 DEF Round, Ending

\* An action that has read a message of q.
LEMMA ReadFacts ==
  ASSUME Types, SelfNotices, NEW t \in Teams, NEW q \in Teams, msgs[q][t] # <<>>
  PROVE  LET m == Head(msgs[q][t])
             net == Received(q, t) IN
         /\ net \in Nets(Messages) /\ m \in Messages /\ m \in In(msgs[q][t])
         /\ m.code # 4 => q # t
         /\ \A a, b \in Teams : \A x \in In(net[a][b]) : x \in In(msgs[a][b])
         /\ m.code \in {1, 3} =>
              /\ [MergedLoads(t, m) EXCEPT ![q] = Some] \in Loads
              /\ [MergedLoads(t, m) EXCEPT ![q] = Idle] \in Loads
              /\ [MergedTimes(t, m) EXCEPT ![q] = m.time] \in Times
              /\ [MergedTimes(t, m) EXCEPT ![q] = m.time + 1] \in Times
              /\ m.time \in Nat
<1> DEFINE m == Head(msgs[q][t])
<1>1. msgs \in Nets(Messages)  BY DEF Types
<1>2. /\ Received(q, t) \in Nets(Messages) /\ m \in Messages /\ m \in In(msgs[q][t])
      /\ \A a, b \in Teams : \A x \in In(Received(q, t)[a][b]) : x \in In(msgs[a][b])
      BY <1>1, ReceivedFacts
<1>3. m.code # 4 => q # t  BY <1>2 DEF SelfNotices
<1>4. ASSUME m.code \in {1, 3}
      PROVE  /\ [MergedLoads(t, m) EXCEPT ![q] = Some] \in Loads
             /\ [MergedLoads(t, m) EXCEPT ![q] = Idle] \in Loads
             /\ [MergedTimes(t, m) EXCEPT ![q] = m.time] \in Times
             /\ [MergedTimes(t, m) EXCEPT ![q] = m.time + 1] \in Times
             /\ m.time \in Nat
  <2>1. m.loads \in Loads /\ m.times \in Times /\ m.time \in Nat
        BY <1>2, <1>4, MessageFacts
  <2> DEFINE K == MergedLoads(t, m)
             V == MergedTimes(t, m)
             n == m.time
  <2>2. K \in Loads /\ V \in Times /\ n \in Nat  BY <2>1, MergedTypes
  <2> HIDE DEF m, K, V, n
  <2>3. [K EXCEPT ![q] = Some] \in Loads /\ [K EXCEPT ![q] = Idle] \in Loads
        BY <2>2 DEF Loads
  <2>4. [V EXCEPT ![q] = n] \in Times /\ [V EXCEPT ![q] = n + 1] \in Times
        BY <2>2 DEF Times
  <2> QED BY <2>2, <2>3, <2>4 DEF K, V, n
<1> QED BY <1>2, <1>3, <1>4


\* One message, from t.
LEMMA SentOne ==
  ASSUME Types, NEW t \in Teams, NEW u \in Teams, NEW m \in Messages,
         m.counter = execution_counter[t], m.code = 4 \/ u # t,
         NEW net \in Nets(Messages),
         \A a, b \in Teams : \A x \in In(net[a][b]) : x \in In(msgs[a][b]),
         msgs' = Send(net, t, u, m)
  PROVE  msgs' \in Nets(Messages) /\ Sends(t)
<1>1. Send(net, t, u, m) \in Nets(Messages)  BY SentType
<1>2. ASSUME NEW a \in Teams, NEW b \in Teams, NEW x \in In(msgs'[a][b])
      PROVE  x \in In(msgs[a][b]) \/ (a = t /\ x.counter = execution_counter[t] /\ (x.code = 4 \/ b # t))
  <2>1. x \in In(net[a][b]) \/ (a = t /\ b = u /\ x = m)  BY <1>2, SentIn
  <2> QED BY <2>1
<1> QED BY <1>1, <1>2 DEF Sends

\* The variables of this kind of step but for msgs.
LEMMA LearnTypes ==
  ASSUME Types, NEW t \in Teams, NEW L \in Loads, NEW T \in Times, Know(t, L, T)
  PROVE  mpi_load' \in [Teams -> Loads] /\ mpi_load_time' \in [Teams -> Times]
         /\ mpi_load'[t] = L /\ mpi_load_time'[t] = T
BY DEF Types, Know

LEMMA RejectSafe ==
  ASSUME Types, SelfNotices, NEW t \in Teams, NEW q \in Teams, Reject(t, q)
  PROVE  Safe(t)
<1> DEFINE m == Head(msgs[q][t])
           L == [MergedLoads(t, m) EXCEPT ![q] = Some]
           T == [MergedTimes(t, m) EXCEPT ![q] = m.time]
<1>1. msgs[q][t] # <<>> /\ m.code = 1  BY DEF Reject, Arrived
<1>2. /\ Received(q, t) \in Nets(Messages) /\ m \in Messages /\ q # t
      /\ L \in Loads /\ T \in Times
      /\ \A a, b \in Teams : \A x \in In(Received(q, t)[a][b]) : x \in In(msgs[a][b])
  <2>1. m.code # 4 /\ m.code \in {1, 3}  BY <1>1
  <2> QED BY <1>1, <2>1, ReadFacts, Zenon
<1>3. /\ Know(t, L, T)
      /\ msgs' = Send(Received(q, t), t, q, Refusal(t, Some, mpi_load'[t], mpi_load_time'[t]))
      BY DEF Reject, LearnRequest
<1> HIDE DEF m, L, T
<1>4. mpi_load' \in [Teams -> Loads] /\ mpi_load_time' \in [Teams -> Times]
      /\ mpi_load'[t] = L /\ mpi_load_time'[t] = T
      BY <1>2, <1>3, LearnTypes
<1>5. execution_counter[t] \in Counters /\ time_stamp[t] \in Nat  BY DEF Types
<1>6. Refusal(t, Some, L, T) \in Messages  BY <1>2, <1>5, NewMessages
<1>7. Refusal(t, Some, L, T).counter = execution_counter[t]  BY DEF Refusal
<1>8. msgs' \in Nets(Messages) /\ Sends(t)
      BY <1>2, <1>3, <1>4, <1>6, <1>7, SentOne
<1>9. answers' \in 0 .. Bound
      BY TeamsAssumption DEF Types, Reject
<1>10. time_stamp' \in [Teams -> Nat]  BY DEF Types, Reject
<1>11. UNCHANGED <<execution_counter, queries, pc, waiting, from, stale, delegated, work, given>>
      BY DEF Reject, copies
<1>12. Types'  BY <1>4, <1>8, <1>9, <1>10, <1>11 DEF Types
<1> QED BY <1>8, <1>11, <1>12 DEF Safe


\* Work given by t to u.
LEMMA GivenTypes ==
  ASSUME Types, NEW t \in Teams, NEW u \in Teams, NEW n \in Nat, NEW L \in Loads, NEW T \in Times,
         work' = Send(work, t, u, Work(time_stamp[t], L, T)),
         given' = given \cup {Given(t, u, n)}
  PROVE  work' \in Nets(Copies) /\ given' \in SUBSET Gifts
<1> DEFINE M == Copies
           m == Work(time_stamp[t], L, T)
<1>1. work \in Nets(M) /\ m \in M /\ Given(t, u, n) \in Gifts
      BY DEF Types, Work, Copies, Given, Gifts
<1>2. work' = Send(work, t, u, m)  OBVIOUS
<1> HIDE DEF M, m
<1>3. Send(work, t, u, m) \in Nets(M)  BY <1>1, SendFacts
<1>4. given' \in SUBSET Gifts  BY <1>1 DEF Types
<1> QED BY <1>2, <1>3, <1>4 DEF M

LEMMA GiveWorkSafe ==
  ASSUME Types, SelfNotices, NEW t \in Teams, NEW q \in Teams, GiveWork(t, q)
  PROVE  Safe(t)
<1> DEFINE m == Head(msgs[q][t])
           L == [MergedLoads(t, m) EXCEPT ![q] = Some]
           T == [MergedTimes(t, m) EXCEPT ![q] = m.time]
           U == [T EXCEPT ![q] = m.time + 1]
<1>1. msgs[q][t] # <<>> /\ m.code = 1  BY DEF GiveWork, Arrived
<1>2. /\ Received(q, t) \in Nets(Messages) /\ m \in Messages /\ q # t
      /\ L \in Loads /\ T \in Times /\ m.time \in Nat
      /\ \A a, b \in Teams : \A x \in In(Received(q, t)[a][b]) : x \in In(msgs[a][b])
  <2>1. m.code # 4 /\ m.code \in {1, 3}  BY <1>1
  <2> QED BY <1>1, <2>1, ReadFacts, Zenon
<1>3. /\ Know(t, L, U)
      /\ msgs' = Send(Received(q, t), t, q, Accepted(t))
      /\ work' = Send(work, t, q, Work(time_stamp[t], L, T))
      /\ given' = given \cup {Given(t, q, m.time)}
      BY DEF GiveWork
<1> HIDE DEF m, L, T
<1>4. U \in Times  BY <1>2 DEF Times
<1> HIDE DEF U
<1>5. mpi_load' \in [Teams -> Loads] /\ mpi_load_time' \in [Teams -> Times]
      BY <1>2, <1>3, <1>4, LearnTypes
<1>6. execution_counter[t] \in Counters /\ time_stamp[t] \in Nat  BY DEF Types
<1>7. Accepted(t) \in Messages  BY <1>2, <1>6, NewMessages
<1>8. Accepted(t).counter = execution_counter[t]  BY DEF Accepted, Message
<1>9. msgs' \in Nets(Messages) /\ Sends(t)
      BY <1>2, <1>3, <1>7, <1>8, SentOne
<1>10. work' \in Nets(Copies) /\ given' \in SUBSET Gifts
      BY <1>2, <1>3, GivenTypes
<1>11. answers' \in 0 .. Bound  BY TeamsAssumption DEF Types, GiveWork
<1>12. time_stamp' \in [Teams -> Nat]  BY DEF Types, GiveWork
<1>13. UNCHANGED <<execution_counter, queries, pc, waiting, from, stale, delegated>>
      BY DEF GiveWork
<1>14. Types'  BY <1>5, <1>9, <1>10, <1>11, <1>12, <1>13 DEF Types
<1> QED BY <1>9, <1>13, <1>14 DEF Safe

LEMMA DelegateSafe ==
  ASSUME Types, SelfNotices, NEW t \in Teams, NEW q \in Teams, Delegate(t, q)
  PROVE  Safe(t)
<1> DEFINE m == Head(msgs[q][t])
           L == [MergedLoads(t, m) EXCEPT ![q] = Some]
           T == [MergedTimes(t, m) EXCEPT ![q] = m.time]
           d == [q |-> q, time |-> m.time, ok |-> FALSE]
<1>1. msgs[q][t] # <<>> /\ m.code = 1  BY DEF Delegate, Arrived
<1>2. /\ Received(q, t) \in Nets(Messages) /\ m \in Messages /\ q # t
      /\ L \in Loads /\ T \in Times /\ m.time \in Nat
      /\ \A a, b \in Teams : \A x \in In(Received(q, t)[a][b]) : x \in In(msgs[a][b])
  <2>1. m.code # 4 /\ m.code \in {1, 3}  BY <1>1
  <2> QED BY <1>1, <2>1, ReadFacts, Zenon
<1>3. /\ Know(t, L, T) /\ msgs' = Received(q, t)
      /\ delegated' = [delegated EXCEPT ![t] = @ \cup {d}]
      BY DEF Delegate, LearnRequest
<1>4. d \in Delegations /\ d.q # t  BY <1>2 DEF Delegations
<1> HIDE DEF m, L, T, d
<1>5. mpi_load' \in [Teams -> Loads] /\ mpi_load_time' \in [Teams -> Times]
      BY <1>2, <1>3, LearnTypes
<1>6. msgs' \in Nets(Messages) /\ Sends(t)  BY <1>2, <1>3 DEF Sends
<1>7. /\ delegated' \in [Teams -> SUBSET Delegations]
      /\ \A u \in Teams : \A e \in delegated'[u] : e.q # u
      BY <1>3, <1>4 DEF Types
<1>8. answers' \in 0 .. Bound  BY TeamsAssumption DEF Types, Delegate
<1>9. UNCHANGED <<execution_counter, queries, pc, waiting, time_stamp, from, stale, work, given>>
      BY DEF Delegate, state, copies
<1>10. Types'  BY <1>5, <1>6, <1>7, <1>8, <1>9 DEF Types
<1> QED BY <1>6, <1>9, <1>10 DEF Safe

LEMMA LearnNoticeSafe ==
  ASSUME Types, SelfNotices, NEW t \in Teams, NEW q \in Teams, LearnNotice(t, q)
  PROVE  Safe(t)
<1> DEFINE m == Head(msgs[q][t])
           L == [mpi_load[t] EXCEPT ![q] = m.load]
           T == [mpi_load_time[t] EXCEPT ![q] = m.time]
<1>1. msgs[q][t] # <<>> /\ m.code = 4  BY DEF LearnNotice, Arrived
<1>2. /\ Received(q, t) \in Nets(Messages) /\ m \in Messages
      /\ \A a, b \in Teams : \A x \in In(Received(q, t)[a][b]) : x \in In(msgs[a][b])
      BY <1>1, ReadFacts
<1>3. m.time \in Nat /\ m.load = Some  BY <1>1, <1>2, MessageFacts
<1>4. L \in Loads /\ T \in Times
  <2> HIDE DEF m
  <2> QED BY <1>3 DEF Types, Loads, Times
<1>5. Know(t, L, T) /\ msgs' = Received(q, t)  BY DEF LearnNotice
<1> HIDE DEF m, L, T
<1>6. mpi_load' \in [Teams -> Loads] /\ mpi_load_time' \in [Teams -> Times]
      BY <1>4, <1>5, LearnTypes
<1>7. msgs' \in Nets(Messages) /\ Sends(t)  BY <1>2, <1>5 DEF Sends
<1>8. UNCHANGED <<execution_counter, queries, answers, pc, waiting, time_stamp, from, delegated, work, given>>
      BY DEF LearnNotice, state, copies, counters
<1>9. stale' \in BOOLEAN  BY DEF Types, LearnNotice, Stale
<1>10. Types'  BY <1>6, <1>7, <1>8, <1>9 DEF Types
<1> QED BY <1>7, <1>8, <1>10 DEF Safe

LEMMA DropMessageSafe ==
  ASSUME Types, SelfNotices, NEW t \in Teams, NEW q \in Teams, DropMessage(t, q)
  PROVE  Safe(t)
<1>1. msgs[q][t] # <<>>  BY DEF DropMessage, Arrived, Outdated
<1>2. /\ Received(q, t) \in Nets(Messages)
      /\ \A a, b \in Teams : \A x \in In(Received(q, t)[a][b]) : x \in In(msgs[a][b])
      BY <1>1, ReadFacts
<1>3. msgs' = Received(q, t)  BY DEF DropMessage
<1>4. msgs' \in Nets(Messages) /\ Sends(t)  BY <1>2, <1>3 DEF Sends
<1>5. UNCHANGED <<execution_counter, queries, answers, pc, waiting, time_stamp, from, delegated,
                  mpi_load, mpi_load_time, stale, work, given>>
      BY DEF DropMessage, state, known, copies, counters
<1>6. Types'  BY <1>4, <1>5 DEF Types
<1> QED BY <1>4, <1>5, <1>6 DEF Safe


\* What these actions do for a request d.
StartsFor(t, d) ==
  /\ pc[t] \in {"busy", "drain"} /\ ~ d.ok
  /\ msgs' = Send(msgs, t, d.q, Accepted(t))
  /\ delegated' = [delegated EXCEPT ![t] = (@ \ {d}) \cup {[d EXCEPT !.ok = TRUE]}]
  /\ UNCHANGED <<state, known, copies, counters>>

DoneFor(t, d) ==
  /\ pc[t] \in {"busy", "drain"}
  /\ msgs' = IF d.ok THEN msgs ELSE Send(msgs, t, d.q, Accepted(t))
  /\ work' = Send(work, t, d.q, Work(time_stamp[t], mpi_load[t], mpi_load_time[t]))
  /\ Know(t, [mpi_load[t] EXCEPT ![d.q] = Some], [mpi_load_time[t] EXCEPT ![d.q] = d.time + 1])
  /\ given' = given \cup {Given(t, d.q, d.time)}
  /\ time_stamp' = [time_stamp EXCEPT ![t] = @ + 1]
  /\ delegated' = [delegated EXCEPT ![t] = @ \ {d}]
  /\ UNCHANGED <<pc, waiting, from, stale, counters>>

RefusedFor(t, d) ==
  /\ pc[t] \in {"busy", "drain"} /\ ~ d.ok
  /\ msgs' = Send(msgs, t, d.q, Refusal(t, Some, mpi_load[t], mpi_load_time[t]))
  /\ time_stamp' = [time_stamp EXCEPT ![t] = @ + 1]
  /\ delegated' = [delegated EXCEPT ![t] = @ \ {d}]
  /\ UNCHANGED <<pc, waiting, from, known, copies, counters>>

LEMMA DelegatedFacts ==
  ASSUME Types, NEW t \in Teams, NEW d \in delegated[t]
  PROVE  /\ d \in Delegations /\ d.q \in Teams \ {t} /\ d.time \in Nat /\ d.ok \in BOOLEAN
         /\ execution_counter[t] \in Counters /\ time_stamp[t] \in Nat
         /\ mpi_load[t] \in Loads /\ mpi_load_time[t] \in Times
         /\ msgs \in Nets(Messages)
BY DEF Types, Delegations

LEMMA StartsSafe ==
  ASSUME Types, NEW t \in Teams, NEW d \in delegated[t], StartsFor(t, d)
  PROVE  Safe(t)
<1> DEFINE e == [d EXCEPT !.ok = TRUE]
<1>1. /\ d \in Delegations /\ d.q \in Teams \ {t} /\ execution_counter[t] \in Counters
      /\ time_stamp[t] \in Nat /\ msgs \in Nets(Messages)
      /\ mpi_load[t] \in Loads /\ mpi_load_time[t] \in Times
      BY DelegatedFacts
<1>2. e \in Delegations /\ e.q # t  BY <1>1 DEF Delegations
<1>3. delegated' = [delegated EXCEPT ![t] = (@ \ {d}) \cup {e}]
      /\ msgs' = Send(msgs, t, d.q, Accepted(t))
      BY DEF StartsFor
<1>4. Accepted(t) \in Messages  BY <1>1, NewMessages
<1>5. Accepted(t).counter = execution_counter[t]  BY DEF Accepted, Message
<1>6. msgs' \in Nets(Messages) /\ Sends(t)
  <2> DEFINE u == d.q
             a == Accepted(t)
  <2>1. u \in Teams /\ u # t /\ msgs' = Send(msgs, t, u, a) /\ a \in Messages
        /\ a.counter = execution_counter[t]
        BY <1>1, <1>3, <1>4, <1>5
  <2> HIDE DEF u, a
  <2> QED BY <1>1, <2>1, SentOne
<1> HIDE DEF e
<1>7. /\ delegated' \in [Teams -> SUBSET Delegations]
      /\ \A u \in Teams : \A x \in delegated'[u] : x.q # u
      BY <1>2, <1>3 DEF Types
<1>8. UNCHANGED <<execution_counter, queries, answers, pc, waiting, time_stamp, from,
                  mpi_load, mpi_load_time, stale, work, given>>
      BY DEF StartsFor, state, known, copies, counters
<1>9. Types'  BY <1>6, <1>7, <1>8 DEF Types
<1> QED BY <1>6, <1>8, <1>9 DEF Safe

LEMMA DoneSafe ==
  ASSUME Types, NEW t \in Teams, NEW d \in delegated[t], DoneFor(t, d)
  PROVE  Safe(t)
<1> DEFINE u == d.q
           n == d.time
           a == Accepted(t)
           L == mpi_load[t]
           T == mpi_load_time[t]
           M == [L EXCEPT ![u] = Some]
           U == [T EXCEPT ![u] = n + 1]
<1>1. /\ u \in Teams \ {t} /\ n \in Nat /\ execution_counter[t] \in Counters
      /\ time_stamp[t] \in Nat /\ msgs \in Nets(Messages) /\ L \in Loads /\ T \in Times
      BY DelegatedFacts
<1>2. M \in Loads /\ U \in Times  BY <1>1 DEF Loads, Times
<1>3. a \in Messages  BY <1>1, NewMessages
<1>4. a.counter = execution_counter[t]  BY DEF Accepted, Message
<1>5. /\ msgs' = msgs \/ msgs' = Send(msgs, t, u, a)
      /\ work' = Send(work, t, u, Work(time_stamp[t], L, T))
      /\ Know(t, M, U)
      /\ given' = given \cup {Given(t, u, n)}
      /\ delegated' = [delegated EXCEPT ![t] = @ \ {d}]
      BY DEF DoneFor
<1> HIDE DEF u, n, a, L, T, M, U
<1>6. msgs' \in Nets(Messages) /\ Sends(t)
  <2>1. CASE msgs' = msgs  BY <1>1, <2>1 DEF Sends
  <2>2. CASE msgs' = Send(msgs, t, u, a)  BY <1>1, <1>3, <1>4, <2>2, SentOne
  <2> QED BY <1>5, <2>1, <2>2
<1>7. work' \in Nets(Copies) /\ given' \in SUBSET Gifts  BY <1>1, <1>5, GivenTypes
<1>8. mpi_load' \in [Teams -> Loads] /\ mpi_load_time' \in [Teams -> Times]
      BY <1>2, <1>5, LearnTypes
<1>9. /\ delegated' \in [Teams -> SUBSET Delegations]
      /\ \A v \in Teams : \A x \in delegated'[v] : x.q # v
      BY <1>5 DEF Types
<1>10. time_stamp' \in [Teams -> Nat]  BY DEF Types, DoneFor
<1>11. UNCHANGED <<execution_counter, queries, answers, pc, waiting, from, stale>>
      BY DEF DoneFor, counters
<1>12. Types'  BY <1>6, <1>7, <1>8, <1>9, <1>10, <1>11 DEF Types
<1> QED BY <1>6, <1>11, <1>12 DEF Safe

LEMMA RefusedSafe ==
  ASSUME Types, NEW t \in Teams, NEW d \in delegated[t], RefusedFor(t, d)
  PROVE  Safe(t)
<1> DEFINE u == d.q
           L == mpi_load[t]
           T == mpi_load_time[t]
           a == Refusal(t, Some, L, T)
<1>1. /\ u \in Teams \ {t} /\ execution_counter[t] \in Counters
      /\ time_stamp[t] \in Nat /\ msgs \in Nets(Messages) /\ L \in Loads /\ T \in Times
      BY DelegatedFacts
<1>2. a \in Messages  BY <1>1, NewMessages
<1>3. a.counter = execution_counter[t]  BY DEF Refusal
<1>4. /\ msgs' = Send(msgs, t, u, a)
      /\ delegated' = [delegated EXCEPT ![t] = @ \ {d}]
      BY DEF RefusedFor
<1> HIDE DEF u, a, L, T
<1>5. msgs' \in Nets(Messages) /\ Sends(t)  BY <1>1, <1>2, <1>3, <1>4, SentOne
<1>6. /\ delegated' \in [Teams -> SUBSET Delegations]
      /\ \A v \in Teams : \A x \in delegated'[v] : x.q # v
      BY <1>4 DEF Types
<1>7. time_stamp' \in [Teams -> Nat]  BY DEF Types, RefusedFor
<1>8. UNCHANGED <<execution_counter, queries, answers, pc, waiting, from, mpi_load, mpi_load_time,
                  stale, work, given>>
      BY DEF RefusedFor, known, copies, counters
<1>9. Types'  BY <1>5, <1>6, <1>7, <1>8 DEF Types
<1> QED BY <1>5, <1>8, <1>9 DEF Safe

LEMMA IdleSafe ==
  ASSUME Types, NEW t \in Teams, BecomeIdle(t) \/ Drained(t)
  PROVE  Safe(t)
<1>1. UNCHANGED <<execution_counter, queries, answers, from, delegated, msgs, work, given,
                  mpi_load, mpi_load_time, stale>>
      BY DEF BecomeIdle, Drained, known, copies, network, counters
<1>2. /\ pc' \in [Teams -> {"busy", "drain", "get", "recv", "end"}]
      /\ waiting' \in [Teams -> BOOLEAN] /\ time_stamp' \in [Teams -> Nat]
  <2>1. CASE BecomeIdle(t)
    <3>1. pc' = [pc EXCEPT ![t] = "get"] \/ pc' = [pc EXCEPT ![t] = "drain"]
          BY <2>1 DEF BecomeIdle
    <3>2. /\ waiting' = [waiting EXCEPT ![t] = FALSE]
          /\ time_stamp' = [time_stamp EXCEPT ![t] = @ + 1]
          BY <2>1 DEF BecomeIdle
    <3>3. pc' \in [Teams -> {"busy", "drain", "get", "recv", "end"}]
          BY <3>1 DEF Types
    <3>4. waiting' \in [Teams -> BOOLEAN]  BY <3>2 DEF Types
    <3>5. time_stamp' \in [Teams -> Nat]  BY <3>2 DEF Types
    <3> QED BY <3>3, <3>4, <3>5
  <2>2. CASE Drained(t)
    <3>1. pc' = [pc EXCEPT ![t] = "get"] /\ waiting' = waiting /\ time_stamp' = time_stamp
          BY <2>2 DEF Drained
    <3>2. pc' \in [Teams -> {"busy", "drain", "get", "recv", "end"}]
          BY <3>1 DEF Types
    <3> QED BY <3>1, <3>2 DEF Types
  <2> QED BY <2>1, <2>2
<1>3. Types'  BY <1>1, <1>2 DEF Types
<1> QED BY <1>1, <1>3 DEF Safe, Sends


LEMMA RoundSafe ==
  ASSUME Types, NEW t \in Teams, NEW net \in Nets(Messages), NEW L \in Loads, NEW T \in Times,
         NEW wait \in BOOLEAN, Round(t, net, L, T, wait),
         \A a, b \in Teams : \A x \in In(net[a][b]) :
           x \in In(msgs[a][b]) \/ (a = t /\ b # t /\ x.counter = execution_counter[t]),
         stale' \in BOOLEAN, UNCHANGED <<time_stamp, from, delegated, copies, counters>>
  PROVE  Safe(t)
<1>1. /\ msgs' \in Nets(Messages) /\ pc' \in [Teams -> {"busy", "drain", "get", "recv", "end"}]
      /\ waiting' \in [Teams -> BOOLEAN]
      /\ mpi_load' \in [Teams -> Loads] /\ mpi_load_time' \in [Teams -> Times]
      /\ \A a, b \in Teams : \A x \in In(msgs'[a][b]) :
           x \in In(net[a][b]) \/ (a = t /\ b # t /\ x.counter = execution_counter[t])
      BY RoundTypes
<1>2. Sends(t)  BY <1>1 DEF Sends
<1>3. UNCHANGED <<execution_counter, queries, answers, time_stamp, from, delegated, work, given>>
      BY DEF copies, counters
<1>4. Types'  BY <1>1, <1>3 DEF Types
<1> QED BY <1>2, <1>3, <1>4 DEF Safe

LEMMA AskSafe ==
  ASSUME Types, NEW t \in Teams, Ask(t)
  PROVE  Safe(t)
<1> DEFINE net == msgs
           L == mpi_load[t]
           T == mpi_load_time[t]
           wait == FALSE
<1>1. net \in Nets(Messages) /\ L \in Loads /\ T \in Times /\ wait \in BOOLEAN  BY DEF Types
<1>2. Round(t, net, L, T, wait)  BY DEF Ask
<1>3. \A a, b \in Teams : \A x \in In(net[a][b]) :
        x \in In(msgs[a][b]) \/ (a = t /\ b # t /\ x.counter = execution_counter[t])
      OBVIOUS
<1>4. stale' \in BOOLEAN /\ UNCHANGED <<time_stamp, from, delegated, copies, counters>>
      BY DEF Ask, Types
<1> HIDE DEF net, L, T, wait
<1> QED BY <1>1, <1>2, <1>3, <1>4, RoundSafe

LEMMA GetRequestSafe ==
  ASSUME Types, SelfNotices, NEW t \in Teams, NEW q \in Teams, GetRequest(t, q)
  PROVE  Safe(t)
<1> DEFINE m == Head(msgs[q][t])
           L == [MergedLoads(t, m) EXCEPT ![q] = Idle]
           T == [MergedTimes(t, m) EXCEPT ![q] = m.time]
           r == Refusal(t, Idle, L, T)
           net == Send(Received(q, t), t, q, r)
           wait == waiting[t]
<1>1. msgs[q][t] # <<>> /\ m.code = 1  BY DEF GetRequest, Arrived
<1>2. /\ Received(q, t) \in Nets(Messages) /\ m \in Messages /\ q # t
      /\ L \in Loads /\ T \in Times
      /\ \A a, b \in Teams : \A x \in In(Received(q, t)[a][b]) : x \in In(msgs[a][b])
  <2>1. m.code # 4 /\ m.code \in {1, 3}  BY <1>1
  <2> QED BY <1>1, <2>1, ReadFacts, Zenon
<1>3. Round(t, net, L, T, wait)  BY DEF GetRequest
<1>4. stale' \in BOOLEAN /\ UNCHANGED <<time_stamp, from, delegated, copies, counters>>
      BY DEF GetRequest, Types
<1> HIDE DEF m, L, T
<1>5. execution_counter[t] \in Counters /\ time_stamp[t] \in Nat /\ wait \in BOOLEAN
      BY DEF Types
<1>6. r \in Messages  BY <1>2, <1>5, NewMessages
<1>7. r.counter = execution_counter[t]  BY DEF Refusal
<1> HIDE DEF r
<1>8. net \in Nets(Messages)  BY <1>2, <1>6, SentType
<1>9. \A a, b \in Teams : \A x \in In(net[a][b]) : x \in In(Received(q, t)[a][b]) \/ (a = t /\ b = q /\ x = r)
      BY <1>2, <1>6, SentIn
<1> HIDE DEF net, wait
<1>10. \A a, b \in Teams : \A x \in In(net[a][b]) :
        x \in In(msgs[a][b]) \/ (a = t /\ b # t /\ x.counter = execution_counter[t])
      BY <1>2, <1>7, <1>9
<1>11. L \in Loads /\ T \in Times  BY <1>2
<1>12. wait \in BOOLEAN  BY <1>5
<1> QED BY <1>3, <1>4, <1>8, <1>10, <1>11, <1>12, RoundSafe

LEMMA GetRefusalSafe ==
  ASSUME Types, SelfNotices, NEW t \in Teams, NEW p \in Teams, GetRefusal(t, p)
  PROVE  Safe(t)
<1> DEFINE m == Head(msgs[p][t])
           L == [MergedLoads(t, m) EXCEPT ![p] = m.load]
           T == [MergedTimes(t, m) EXCEPT ![p] = m.time]
           net == Received(p, t)
           wait == FALSE
<1>1. msgs[p][t] # <<>> /\ m.code = 3  BY DEF GetRefusal, Arrived
<1>2. /\ net \in Nets(Messages) /\ m \in Messages /\ T \in Times
      /\ \A a, b \in Teams : \A x \in In(net[a][b]) : x \in In(msgs[a][b])
  <2>1. m.code # 4 /\ m.code \in {1, 3}  BY <1>1
  <2> QED BY <1>1, <2>1, ReadFacts, Zenon
<1>3. L \in Loads
  <2>1. m.load \in {Idle, Some} /\ m.loads \in Loads /\ m.times \in Times
        BY <1>1, <1>2, MessageFacts
  <2>2. MergedLoads(t, m) \in Loads  BY <2>1, MergedTypes
  <2> QED BY <2>1, <2>2 DEF Loads
<1>4. Round(t, net, L, T, wait)  BY DEF GetRefusal
<1>5. stale' \in BOOLEAN /\ UNCHANGED <<time_stamp, from, delegated, copies, counters>>
      BY DEF GetRefusal, Types, Stale
<1>6. wait \in BOOLEAN  OBVIOUS
<1> HIDE DEF m, L, T, net, wait
<1> QED BY <1>2, <1>3, <1>4, <1>5, <1>6, RoundSafe

LEMMA GetNoticeSafe ==
  ASSUME Types, SelfNotices, NEW t \in Teams, NEW q \in Teams, GetNotice(t, q)
  PROVE  Safe(t)
<1> DEFINE m == Head(msgs[q][t])
           L == [mpi_load[t] EXCEPT ![q] = m.load]
           T == [mpi_load_time[t] EXCEPT ![q] = m.time]
           net == Received(q, t)
           wait == waiting[t]
<1>1. msgs[q][t] # <<>> /\ m.code = 4  BY DEF GetNotice, Arrived
<1>2. /\ net \in Nets(Messages) /\ m \in Messages
      /\ \A a, b \in Teams : \A x \in In(net[a][b]) : x \in In(msgs[a][b])
      BY <1>1, ReadFacts
<1>3. m.time \in Nat /\ m.load = Some  BY <1>1, <1>2, MessageFacts
<1>4. L \in Loads /\ T \in Times
  <2> HIDE DEF m
  <2> QED BY <1>3 DEF Types, Loads, Times
<1>5. Round(t, net, L, T, wait)  BY DEF GetNotice
<1>6. stale' \in BOOLEAN /\ UNCHANGED <<time_stamp, from, delegated, copies, counters>>
      BY DEF GetNotice, Types, Stale
<1>7. wait \in BOOLEAN  BY DEF Types
<1> HIDE DEF m, L, T, net, wait
<1> QED BY <1>2, <1>4, <1>5, <1>6, <1>7, RoundSafe

LEMMA GetOutdatedSafe ==
  ASSUME Types, SelfNotices, NEW t \in Teams, NEW q \in Teams, GetOutdated(t, q)
  PROVE  Safe(t)
<1> DEFINE L == mpi_load[t]
           T == mpi_load_time[t]
           net == Received(q, t)
           wait == waiting[t]
<1>1. msgs[q][t] # <<>>  BY DEF GetOutdated, Outdated
<1>2. /\ net \in Nets(Messages)
      /\ \A a, b \in Teams : \A x \in In(net[a][b]) : x \in In(msgs[a][b])
      BY <1>1, ReadFacts
<1>3. L \in Loads /\ T \in Times /\ wait \in BOOLEAN  BY DEF Types
<1>4. Round(t, net, L, T, wait)  BY DEF GetOutdated
<1>5. stale' \in BOOLEAN /\ UNCHANGED <<time_stamp, from, delegated, copies, counters>>
      BY DEF GetOutdated, Types
<1> HIDE DEF L, T, net, wait
<1> QED BY <1>2, <1>3, <1>4, <1>5, RoundSafe

\* The end of the query, or an acceptance.
LEMMA GetOtherSafe ==
  ASSUME Types, SelfNotices, NEW t \in Teams, NEW q \in Teams, GetEnd(t, q) \/ GetAccepted(t, q)
  PROVE  Safe(t)
<1>1. msgs[q][t] # <<>>  BY DEF GetEnd, GetAccepted, Arrived
<1>2. /\ Received(q, t) \in Nets(Messages)
      /\ \A a, b \in Teams : \A x \in In(Received(q, t)[a][b]) : x \in In(msgs[a][b])
      BY <1>1, ReadFacts
<1>3. msgs' = Received(q, t)  BY DEF GetEnd, GetAccepted
<1>4. msgs' \in Nets(Messages) /\ Sends(t)  BY <1>2, <1>3 DEF Sends
<1>5. UNCHANGED <<execution_counter, queries, answers, waiting, time_stamp, delegated,
                  mpi_load, mpi_load_time, stale, work, given>>
      BY DEF GetEnd, GetAccepted, known, copies, counters
<1>6. pc' \in [Teams -> {"busy", "drain", "get", "recv", "end"}]
      BY DEF Types, GetEnd, GetAccepted
<1>7. from' \in [Teams -> Teams]
      BY DEF Types, GetEnd, GetAccepted
<1>8. Types'  BY <1>4, <1>5, <1>6, <1>7 DEF Types
<1> QED BY <1>4, <1>5, <1>8 DEF Safe


LEMMA InstallSafe ==
  ASSUME Types, NEW t \in Teams, Install(t)
  PROVE  Safe(t)
<1> DEFINE p == from[t]
           m == Head(work[p][t])
           L == [MergedLoads(t, m) EXCEPT ![p] = Some]
           T == [MergedTimes(t, m) EXCEPT ![p] = m.time]
           a == Notice(t, time_stamp[t] + 1)
<1>1. work[p][t] # <<>>  BY DEF Install
<1>2. /\ p \in Teams /\ work[p] \in [Teams -> Seq(Copies)] /\ work[p][t] \in Seq(Copies)
      /\ execution_counter[t] \in Counters /\ time_stamp[t] \in Nat /\ msgs \in Nets(Messages)
      /\ mpi_load[t] \in Loads /\ mpi_load_time[t] \in Times
      BY DEF Types, Nets
<1>3. m \in Copies /\ Tail(work[p][t]) \in Seq(Copies)
      BY <1>1, <1>2, InFacts
<1>4. m.loads \in Loads /\ m.times \in Times /\ m.time \in Nat  BY <1>3 DEF Copies
<1>5. MergedLoads(t, m) \in Loads /\ MergedTimes(t, m) \in Times
      BY <1>4, MergedTypes
<1>6. L \in Loads /\ T \in Times  BY <1>4, <1>5 DEF Loads, Times
<1>7. a \in Messages
  <2>1. time_stamp[t] + 1 \in Nat  BY <1>2
  <2> QED BY <1>2, <2>1, NewMessages
<1>8. a.counter = execution_counter[t] /\ a.code = 4  BY DEF Notice
<1>9. /\ Know(t, L, T)
      /\ work' = [work EXCEPT ![p][t] = Tail(@)]
      /\ msgs' = msgs \/ msgs' = Send(msgs, t, Team0, a)
      BY DEF Install
<1>10. work' \in Nets(Copies)
  <2>1. work' = [work EXCEPT ![p] = [work[p] EXCEPT ![t] = Tail(work[p][t])]]
        BY <1>9
  <2>2. [work[p] EXCEPT ![t] = Tail(work[p][t])] \in [Teams -> Seq(Copies)]
        BY <1>2, <1>3
  <2>3. work \in [Teams -> [Teams -> Seq(Copies)]]  BY DEF Types, Nets
  <2> HIDE DEF p
  <2> QED BY <1>2, <2>1, <2>2, <2>3 DEF Nets
<1> HIDE DEF p, m, L, T, a
<1>11. msgs' \in Nets(Messages) /\ Sends(t)
  <2>1. CASE msgs' = msgs  BY <1>2, <2>1 DEF Sends
  <2>2. CASE msgs' = Send(msgs, t, Team0, a)
    <3>1. Team0 \in Teams  BY TeamsAssumption
    <3> QED BY <1>2, <1>7, <1>8, <2>2, <3>1, SentOne
  <2> QED BY <1>9, <2>1, <2>2
<1>12. mpi_load' \in [Teams -> Loads] /\ mpi_load_time' \in [Teams -> Times]
      BY <1>6, <1>9, LearnTypes
<1>13. /\ time_stamp' = [time_stamp EXCEPT ![t] = @ + 2]
       /\ pc' = [pc EXCEPT ![t] = "busy"]
       /\ UNCHANGED <<execution_counter, queries, answers, waiting, from, given, delegated>>
      BY DEF Install, counters
<1>14. time_stamp' \in [Teams -> Nat]  BY <1>13 DEF Types
<1>15. pc' \in [Teams -> {"busy", "drain", "get", "recv", "end"}]  BY <1>13 DEF Types
<1>16. stale' \in BOOLEAN  BY DEF Types, Install, Stale
<1>17. Types'  BY <1>10, <1>11, <1>12, <1>13, <1>14, <1>15, <1>16 DEF Types
<1> QED BY <1>11, <1>13, <1>17 DEF Safe

\* A new query: what is left in a channel was in it before.
LEMMA QueryFacts ==
  ASSUME Types, NextQuery
  PROVE  /\ msgs' \in Nets(Messages)
         /\ \A a, b \in Teams : \A x \in In(msgs'[a][b]) : x \in In(msgs[a][b])
<1>0. PICK p \in Teams, q \in Teams : \E i \in 1 .. Len(msgs[p][q]) + 1 :
        msgs' = [NoMessages EXCEPT ![p][q] = SubSeq(msgs[p][q], i, Len(msgs[p][q]))]
      BY DEF NextQuery
<1>1. PICK i \in 1 .. Len(msgs[p][q]) + 1 :
        msgs' = [NoMessages EXCEPT ![p][q] = SubSeq(msgs[p][q], i, Len(msgs[p][q]))]
      BY <1>0
<1> DEFINE s == msgs[p][q]
           r == SubSeq(s, i, Len(s))
<1>2. s \in Seq(Messages)  BY DEF Types, Nets
<1>3. r \in Seq(Messages) /\ \A x \in In(r) : x \in In(s)
  <2>1. i \in Nat \ {0}  BY <1>1, <1>2
  <2>2. CASE Len(s) = 0
    <3>1. i = 1 /\ s = <<>>  BY <1>1, <1>2, <2>2
    <3>2. r = <<>>  BY <1>2, <2>2, <3>1
    <3> QED BY <3>2 DEF In
  <2>3. CASE Len(s) # 0
    <3>1. Len(s) \in Nat \ {0}  BY <1>2, <2>3
    <3> QED BY <1>2, <2>1, <3>1, InFacts
  <2> QED BY <2>2, <2>3
<1>4. msgs' = [NoMessages EXCEPT ![p] = [NoMessages[p] EXCEPT ![q] = r]]
      BY <1>1 DEF NoMessages
<1> HIDE DEF r
<1>5. /\ NoMessages \in Nets(Messages)
      /\ \A a, b \in Teams : NoMessages[a][b] = <<>>
      BY DEF NoMessages, Nets
<1>6. msgs' \in Nets(Messages)  BY <1>3, <1>4, <1>5 DEF Nets
<1>7. \A a, b \in Teams : msgs'[a][b] = (IF a = p /\ b = q THEN r ELSE <<>>)
      BY <1>4, <1>5 DEF Nets
<1>8. ASSUME NEW a \in Teams, NEW b \in Teams, NEW x \in In(msgs'[a][b])
      PROVE  x \in In(msgs[a][b])
  <2>1. CASE a = p /\ b = q  BY <1>3, <1>7, <1>8, <2>1
  <2>2. CASE ~ (a = p /\ b = q)
    <3>1. msgs'[a][b] = <<>>  BY <1>7, <2>2
    <3> QED BY <1>8, <3>1 DEF In
  <2> QED BY <2>1, <2>2
<1> QED BY <1>6, <1>8

LEMMA QueryTypes ==
  ASSUME Types, NextQuery
  PROVE  Types'
<1>1. msgs' \in Nets(Messages)  BY QueryFacts
<1>2. execution_counter' \in [Teams -> Counters]
  <2>1. \A t \in Teams : execution_counter[t] \in {0, 10}  BY DEF Types, Counters
  <2>2. \A t \in Teams : 10 - execution_counter[t] \in {0, 10}  BY <2>1
  <2> QED BY <2>2 DEF NextQuery, Counters
<1>3. mpi_load' \in [Teams -> Loads] /\ mpi_load_time' \in [Teams -> Times]
      BY DEF NextQuery, Loads, Times
<1>4. pc' \in [Teams -> {"busy", "drain", "get", "recv", "end"}]  BY DEF NextQuery
<1>5. waiting' \in [Teams -> BOOLEAN] /\ time_stamp' \in [Teams -> Nat]  BY DEF NextQuery
<1>6. queries' \in 1 .. Queries  BY TeamsAssumption DEF NextQuery, Types
<1>7. given' \in SUBSET Gifts /\ UNCHANGED <<answers, from, stale, delegated, work>>
      BY DEF NextQuery
<1> QED BY <1>1, <1>2, <1>3, <1>4, <1>5, <1>6, <1>7 DEF Types


\* A step of team t.
Step(t) == CheckMessages(t) \/ CheckDelegations(t) \/ BecomeIdle(t) \/ GetWork(t)

LEMMA SafeStep ==
  ASSUME Types, SelfNotices, NEW t \in Teams, Step(t)
  PROVE  Safe(t)
<1>1. CASE CheckMessages(t)
  <2>1. PICK q \in Teams : \/ Reject(t, q) \/ GiveWork(t, q) \/ Delegate(t, q)
                           \/ LearnNotice(t, q) \/ DropMessage(t, q)
        BY <1>1 DEF CheckMessages
  <2> QED BY <2>1, RejectSafe, GiveWorkSafe, DelegateSafe, LearnNoticeSafe, DropMessageSafe
<1>2. CASE CheckDelegations(t)
  <2>1. CASE DelegatedStarts(t)
    <3>1. PICK d \in delegated[t] : StartsFor(t, d)  BY <2>1 DEF DelegatedStarts, StartsFor
    <3> QED BY <3>1, StartsSafe
  <2>2. CASE DelegatedDone(t)
    <3>1. PICK d \in delegated[t] : DoneFor(t, d)  BY <2>2 DEF DelegatedDone, DoneFor
    <3> QED BY <3>1, DoneSafe
  <2>3. CASE DelegatedRefused(t)
    <3>1. PICK d \in delegated[t] : RefusedFor(t, d)  BY <2>3 DEF DelegatedRefused, RefusedFor
    <3> QED BY <3>1, RefusedSafe
  <2> QED BY <1>2, <2>1, <2>2, <2>3 DEF CheckDelegations
<1>3. CASE BecomeIdle(t) \/ Drained(t)  BY <1>3, IdleSafe
<1>4. CASE Ask(t)  BY <1>4, AskSafe
<1>5. CASE Install(t)  BY <1>5, InstallSafe
<1>6. CASE \E q \in Teams : \/ GetRequest(t, q) \/ GetRefusal(t, q) \/ GetNotice(t, q)
                            \/ GetOutdated(t, q) \/ GetEnd(t, q) \/ GetAccepted(t, q)
  <2>1. PICK q \in Teams : \/ GetRequest(t, q) \/ GetRefusal(t, q) \/ GetNotice(t, q)
                           \/ GetOutdated(t, q) \/ GetEnd(t, q) \/ GetAccepted(t, q)
        BY <1>6
  <2> QED BY <2>1, GetRequestSafe, GetRefusalSafe, GetNoticeSafe, GetOutdatedSafe, GetOtherSafe
<1> QED BY <1>1, <1>2, <1>3, <1>4, <1>5, <1>6 DEF Step, GetWork

LEMMA SelfStep ==
  ASSUME Types, SelfNotices, [Next]_vars
  PROVE  Types' /\ SelfNotices'
<1>1. CASE NextQuery
  <2>1. Types'  BY <1>1, QueryTypes
  <2>2. \A t \in Teams : \A m \in In(msgs'[t][t]) : m \in In(msgs[t][t])  BY <1>1, QueryFacts
  <2> QED BY <2>1, <2>2 DEF SelfNotices
<1>2. ASSUME NEW t \in Teams, Step(t) PROVE Types' /\ SelfNotices'
  <2>1. Safe(t)  BY <1>2, SafeStep
  <2>2. ASSUME NEW u \in Teams, NEW m \in In(msgs'[u][u]) PROVE m.code = 4
        BY <2>1, <2>2 DEF Safe, Sends, SelfNotices
  <2> QED BY <2>1, <2>2 DEF Safe, SelfNotices
<1>3. CASE UNCHANGED vars
  <2>1. UNCHANGED <<execution_counter, queries, answers, pc, waiting, time_stamp, from, delegated,
                    mpi_load, mpi_load_time, stale, msgs, work, given>>
        BY <1>3 DEF vars, state, known, network, copies, counters
  <2>2. Types'  BY <2>1 DEF Types
  <2> QED BY <2>1, <2>2 DEF SelfNotices
<1> QED BY <1>1, <1>2, <1>3 DEF Next, Step

LEMMA InitTypes ==
  ASSUME Init
  PROVE  Types /\ SelfNotices
<1>1. NoMessages \in Nets(Messages) /\ NoMessages \in Nets(Copies)
      /\ \A a, b \in Teams : NoMessages[a][b] = <<>>
      BY DEF NoMessages, Nets
<1>2. execution_counter \in [Teams -> Counters]  BY DEF Init, Counters
<1>3. mpi_load \in [Teams -> Loads] /\ mpi_load_time \in [Teams -> Times]
      BY DEF Init, Loads, Times
<1>4. /\ pc \in [Teams -> {"busy", "drain", "get", "recv", "end"}]
      /\ waiting \in [Teams -> BOOLEAN] /\ time_stamp \in [Teams -> Nat]
      BY DEF Init
<1>5. /\ from \in [Teams -> Teams]
      /\ delegated \in [Teams -> SUBSET Delegations]
      /\ \A t \in Teams : \A d \in delegated[t] : d.q # t
      BY DEF Init
<1>6. /\ msgs \in Nets(Messages) /\ work \in Nets(Copies)
      /\ answers \in 0 .. Bound /\ queries \in 1 .. Queries
      /\ given \in SUBSET Gifts /\ stale \in BOOLEAN
  <2>1. msgs \in Nets(Messages) /\ work \in Nets(Copies)  BY <1>1 DEF Init
  <2>2. answers = 0 /\ queries = 1 /\ given = {} /\ stale = FALSE  BY DEF Init
  <2>3. 0 \in 0 .. Bound /\ 1 \in 1 .. Queries  BY TeamsAssumption
  <2> QED BY <2>1, <2>2, <2>3
<1>7. SelfNotices  BY <1>1 DEF Init, SelfNotices, In
<1> QED BY <1>2, <1>3, <1>4, <1>5, <1>6, <1>7 DEF Types

\* Types says more than TypeOK.
LEMMA TypesOK ==
  ASSUME Types
  PROVE  TypeOK
<1>1. execution_counter \in [Teams -> {0, 10}]  BY DEF Types, Counters
<1>2. mpi_load \in [Teams -> [Teams -> {Idle, Some}]] /\ mpi_load_time \in [Teams -> [Teams -> Nat]]
      BY DEF Types, Loads, Times
<1>3. \A t \in Teams : \A d \in delegated[t] : d.q \in Teams \ {t} /\ d.time \in Nat /\ d.ok \in BOOLEAN
      BY DEF Types, Delegations
<1>4. ASSUME NEW p \in Teams, NEW q \in Teams, NEW i \in DOMAIN msgs[p][q]
      PROVE  msgs[p][q][i].code \in {1, 2, 3, 4, 6}
  <2>1. msgs[p][q] \in Seq(Messages)  BY DEF Types, Nets
  <2>2. msgs[p][q][i] \in Messages  BY <2>1
  <2> QED BY <2>2, MessageFacts
<1> QED BY <1>1, <1>2, <1>3, <1>4 DEF Types, TypeOK

(***************************************************************************)
(* The variables have their types. A team delegates no request of its own, *)
(* since all that it sends to itself is a notice.                          *)
(***************************************************************************)
THEOREM TypeCorrect == Spec => []TypeOK
<1>1. Init => Types /\ SelfNotices  BY InitTypes
<1>2. (Types /\ SelfNotices) /\ [Next]_vars => (Types /\ SelfNotices)'  BY SelfStep
<1>3. Types => TypeOK  BY TypesOK
<1> QED BY <1>1, <1>2, <1>3, PTL DEF Spec


-----------------------------------------------------------------------------
(***************************************************************************)
(* The way of a request.                                                   *)
(***************************************************************************)

\* Between x and p nothing changes for the request of x.
Same(c, x, p, net, dels, w, net2, dels2, w2) ==
  /\ Num(net2[x][p], c, 1) = Num(net[x][p], c, 1)
  /\ Num(net2[p][x], c, 2) = Num(net[p][x], c, 2)
  /\ Num(net2[p][x], c, 3) = Num(net[p][x], c, 3)
  /\ Of(dels2[p], x) = Of(dels[p], x)
  /\ w2[p][x] = w[p][x]

LEMMA SamePair ==
  ASSUME NEW c, NEW x, NEW p, NEW net, NEW dels, NEW w, NEW net2, NEW dels2, NEW w2,
         Same(c, x, p, net, dels, w, net2, dels2, w2)
  PROVE  /\ None(c, x, p, net, dels, w) => None(c, x, p, net2, dels2, w2)
         /\ Asked(c, x, p, net, dels, w) => Asked(c, x, p, net2, dels2, w2)
         /\ Promises(c, x, p, net, dels, w) => Promises(c, x, p, net2, dels2, w2)
<1>1. None(c, x, p, net, dels, w) => None(c, x, p, net2, dels2, w2)
      BY DEF Same, None, Nothing
<1>2. Coming(x, dels[p], w[p][x]) => Coming(x, dels2[p], w2[p][x])
      BY DEF Same, Coming
<1>3. Promises(c, x, p, net, dels, w) => Promises(c, x, p, net2, dels2, w2)
      BY <1>2 DEF Same, Promises, Accepts
<1>4. Asked(c, x, p, net, dels, w) => Asked(c, x, p, net2, dels2, w2)
      BY <1>2 DEF Same, Asked, UnderWay
<1> QED BY <1>1, <1>3, <1>4

LEMMA ProtocolFrame ==
  ASSUME NEW c, NEW x \in Teams, NEW loc, NEW wait, NEW src \in Teams,
         NEW net, NEW dels, NEW w, NEW net2, NEW dels2, NEW w2,
         Protocol(c, x, loc, wait, src, net, dels, w),
         \A p \in Teams : Same(c, x, p, net, dels, w, net2, dels2, w2),
         loc \in {"busy", "drain"} \/ dels2[x] = dels[x]
  PROVE  Protocol(c, x, loc, wait, src, net2, dels2, w2)
<1>1. ASSUME NEW p \in Teams
      PROVE  /\ None(c, x, p, net, dels, w) => None(c, x, p, net2, dels2, w2)
             /\ Asked(c, x, p, net, dels, w) => Asked(c, x, p, net2, dels2, w2)
             /\ Promises(c, x, p, net, dels, w) => Promises(c, x, p, net2, dels2, w2)
      BY SamePair
<1>2. ASSUME NEW p \in Teams
      PROVE  /\ Num(net2[p][x], c, 2) = Num(net[p][x], c, 2)
             /\ Of(dels2[p], x) = Of(dels[p], x) /\ w2[p][x] = w[p][x]
      BY DEF Same
<1> QED BY <1>1, <1>2 DEF Protocol

\* What messages do to these numbers.
LEMMA SendNums ==
  ASSUME NEW net \in Nets(Messages), NEW p \in Teams, NEW q \in Teams, NEW m \in Messages, NEW c,
         NEW a \in Teams, NEW b \in Teams, NEW k, ~ (a = p /\ b = q /\ m.counter = c /\ m.code = k)
  PROVE  Num(Send(net, p, q, m)[a][b], c, k) = Num(net[a][b], c, k)
<1>1. CASE a = p /\ b = q
  <2>1. ~ (m.counter = c /\ m.code = k)  BY <1>1
  <2>2. net[p][q] \in Seq(Messages)  BY DEF Nets
  <2>3. Num(Append(net[p][q], m), c, k) = Num(net[p][q], c, k)  BY <2>1, <2>2, NumAppend
  <2>4. Send(net, p, q, m)[p][q] = Append(net[p][q], m)  BY SentAt
  <2> QED BY <1>1, <2>3, <2>4
<1>2. CASE a # p \/ b # q
  <2>1. Send(net, p, q, m)[a][b] = net[a][b]  BY <1>2, SentAt
  <2> QED BY <2>1
<1> QED BY <1>1, <1>2

LEMMA SendNum ==
  ASSUME NEW net \in Nets(Messages), NEW p \in Teams, NEW q \in Teams, NEW m \in Messages, NEW c,
         NEW k, m.counter = c, m.code = k, Num(net[p][q], c, k) = 0
  PROVE  Num(Send(net, p, q, m)[p][q], c, k) = 1
<1>1. net[p][q] \in Seq(Messages)  BY DEF Nets
<1>2. Send(net, p, q, m)[p][q] = Append(net[p][q], m)  BY SentAt
<1>3. Num(Append(net[p][q], m), c, k) = 1  BY <1>1, NumAppend
<1> QED BY <1>2, <1>3

LEMMA ReceiveNums ==
  ASSUME NEW p \in Teams, NEW q \in Teams, NEW c, NEW a \in Teams, NEW b \in Teams, NEW k,
         msgs \in Nets(Messages), msgs[p][q] # <<>>,
         a # p \/ b # q \/ Head(msgs[p][q]).counter # c \/ Head(msgs[p][q]).code # k
  PROVE  Num(Received(p, q)[a][b], c, k) = Num(msgs[a][b], c, k)
<1> DEFINE net == Received(p, q)
           m == Head(msgs[p][q])
<1>1. msgs[p][q] \in Seq(Messages)  BY DEF Nets
<1>2. /\ net[p][q] = Tail(msgs[p][q])
      /\ \A x, y \in Teams : x # p \/ y # q => net[x][y] = msgs[x][y]
      BY ReceivedFacts
<1>3. ~ (m.counter = c /\ m.code = k) => Num(Tail(msgs[p][q]), c, k) = Num(msgs[p][q], c, k)
      BY <1>1, NumTail
<1>4. a # p \/ b # q \/ ~ (m.counter = c /\ m.code = k)  OBVIOUS
<1> HIDE DEF net, m
<1>5. Num(net[a][b], c, k) = Num(msgs[a][b], c, k)  BY <1>2, <1>3, <1>4
<1> QED BY <1>5 DEF net

LEMMA ReceiveNum ==
  ASSUME NEW p \in Teams, NEW q \in Teams, NEW c, NEW k,
         msgs \in Nets(Messages), msgs[p][q] # <<>>, Head(msgs[p][q]).counter = c, Head(msgs[p][q]).code = k
  PROVE  /\ Num(msgs[p][q], c, k) # 0
         /\ Num(msgs[p][q], c, k) = 1 => Num(Received(p, q)[p][q], c, k) = 0
<1>1. msgs[p][q] \in Seq(Messages)  BY DEF Nets
<1>2. Received(p, q)[p][q] = Tail(msgs[p][q])  BY ReceivedFacts
<1>3. /\ Num(msgs[p][q], c, k) # 0
      /\ Num(msgs[p][q], c, k) = 1 => Num(Tail(msgs[p][q]), c, k) = 0
      BY <1>1, NumTail
<1> QED BY <1>2, <1>3

\* The message that is read was of kind j, and no other has changed.
ReadOne(net, p, q, c, j) ==
  /\ \A a, b \in Teams : \A k : (a = p /\ b = q /\ k = j) \/ Num(net[a][b], c, k) = Num(msgs[a][b], c, k)
  /\ Num(msgs[p][q], c, j) # 0
  /\ Num(msgs[p][q], c, j) = 1 => Num(net[p][q], c, j) = 0

LEMMA ReadOneFacts ==
  ASSUME NEW p \in Teams, NEW q \in Teams, NEW c, NEW j,
         msgs \in Nets(Messages), msgs[p][q] # <<>>,
         Head(msgs[p][q]).counter = c, Head(msgs[p][q]).code = j
  PROVE  ReadOne(Received(p, q), p, q, c, j)
<1>1. ASSUME NEW a \in Teams, NEW b \in Teams, NEW k, ~ (a = p /\ b = q /\ k = j)
      PROVE  Num(Received(p, q)[a][b], c, k) = Num(msgs[a][b], c, k)
  <2>1. a # p \/ b # q \/ Head(msgs[p][q]).counter # c \/ Head(msgs[p][q]).code # k
        BY <1>1
  <2> QED BY <2>1, ReceiveNums
<1>2. /\ Num(msgs[p][q], c, j) # 0
      /\ Num(msgs[p][q], c, j) = 1 => Num(Received(p, q)[p][q], c, j) = 0
      BY ReceiveNum
<1> QED BY <1>1, <1>2 DEF ReadOne

\* A message of kind j is sent, and nothing else.
WriteOne(net, new, p, q, c, j) ==
  /\ \A a, b \in Teams : \A k : (a = p /\ b = q /\ k = j) \/ Num(new[a][b], c, k) = Num(net[a][b], c, k)
  /\ Num(net[p][q], c, j) = 0 => Num(new[p][q], c, j) = 1

LEMMA WriteOneFacts ==
  ASSUME NEW net \in Nets(Messages), NEW p \in Teams, NEW q \in Teams, NEW m \in Messages,
         NEW c, NEW j, m.counter = c, m.code = j
  PROVE  WriteOne(net, Send(net, p, q, m), p, q, c, j)
<1>1. ASSUME NEW a \in Teams, NEW b \in Teams, NEW k, ~ (a = p /\ b = q /\ k = j)
      PROVE  Num(Send(net, p, q, m)[a][b], c, k) = Num(net[a][b], c, k)
  <2>1. ~ (a = p /\ b = q /\ m.counter = c /\ m.code = k)  BY <1>1
  <2> QED BY <2>1, SendNums
<1>2. Num(net[p][q], c, j) = 0 => Num(Send(net, p, q, m)[p][q], c, j) = 1
      BY SendNum
<1> QED BY <1>1, <1>2 DEF WriteOne

LEMMA EndingNums ==
  ASSUME NEW net \in Nets(Messages), NEW t \in Teams, TheEnd(t) \in Messages, NEW c
  PROVE  \A a, b \in Teams : \A k : k # 6 =>
           Num(Ending(t, net)[a][b], c, k) = Num(net[a][b], c, k)
<1>1. ASSUME NEW a \in Teams, NEW b \in Teams, NEW k, k # 6
      PROVE  Num(Ending(t, net)[a][b], c, k) = Num(net[a][b], c, k)
  <2>1. CASE a # t \/ b = t
    <3>1. Ending(t, net)[a][b] = net[a][b]  BY <2>1, EndingFacts
    <3> QED BY <3>1
  <2>2. CASE a = t /\ b # t
    <3>1. Ending(t, net)[a][b] = Append(net[t][b], TheEnd(t))  BY <2>2, EndingFacts
    <3>2. net[t][b] \in Seq(Messages)  BY DEF Nets
    <3>3. TheEnd(t).code # k  BY <1>1 DEF TheEnd, Message
    <3>4. Num(Append(net[t][b], TheEnd(t)), c, k) = Num(net[t][b], c, k)
      <4> DEFINE s == net[t][b]
                 m == TheEnd(t)
      <4>1. s \in Seq(Messages) /\ m \in Messages /\ ~ (m.counter = c /\ m.code = k)
            BY <3>2, <3>3
      <4> HIDE DEF s, m
      <4>2. Num(Append(s, m), c, k) = Num(s, c, k)  BY <4>1, NumAppend
      <4> QED BY <4>2 DEF s, m
    <3> QED BY <2>2, <3>1, <3>4
  <2> QED BY <2>1, <2>2
<1> QED BY <1>1

\* The stages of the request of x to p: sent, delegated, refused, accepted.
IsSent(c, x, p, net, dels, w) ==
  /\ Num(net[x][p], c, 1) = 1 /\ Num(net[p][x], c, 2) = 0 /\ Num(net[p][x], c, 3) = 0
  /\ Of(dels[p], x) = {} /\ w[p][x] = <<>>

IsDelegated(c, x, p, net, dels, w, d) ==
  /\ Num(net[x][p], c, 1) = 0 /\ Num(net[p][x], c, 2) = 0 /\ Num(net[p][x], c, 3) = 0
  /\ Of(dels[p], x) = {d} /\ w[p][x] = <<>>

IsRefused(c, x, p, net, dels, w) ==
  /\ Num(net[x][p], c, 1) = 0 /\ Num(net[p][x], c, 2) = 0 /\ Num(net[p][x], c, 3) = 1
  /\ Of(dels[p], x) = {} /\ w[p][x] = <<>>

IsAccepted(c, x, p, net, dels, w) ==
  /\ Num(net[x][p], c, 1) = 0 /\ Num(net[p][x], c, 2) = 1 /\ Num(net[p][x], c, 3) = 0
  /\ Coming(x, dels[p], w[p][x])

LEMMA Stages ==
  ASSUME NEW c, NEW x, NEW p, NEW net, NEW dels, NEW w
  PROVE  Asked(c, x, p, net, dels, w) <=>
           \/ IsSent(c, x, p, net, dels, w)
           \/ \E d : IsDelegated(c, x, p, net, dels, w, d) /\ ~ d.ok
           \/ IsRefused(c, x, p, net, dels, w)
           \/ IsAccepted(c, x, p, net, dels, w)
<1>1. IsSent(c, x, p, net, dels, w) => Asked(c, x, p, net, dels, w)
      BY DEF Asked, UnderWay, IsSent
<1>2. ASSUME NEW d, IsDelegated(c, x, p, net, dels, w, d), ~ d.ok
      PROVE  Asked(c, x, p, net, dels, w)
      BY <1>2 DEF Asked, UnderWay, IsDelegated
<1>3. IsRefused(c, x, p, net, dels, w) => Asked(c, x, p, net, dels, w)
      BY DEF Asked, UnderWay, IsRefused
<1>4. IsAccepted(c, x, p, net, dels, w) => Asked(c, x, p, net, dels, w)
      BY DEF Asked, UnderWay, IsAccepted
<1>5. Asked(c, x, p, net, dels, w) =>
           \/ IsSent(c, x, p, net, dels, w)
           \/ \E d : IsDelegated(c, x, p, net, dels, w, d) /\ ~ d.ok
           \/ IsRefused(c, x, p, net, dels, w)
           \/ IsAccepted(c, x, p, net, dels, w)
      BY DEF Asked, UnderWay, IsSent, IsDelegated, IsRefused, IsAccepted
<1> QED BY <1>1, <1>2, <1>3, <1>4, <1>5

\* Team x waits for an answer of p alone.
Waits(c, x, p, loc, wait, net, dels, w) ==
  /\ loc = "get" /\ wait /\ p \in Teams \ {x} /\ dels[x] = {}
  /\ \A u \in Teams \ {p} : None(c, x, u, net, dels, w)

LEMMA WaitsProtocol ==
  ASSUME NEW c, NEW x, NEW p, NEW loc, NEW wait, NEW src, NEW net, NEW dels, NEW w,
         Waits(c, x, p, loc, wait, net, dels, w), Asked(c, x, p, net, dels, w)
  PROVE  Protocol(c, x, loc, wait, src, net, dels, w)
BY DEF Waits, Protocol

\* Team x waits for the work of p.
Awaits(c, x, p, loc, src, net, dels, w) ==
  /\ loc = "recv" /\ src = p /\ Promises(c, x, p, net, dels, w)
  /\ \A u \in Teams \ {p} : None(c, x, u, net, dels, w)

\* Something between x and p shows where x is.
LEMMA Locate ==
  ASSUME NEW c, NEW x \in Teams, NEW p \in Teams,
         NEW loc, NEW wait, NEW src \in Teams, NEW net, NEW dels, NEW w,
         Protocol(c, x, loc, wait, src, net, dels, w),
         loc \in {"busy", "drain", "get", "recv", "end"}
  PROVE  /\ Num(net[x][p], c, 1) # 0 => \/ loc = "end"
                                        \/ Waits(c, x, p, loc, wait, net, dels, w) /\ IsSent(c, x, p, net, dels, w)
         /\ Num(net[p][x], c, 3) # 0 => \/ loc = "end"
                                        \/ Waits(c, x, p, loc, wait, net, dels, w) /\ IsRefused(c, x, p, net, dels, w)
         /\ Num(net[p][x], c, 2) # 0 =>
              Waits(c, x, p, loc, wait, net, dels, w) /\ IsAccepted(c, x, p, net, dels, w)
         /\ \A d \in Of(dels[p], x) : ~ d.ok =>
              Waits(c, x, p, loc, wait, net, dels, w) /\ IsDelegated(c, x, p, net, dels, w, d)
         /\ \A d \in Of(dels[p], x) : d.ok =>
              /\ Of(dels[p], x) = {d} /\ w[p][x] = <<>>
              /\ \/ Waits(c, x, p, loc, wait, net, dels, w) /\ IsAccepted(c, x, p, net, dels, w)
                 \/ Awaits(c, x, p, loc, src, net, dels, w)
         /\ w[p][x] # <<>> =>
              \/ Waits(c, x, p, loc, wait, net, dels, w) /\ IsAccepted(c, x, p, net, dels, w)
              \/ Awaits(c, x, p, loc, src, net, dels, w)
<1>1. CASE None(c, x, p, net, dels, w)
      BY <1>1 DEF None, Nothing
<1>2. CASE loc = "get" /\ wait /\ ~ None(c, x, p, net, dels, w)
  <2>1. PICK u \in Teams \ {x} : /\ Asked(c, x, u, net, dels, w)
                                 /\ \A v \in Teams \ {u} : None(c, x, v, net, dels, w)
        BY <1>2 DEF Protocol
  <2>2. u = p  BY <1>2, <2>1
  <2>3. dels[x] = {}  BY <1>2 DEF Protocol
  <2>4. Waits(c, x, p, loc, wait, net, dels, w)  BY <1>2, <2>1, <2>2, <2>3 DEF Waits
  <2>5. CASE IsSent(c, x, p, net, dels, w)  BY <2>4, <2>5 DEF IsSent
  <2>6. CASE IsRefused(c, x, p, net, dels, w)  BY <2>4, <2>6 DEF IsRefused
  <2>7. CASE IsAccepted(c, x, p, net, dels, w)
    <3>1. \A d \in Of(dels[p], x) : d.ok /\ Of(dels[p], x) = {d} /\ w[p][x] = <<>>
          BY <2>7 DEF IsAccepted, Coming
    <3> QED BY <2>4, <2>7, <3>1 DEF IsAccepted
  <2>8. ASSUME NEW d, IsDelegated(c, x, p, net, dels, w, d), ~ d.ok
        PROVE  /\ Num(net[x][p], c, 1) = 0 /\ Num(net[p][x], c, 3) = 0 /\ Num(net[p][x], c, 2) = 0
               /\ \A e \in Of(dels[p], x) : e = d /\ ~ e.ok
               /\ w[p][x] = <<>>
        BY <2>8 DEF IsDelegated
  <2> QED BY <2>1, <2>2, <2>4, <2>5, <2>6, <2>7, <2>8, Stages
<1>3. CASE loc = "recv" /\ ~ None(c, x, p, net, dels, w)
  <2>1. src = p /\ Promises(c, x, p, net, dels, w) /\ \A u \in Teams \ {p} : None(c, x, u, net, dels, w)
        BY <1>3 DEF Protocol
  <2>2. Awaits(c, x, p, loc, src, net, dels, w)  BY <1>3, <2>1 DEF Awaits
  <2>3. /\ Num(net[x][p], c, 1) = 0 /\ Num(net[p][x], c, 2) = 0 /\ Num(net[p][x], c, 3) = 0
        /\ Coming(x, dels[p], w[p][x])
        BY <2>1 DEF Promises, Accepts
  <2>4. \A d \in Of(dels[p], x) : d.ok /\ Of(dels[p], x) = {d} /\ w[p][x] = <<>>
        BY <2>3 DEF Coming
  <2> QED BY <2>2, <2>3, <2>4
<1>4. CASE loc = "end"
  <2>1. Num(net[p][x], c, 2) = 0 /\ Of(dels[p], x) = {} /\ w[p][x] = <<>>
        BY <1>4 DEF Protocol
  <2> QED BY <1>4, <2>1
<1>5. loc \in {"busy", "drain"} \/ (loc = "get" /\ ~ wait) => None(c, x, p, net, dels, w)
      BY DEF Protocol
<1> QED BY <1>1, <1>2, <1>3, <1>4, <1>5


\* The protocol in the network net, for the team x.
Goes(c, x, net) == Protocol(c, x, pc[x], waiting[x], from[x], net, delegated, work)

\* All teams are in the query that counts c, and the protocol goes on.
Uniform(c) == \A x \in Teams : execution_counter[x] = c
GoesOn(c) ==
  \A x \in Teams : Protocol(c, x, pc'[x], waiting'[x], from'[x], msgs', delegated', work')

\* A request can be sent by a team without one, and the round ends.
LEMMA RoundProtocol ==
  ASSUME Types, NEW t \in Teams, NEW net \in Nets(Messages), NEW L \in Loads, NEW T \in Times,
         NEW wait \in BOOLEAN, Round(t, net, L, T, wait), pc[t] = "get",
         NEW c, c = execution_counter[t],
         \A x \in Teams \ {t} : Goes(c, x, net),
         Protocol(c, t, "get", wait, from[t], net, delegated, work),
         wait => waiting[t],
         UNCHANGED <<from, delegated, work>>
  PROVE  GoesOn(c)
<1> USE DEF GoesOn
<1>1. CASE wait /\ msgs' = net /\ UNCHANGED <<pc, waiting>>
  <2>1. wait = waiting[t]  BY <1>1 DEF Types
  <2> QED BY <1>1, <2>1 DEF Goes
<1> DEFINE r == Request(t, L, T)
<1>2. CASE /\ ~ wait
           /\ \E u \in Candidates(t, L) : msgs' = Send(net, t, u, r)
           /\ waiting' = [waiting EXCEPT ![t] = TRUE]
           /\ UNCHANGED pc
  <2>1. PICK u \in Teams : u # t /\ msgs' = Send(net, t, u, r)
        BY <1>2 DEF Candidates
  <2>2. r.counter = c /\ r.code = 1  BY DEF Request
  <2>3. r \in Messages
    <3>1. execution_counter[t] \in Counters /\ time_stamp[t] \in Nat  BY DEF Types
    <3> QED BY <3>1, NewMessages
  <2> HIDE DEF r
  <2>4. WriteOne(net, msgs', t, u, c, 1)  BY <2>1, <2>2, <2>3, WriteOneFacts
  <2>5. ASSUME NEW x \in Teams, NEW p \in Teams, x # t \/ p # u
        PROVE  Same(c, x, p, net, delegated, work, msgs', delegated', work')
        BY <2>4, <2>5 DEF WriteOne, Same
  <2>6. ASSUME NEW x \in Teams \ {t}
        PROVE  Protocol(c, x, pc'[x], waiting'[x], from'[x], msgs', delegated', work')
    <3>1. Protocol(c, x, pc[x], waiting[x], from[x], net, delegated, work)  BY DEF Goes
    <3>2. pc'[x] = pc[x] /\ waiting'[x] = waiting[x] /\ from'[x] = from[x] /\ from[x] \in Teams
          /\ delegated'[x] = delegated[x]
          BY <1>2 DEF Types
    <3>3. \A p \in Teams : Same(c, x, p, net, delegated, work, msgs', delegated', work')
          BY <2>5
    <3>4. Protocol(c, x, pc[x], waiting[x], from[x], msgs', delegated', work')
          BY <3>1, <3>2, <3>3, ProtocolFrame
    <3> QED BY <3>2, <3>4
  <2>7. Protocol(c, t, pc'[t], waiting'[t], from'[t], msgs', delegated', work')
    <3>1. (\A p \in Teams : None(c, t, p, net, delegated, work)) /\ delegated[t] = {}
          BY <1>2 DEF Protocol
    <3>2. \A p \in Teams \ {u} : None(c, t, p, msgs', delegated', work')
          BY <2>5, <3>1, SamePair
    <3>3. Num(net[t][u], c, 1) = 0 /\ Num(net[u][t], c, 2) = 0 /\ Num(net[u][t], c, 3) = 0
          /\ Of(delegated[u], t) = {} /\ work[u][t] = <<>>
          BY <3>1 DEF None, Nothing
    <3>4. IsSent(c, t, u, msgs', delegated', work')
      <4>1. Num(msgs'[t][u], c, 1) = 1 /\ Num(msgs'[u][t], c, 2) = 0 /\ Num(msgs'[u][t], c, 3) = 0
            BY <2>1, <2>4, <3>3 DEF WriteOne
      <4>2. Of(delegated'[u], t) = {} /\ work'[u][t] = <<>>  BY <3>3
      <4> QED BY <4>1, <4>2 DEF IsSent
    <3>5. Asked(c, t, u, msgs', delegated', work')  BY <3>4, Stages
    <3>6. pc'[t] = "get" /\ waiting'[t] /\ delegated'[t] = {}  BY <1>2, <3>1 DEF Types
    <3>7. Waits(c, t, u, pc'[t], waiting'[t], msgs', delegated', work')
          BY <2>1, <3>2, <3>6 DEF Waits
    <3> QED BY <3>5, <3>7, WaitsProtocol
  <2> QED BY <2>6, <2>7
<1>3. CASE /\ ~ wait
           /\ msgs' = Ending(t, net)
           /\ pc' = [pc EXCEPT ![t] = "end"]
           /\ UNCHANGED waiting
  <2>1. TheEnd(t) \in Messages
    <3>1. execution_counter[t] \in Counters /\ time_stamp[t] \in Nat  BY DEF Types
    <3> QED BY <3>1, NewMessages
  <2>2. \A a, b \in Teams : \A k \in {1, 2, 3} : Num(msgs'[a][b], c, k) = Num(net[a][b], c, k)
    <3>1. ASSUME NEW a \in Teams, NEW b \in Teams, NEW k, k # 6
          PROVE  Num(Ending(t, net)[a][b], c, k) = Num(net[a][b], c, k)
          BY <2>1, <3>1, EndingNums
    <3> QED BY <1>3, <3>1
  <2>3. ASSUME NEW x \in Teams, NEW p \in Teams
        PROVE  Same(c, x, p, net, delegated, work, msgs', delegated', work')
        BY <2>2 DEF Same
  <2>4. ASSUME NEW x \in Teams \ {t}
        PROVE  Protocol(c, x, pc'[x], waiting'[x], from'[x], msgs', delegated', work')
    <3>1. Protocol(c, x, pc[x], waiting[x], from[x], net, delegated, work)  BY DEF Goes
    <3>2. pc'[x] = pc[x] /\ waiting'[x] = waiting[x] /\ from'[x] = from[x] /\ from[x] \in Teams
          /\ delegated'[x] = delegated[x]
          BY <1>3 DEF Types
    <3>3. \A p \in Teams : Same(c, x, p, net, delegated, work, msgs', delegated', work')
          BY <2>3
    <3>4. Protocol(c, x, pc[x], waiting[x], from[x], msgs', delegated', work')
          BY <3>1, <3>2, <3>3, ProtocolFrame
    <3> QED BY <3>2, <3>4
  <2>5. Protocol(c, t, pc'[t], waiting'[t], from'[t], msgs', delegated', work')
    <3>1. (\A p \in Teams : None(c, t, p, net, delegated, work)) /\ delegated[t] = {}
          BY <1>3 DEF Protocol
    <3>2. \A p \in Teams : None(c, t, p, msgs', delegated', work')
          BY <2>3, <3>1, SamePair
    <3>3. pc'[t] = "end" /\ delegated'[t] = {}  BY <1>3, <3>1 DEF Types
    <3> QED BY <3>2, <3>3 DEF Protocol, None, Nothing
  <2> QED BY <2>4, <2>5
<1> QED BY <1>1, <1>2, <1>3 DEF Round, Ending


\* A network in which all is as in msgs for x.
LEMMA GoesSame ==
  ASSUME Types, NEW c, NEW x \in Teams, NEW net, Goes(c, x, msgs),
         \A p \in Teams : Same(c, x, p, msgs, delegated, work, net, delegated, work)
  PROVE  Goes(c, x, net)
<1>1. from[x] \in Teams  BY DEF Types
<1>2. Protocol(c, x, pc[x], waiting[x], from[x], msgs, delegated, work)  BY DEF Goes
<1>3. Protocol(c, x, pc[x], waiting[x], from[x], net, delegated, work)
      BY <1>1, <1>2, ProtocolFrame
<1> QED BY <1>3 DEF Goes

\* An action that reads a message that is not of the protocol.
LEMMA ReadOther ==
  ASSUME NEW t \in Teams, NEW q \in Teams, NEW c, Types, msgs[q][t] # <<>>,
         Head(msgs[q][t]).counter # c \/ Head(msgs[q][t]).code \notin {1, 2, 3},
         \A x \in Teams : Goes(c, x, msgs)
  PROVE  \A x \in Teams : Goes(c, x, Received(q, t))
<1> DEFINE m == Head(msgs[q][t])
           net == Received(q, t)
<1>1. ASSUME NEW a \in Teams, NEW b \in Teams, NEW k, k \in {1, 2, 3}
      PROVE  Num(net[a][b], c, k) = Num(msgs[a][b], c, k)
  <2>1. msgs \in Nets(Messages)  BY DEF Types
  <2>2. a # q \/ b # t \/ m.counter # c \/ m.code # k  BY <1>1
  <2> QED BY <2>1, <2>2, ReceiveNums
<1> HIDE DEF net
<1>2. \A x, p \in Teams : Same(c, x, p, msgs, delegated, work, net, delegated, work)
      BY <1>1 DEF Same
<1>3. \A x \in Teams : Goes(c, x, net)  BY <1>2, GoesSame
<1> QED BY <1>3 DEF net

LEMMA AskGoes ==
  ASSUME Types, NEW t \in Teams, Ask(t), NEW c, Uniform(c), \A x \in Teams : Goes(c, x, msgs)
  PROVE  GoesOn(c)
<1> DEFINE net == msgs
           L == mpi_load[t]
           T == mpi_load_time[t]
           wait == FALSE
<1>1. net \in Nets(Messages) /\ L \in Loads /\ T \in Times /\ wait \in BOOLEAN  BY DEF Types
<1>2. Round(t, net, L, T, wait) /\ pc[t] = "get" /\ UNCHANGED <<from, delegated, work>>
      BY DEF Ask, copies
<1>3. Protocol(c, t, "get", wait, from[t], net, delegated, work)
  <2>1. waiting[t] = FALSE  BY DEF Ask, Types
  <2>2. Goes(c, t, msgs)  OBVIOUS
  <2> QED BY <1>2, <2>1, <2>2 DEF Goes
<1>4. c = execution_counter[t] /\ (wait => waiting[t]) /\ \A x \in Teams \ {t} : Goes(c, x, net)
      BY DEF Uniform
<1> HIDE DEF net, L, T, wait
<1> QED BY <1>1, <1>2, <1>3, <1>4, RoundProtocol

LEMMA GetOtherGoes ==
  ASSUME Types, SelfNotices, NEW t \in Teams, NEW q \in Teams, GetNotice(t, q) \/ GetOutdated(t, q),
         NEW c, Uniform(c), \A x \in Teams : Goes(c, x, msgs)
  PROVE  GoesOn(c)
<1> DEFINE net == Received(q, t)
           wait == waiting[t]
<1>1. /\ msgs[q][t] # <<>> /\ pc[t] = "get" /\ c = execution_counter[t]
      /\ Head(msgs[q][t]).counter # c \/ Head(msgs[q][t]).code = 4
      /\ UNCHANGED <<from, delegated, work>>
      BY DEF GetNotice, GetOutdated, Arrived, Outdated, Uniform, copies
<1>2. \A x \in Teams : Goes(c, x, net)  BY <1>1, ReadOther
<1>3. net \in Nets(Messages) /\ wait \in BOOLEAN
  <2>1. wait \in BOOLEAN  BY DEF Types
  <2> QED BY <1>1, <2>1, ReadFacts
<1>4. \E L \in Loads : \E T \in Times : Round(t, net, L, T, wait)
  <2>1. CASE GetNotice(t, q)
    <3> DEFINE m == Head(msgs[q][t])
               L == [mpi_load[t] EXCEPT ![q] = m.load]
               T == [mpi_load_time[t] EXCEPT ![q] = m.time]
    <3>1. m.code = 4  BY <2>1 DEF GetNotice, Arrived
    <3>2. m \in Messages  BY <1>1, ReadFacts
    <3>3. m.time \in Nat /\ m.load = Some  BY <3>1, <3>2, MessageFacts
    <3>4. Round(t, net, L, T, wait)  BY <2>1 DEF GetNotice
    <3>5. L \in Loads /\ T \in Times
      <4> HIDE DEF m
      <4> QED BY <3>3 DEF Types, Loads, Times
    <3> QED BY <3>4, <3>5
  <2>2. CASE GetOutdated(t, q)
    <3>1. Round(t, net, mpi_load[t], mpi_load_time[t], wait)  BY <2>2 DEF GetOutdated
    <3>2. mpi_load[t] \in Loads /\ mpi_load_time[t] \in Times  BY DEF Types
    <3> QED BY <3>1, <3>2
  <2> QED BY <2>1, <2>2
<1>5. PICK L \in Loads, T \in Times : Round(t, net, L, T, wait)  BY <1>4
<1>6. Protocol(c, t, "get", wait, from[t], net, delegated, work)  BY <1>1, <1>2 DEF Goes
<1>7. (wait => waiting[t]) /\ \A x \in Teams \ {t} : Goes(c, x, net)  BY <1>2
<1> HIDE DEF net, wait
<1> QED BY <1>1, <1>3, <1>5, <1>6, <1>7, RoundProtocol


\* What is between two teams is right in the network net, for x's request to p alone
\* may have changed.
LEMMA WaitsOn ==
  ASSUME NEW c, NEW x \in Teams, NEW p \in Teams, NEW loc, NEW wait, NEW net, NEW dels, NEW w,
         NEW net2, NEW dels2, NEW w2,
         Waits(c, x, p, loc, wait, net, dels, w), dels2[x] = dels[x],
         \A u \in Teams \ {p} : Same(c, x, u, net, dels, w, net2, dels2, w2)
  PROVE  Waits(c, x, p, loc, wait, net2, dels2, w2)
<1>1. \A u \in Teams \ {p} : None(c, x, u, net2, dels2, w2)  BY SamePair DEF Waits
<1> QED BY <1>1 DEF Waits

LEMMA GetRequestGoes ==
  ASSUME NEW t \in Teams, NEW q \in Teams, NEW c, Types, SelfNotices, GetRequest(t, q),
         Uniform(c), \A x \in Teams : Goes(c, x, msgs)
  PROVE  GoesOn(c)
<1> DEFINE m == Head(msgs[q][t])
           L == [MergedLoads(t, m) EXCEPT ![q] = Idle]
           T == [MergedTimes(t, m) EXCEPT ![q] = m.time]
           r == Refusal(t, Idle, L, T)
           rec == Received(q, t)
           net == Send(rec, t, q, r)
           wait == waiting[t]
<1>1. /\ msgs[q][t] # <<>> /\ m.code = 1 /\ m.counter = c /\ pc[t] = "get"
      /\ c = execution_counter[t] /\ UNCHANGED <<from, delegated, work>>
      BY DEF GetRequest, Arrived, Uniform, copies
<1>2. /\ rec \in Nets(Messages) /\ m \in Messages /\ q # t
      /\ L \in Loads /\ T \in Times
  <2>1. m.code # 4 /\ m.code \in {1, 3}  BY <1>1
  <2> QED BY <1>1, <2>1, ReadFacts, Zenon
<1>3. Round(t, net, L, T, wait)  BY DEF GetRequest
<1>4. execution_counter[t] \in Counters /\ time_stamp[t] \in Nat /\ wait \in BOOLEAN
      /\ msgs \in Nets(Messages) /\ from[t] \in Teams /\ from[q] \in Teams
      BY DEF Types
<1>5. ReadOne(rec, q, t, c, 1)  BY <1>1, <1>4, ReadOneFacts
<1> HIDE DEF m, L, T, rec
<1>7. r \in Messages  BY <1>1, <1>2, <1>4, NewMessages
<1>8. r.counter = c /\ r.code = 3  BY <1>1 DEF Refusal
<1> HIDE DEF r
<1>9. net \in Nets(Messages)  BY <1>2, <1>7, SentType
<1>10. WriteOne(rec, net, t, q, c, 3)  BY <1>2, <1>7, <1>8, WriteOneFacts
<1> HIDE DEF net, wait
<1>12. \A x, p \in Teams : x # q \/ p # t => Same(c, x, p, msgs, delegated, work, net, delegated, work)
      BY <1>5, <1>10 DEF ReadOne, WriteOne, Same
<1>13. \A x \in Teams \ {q} : Goes(c, x, net)  BY <1>12, GoesSame
<1>14. Goes(c, q, net)
  <2>1. Protocol(c, q, pc[q], waiting[q], from[q], msgs, delegated, work)  BY DEF Goes
  <2>2. pc[q] \in {"busy", "drain", "get", "recv", "end"} /\ waiting[q] \in BOOLEAN  BY DEF Types
  <2>3. pc[q] = "end" \/ /\ Waits(c, q, t, pc[q], waiting[q], msgs, delegated, work)
                         /\ IsSent(c, q, t, msgs, delegated, work)
    <3>1. Num(msgs[q][t], c, 1) # 0 /\ from[q] \in Teams  BY <1>4, <1>5 DEF ReadOne
    <3> QED BY <2>1, <2>2, <3>1, Locate
  <2>4. CASE pc[q] = "end"
    <3>1. \A p \in Teams : Num(net[p][q], c, 2) = Num(msgs[p][q], c, 2)
          BY <1>5, <1>10 DEF ReadOne, WriteOne
    <3> QED BY <2>1, <2>4, <3>1 DEF Protocol, Goes
  <2>5. CASE /\ Waits(c, q, t, pc[q], waiting[q], msgs, delegated, work)
             /\ IsSent(c, q, t, msgs, delegated, work)
    <3>1. Waits(c, q, t, pc[q], waiting[q], net, delegated, work)
          BY <1>12, <2>5, WaitsOn
    <3>2. IsRefused(c, q, t, net, delegated, work)
      <4>1. Num(rec[q][t], c, 1) = 0 /\ Num(rec[t][q], c, 2) = 0 /\ Num(rec[t][q], c, 3) = 0
            BY <1>2, <1>5, <2>5 DEF IsSent, ReadOne
      <4>2. Num(net[q][t], c, 1) = 0 /\ Num(net[t][q], c, 2) = 0 /\ Num(net[t][q], c, 3) = 1
            BY <1>2, <1>10, <4>1 DEF WriteOne
      <4> QED BY <2>5, <4>2 DEF IsSent, IsRefused
    <3>3. Asked(c, q, t, net, delegated, work)  BY <3>2, Stages
    <3> QED BY <3>1, <3>3, WaitsProtocol DEF Goes
  <2> QED BY <2>3, <2>4, <2>5
<1>15. Protocol(c, t, "get", wait, from[t], net, delegated, work)
  <2>1. Goes(c, t, net)  BY <1>2, <1>13
  <2> QED BY <1>1, <2>1 DEF Goes, wait
<1>16. \A x \in Teams \ {t} : Goes(c, x, net)  BY <1>13, <1>14
<1>17. wait => waiting[t]  BY DEF wait
<1>18. L \in Loads /\ T \in Times /\ wait \in BOOLEAN /\ pc[t] = "get" /\ c = execution_counter[t]
       /\ UNCHANGED <<from, delegated, work>>
       BY <1>1, <1>2, <1>4
<1> QED BY <1>3, <1>9, <1>15, <1>16, <1>17, <1>18, RoundProtocol

LEMMA GetRefusalGoes ==
  ASSUME NEW t \in Teams, NEW p \in Teams, NEW c, Types, SelfNotices, GetRefusal(t, p),
         Uniform(c), \A x \in Teams : Goes(c, x, msgs)
  PROVE  GoesOn(c)
<1> DEFINE m == Head(msgs[p][t])
           L == [MergedLoads(t, m) EXCEPT ![p] = m.load]
           T == [MergedTimes(t, m) EXCEPT ![p] = m.time]
           net == Received(p, t)
           wait == FALSE
<1>1. /\ msgs[p][t] # <<>> /\ m.code = 3 /\ m.counter = c /\ pc[t] = "get"
      /\ c = execution_counter[t] /\ UNCHANGED <<from, delegated, work>>
      BY DEF GetRefusal, Arrived, Uniform, copies
<1>2. net \in Nets(Messages) /\ m \in Messages /\ T \in Times
  <2>1. m.code # 4 /\ m.code \in {1, 3}  BY <1>1
  <2> QED BY <1>1, <2>1, ReadFacts, Zenon
<1>3. L \in Loads
  <2>1. m.load \in {Idle, Some} /\ m.loads \in Loads /\ m.times \in Times
        BY <1>1, <1>2, MessageFacts
  <2>2. MergedLoads(t, m) \in Loads  BY <2>1, MergedTypes
  <2> QED BY <2>1, <2>2 DEF Loads
<1>4. Round(t, net, L, T, wait)  BY DEF GetRefusal
<1>5. msgs \in Nets(Messages) /\ from[t] \in Teams /\ pc[t] \in {"busy", "drain", "get", "recv", "end"}
      /\ waiting[t] \in BOOLEAN
      BY DEF Types
<1>6. ReadOne(net, p, t, c, 3)  BY <1>1, <1>5, ReadOneFacts
<1> HIDE DEF m, L, T, net
<1>8. \A x, u \in Teams : x # t \/ u # p => Same(c, x, u, msgs, delegated, work, net, delegated, work)
      BY <1>6 DEF ReadOne, Same
<1>9. \A x \in Teams \ {t} : Goes(c, x, net)  BY <1>8, GoesSame
<1>10. /\ Waits(c, t, p, pc[t], waiting[t], msgs, delegated, work)
       /\ IsRefused(c, t, p, msgs, delegated, work)
  <2>1. Protocol(c, t, pc[t], waiting[t], from[t], msgs, delegated, work)  BY DEF Goes
  <2>2. Num(msgs[p][t], c, 3) # 0 /\ from[t] \in Teams /\ pc[t] # "end"
        /\ pc[t] \in {"busy", "drain", "get", "recv", "end"} /\ waiting[t] \in BOOLEAN
        BY <1>1, <1>5, <1>6 DEF ReadOne
  <2> QED BY <2>1, <2>2, Locate
<1>11. Protocol(c, t, "get", wait, from[t], net, delegated, work)
  <2>1. \A u \in Teams \ {p} : None(c, t, u, net, delegated, work)
        BY <1>8, <1>10, SamePair DEF Waits
  <2>2. None(c, t, p, net, delegated, work)
    <3>1. p # t  BY <1>10 DEF Waits
    <3>2. Num(net[t][p], c, 1) = 0 /\ Num(net[p][t], c, 2) = 0
          BY <1>6, <1>10, <3>1 DEF ReadOne, IsRefused
    <3>3. Num(net[p][t], c, 3) = 0  BY <1>6, <1>10 DEF ReadOne, IsRefused
    <3> QED BY <1>10, <3>2, <3>3 DEF IsRefused, None, Nothing
  <2>3. delegated[t] = {}  BY <1>10 DEF Waits
  <2> QED BY <2>1, <2>2, <2>3 DEF Protocol
<1>12. (wait => waiting[t]) /\ wait \in BOOLEAN  OBVIOUS
<1> HIDE DEF wait
<1>13. T \in Times /\ net \in Nets(Messages) /\ pc[t] = "get" /\ c = execution_counter[t]
       /\ UNCHANGED <<from, delegated, work>>
       BY <1>1, <1>2
<1> QED BY <1>3, <1>4, <1>9, <1>11, <1>12, <1>13, RoundProtocol


\* A step in which nothing changes for other teams than t.
LEMMA OthersGo ==
  ASSUME NEW t \in Teams, NEW c, Types, \A x \in Teams : Goes(c, x, msgs),
         \A x \in Teams \ {t} : /\ pc'[x] = pc[x] /\ waiting'[x] = waiting[x] /\ from'[x] = from[x]
                                /\ delegated'[x] = delegated[x],
         \A x \in Teams \ {t} : \A p \in Teams :
           Same(c, x, p, msgs, delegated, work, msgs', delegated', work'),
         Protocol(c, t, pc'[t], waiting'[t], from'[t], msgs', delegated', work')
  PROVE  GoesOn(c)
<1>1. ASSUME NEW x \in Teams \ {t}
      PROVE  Protocol(c, x, pc'[x], waiting'[x], from'[x], msgs', delegated', work')
  <2>1. Protocol(c, x, pc[x], waiting[x], from[x], msgs, delegated, work)  BY DEF Goes
  <2>2. from[x] \in Teams  BY DEF Types
  <2>3. Protocol(c, x, pc[x], waiting[x], from[x], msgs', delegated', work')
        BY <2>1, <2>2, ProtocolFrame
  <2> QED BY <2>3
<1> QED BY <1>1 DEF GoesOn

LEMMA GetEndGoes ==
  ASSUME NEW t \in Teams, NEW q \in Teams, NEW c, Types, GetEnd(t, q),
         Uniform(c), \A x \in Teams : Goes(c, x, msgs),
         \A p \in Teams : Num(msgs[p][t], c, 2) = 0 /\ delegated[p] = {} /\ work[p][t] = <<>>
  PROVE  GoesOn(c)
<1>1. /\ msgs[q][t] # <<>> /\ Head(msgs[q][t]).code = 6 /\ Head(msgs[q][t]).counter = c
      /\ msgs' = Received(q, t) /\ pc' = [pc EXCEPT ![t] = "end"]
      /\ UNCHANGED <<waiting, from, delegated, work>>
      BY DEF GetEnd, Arrived, Uniform, copies
<1>2. msgs \in Nets(Messages) /\ pc \in [Teams -> {"busy", "drain", "get", "recv", "end"}]
      BY DEF Types
<1>3. ReadOne(msgs', q, t, c, 6)  BY <1>1, <1>2, ReadOneFacts
<1>4. \A x, p \in Teams : Same(c, x, p, msgs, delegated, work, msgs', delegated', work')
  <2>1. delegated' = delegated /\ work' = work  BY <1>1
  <2>2. \A a, b \in Teams : \A k \in {1, 2, 3} : Num(msgs'[a][b], c, k) = Num(msgs[a][b], c, k)
        BY <1>3 DEF ReadOne
  <2> QED BY <2>1, <2>2 DEF Same
<1>5. Protocol(c, t, pc'[t], waiting'[t], from'[t], msgs', delegated', work')
  <2>1. pc'[t] = "end"  BY <1>1, <1>2
  <2>2. \A p \in Teams : Num(msgs'[p][t], c, 2) = 0 /\ Of(delegated'[p], t) = {} /\ work'[p][t] = <<>>
        BY <1>1, <1>3 DEF ReadOne, Of
  <2>3. delegated'[t] = {}  BY <1>1
  <2> QED BY <2>1, <2>2, <2>3 DEF Protocol
<1> QED BY <1>1, <1>2, <1>4, <1>5, OthersGo

LEMMA GetAcceptedGoes ==
  ASSUME NEW t \in Teams, NEW p \in Teams, NEW c, Types, GetAccepted(t, p),
         Uniform(c), \A x \in Teams : Goes(c, x, msgs)
  PROVE  GoesOn(c)
<1>1. /\ msgs[p][t] # <<>> /\ Head(msgs[p][t]).code = 2 /\ Head(msgs[p][t]).counter = c
      /\ msgs' = Received(p, t) /\ pc' = [pc EXCEPT ![t] = "recv"] /\ from' = [from EXCEPT ![t] = p]
      /\ UNCHANGED <<waiting, delegated, work>>
      BY DEF GetAccepted, Arrived, Uniform, copies
<1>2. msgs \in Nets(Messages) /\ pc \in [Teams -> {"busy", "drain", "get", "recv", "end"}]
      /\ from \in [Teams -> Teams] /\ waiting[t] \in BOOLEAN
      BY DEF Types
<1>3. ReadOne(msgs', p, t, c, 2)  BY <1>1, <1>2, ReadOneFacts
<1>4. \A x, u \in Teams : x # t \/ u # p =>
        Same(c, x, u, msgs, delegated, work, msgs', delegated', work')
  <2>1. delegated' = delegated /\ work' = work  BY <1>1
  <2>2. \A a, b \in Teams : \A k \in {1, 2, 3} :
          (a = p /\ b = t /\ k = 2) \/ Num(msgs'[a][b], c, k) = Num(msgs[a][b], c, k)
        BY <1>3 DEF ReadOne
  <2> QED BY <2>1, <2>2 DEF Same
<1>5. /\ Waits(c, t, p, pc[t], waiting[t], msgs, delegated, work)
      /\ IsAccepted(c, t, p, msgs, delegated, work)
  <2>1. Protocol(c, t, pc[t], waiting[t], from[t], msgs, delegated, work)  BY DEF Goes
  <2>2. Num(msgs[p][t], c, 2) # 0 /\ from[t] \in Teams
        /\ pc[t] \in {"busy", "drain", "get", "recv", "end"}
        BY <1>2, <1>3 DEF ReadOne
  <2> QED BY <2>1, <2>2, Locate
<1>6. Protocol(c, t, pc'[t], waiting'[t], from'[t], msgs', delegated', work')
  <2>1. pc'[t] = "recv" /\ from'[t] = p /\ p # t /\ delegated'[t] = {}
        BY <1>1, <1>2, <1>5 DEF Waits
  <2>2. \A u \in Teams \ {p} : None(c, t, u, msgs', delegated', work')
        BY <1>4, <1>5, SamePair DEF Waits
  <2>3. /\ Num(msgs'[t][p], c, 1) = 0 /\ Num(msgs'[p][t], c, 2) = 0 /\ Num(msgs'[p][t], c, 3) = 0
        BY <1>3, <1>5, <2>1 DEF ReadOne, IsAccepted
  <2>4. Promises(c, t, p, msgs', delegated', work')
        BY <1>1, <1>5, <2>3 DEF IsAccepted, Promises, Accepts
  <2> QED BY <2>1, <2>2, <2>4 DEF Protocol
<1> QED BY <1>1, <1>2, <1>4, <1>6, OthersGo

LEMMA InstallGoes ==
  ASSUME NEW t \in Teams, NEW c, Types, Install(t),
         Uniform(c), \A x \in Teams : Goes(c, x, msgs)
  PROVE  /\ GoesOn(c)
         /\ from[t] # t /\ work'[from[t]][t] = <<>>
         /\ \A a, b \in Teams : a # from[t] \/ b # t => work'[a][b] = work[a][b]
<1> DEFINE p == from[t]
           a == Notice(t, time_stamp[t] + 1)
<1>1. /\ work[p][t] # <<>> /\ pc[t] = "recv" /\ pc' = [pc EXCEPT ![t] = "busy"]
      /\ work' = [work EXCEPT ![p][t] = Tail(@)]
      /\ msgs' = msgs \/ msgs' = Send(msgs, t, Team0, a)
      /\ UNCHANGED <<waiting, from, delegated>>
      BY DEF Install
<1>2. /\ msgs \in Nets(Messages) /\ pc \in [Teams -> {"busy", "drain", "get", "recv", "end"}]
      /\ from[t] \in Teams /\ p \in Teams /\ work \in Nets(Copies) /\ work[p][t] \in Seq(Copies)
      /\ execution_counter[t] \in Counters /\ time_stamp[t] \in Nat
      /\ mpi_load[t] \in Loads /\ mpi_load_time[t] \in Times
      BY DEF Types, Nets
<1>3. a \in Messages
  <2>1. time_stamp[t] + 1 \in Nat  BY <1>2
  <2> QED BY <1>2, <2>1, NewMessages
<1>4. a.code = 4 /\ a.counter = c  BY DEF Notice, Uniform
<1> HIDE DEF a
<1>5. Team0 \in Teams  BY TeamsAssumption
<1>6. \A x, y \in Teams : \A k \in {1, 2, 3} : Num(msgs'[x][y], c, k) = Num(msgs[x][y], c, k)
  <2>1. CASE msgs' = msgs  BY <2>1
  <2>2. CASE msgs' = Send(msgs, t, Team0, a)
    <3>1. WriteOne(msgs, msgs', t, Team0, c, 4)  BY <1>2, <1>3, <1>4, <1>5, <2>2, WriteOneFacts
    <3> QED BY <3>1 DEF WriteOne
  <2> QED BY <1>1, <2>1, <2>2
<1>7. /\ from[t] # t /\ Promises(c, t, p, msgs, delegated, work)
      /\ \A u \in Teams \ {p} : None(c, t, u, msgs, delegated, work)
  <2>1. Protocol(c, t, pc[t], waiting[t], from[t], msgs, delegated, work)  BY DEF Goes
  <2> QED BY <1>1, <2>1 DEF Protocol
<1>8. Len(work[p][t]) = 1 /\ Of(delegated[p], t) = {}
      BY <1>1, <1>7 DEF Promises, Accepts, Coming
<1>9. /\ work'[p][t] = <<>>
      /\ \A x, y \in Teams : x # p \/ y # t => work'[x][y] = work[x][y]
  <2>1. Tail(work[p][t]) = <<>>  BY <1>2, <1>8, TailOfOne
  <2>2. work' = [work EXCEPT ![p] = [work[p] EXCEPT ![t] = <<>>]]  BY <1>1, <2>1
  <2> HIDE DEF p
  <2> QED BY <1>2, <2>2 DEF Nets
<1> HIDE DEF p
<1>10. \A x, u \in Teams : x # t \/ u # p =>
        Same(c, x, u, msgs, delegated, work, msgs', delegated', work')
      BY <1>1, <1>6, <1>9 DEF Same
<1>11. Protocol(c, t, pc'[t], waiting'[t], from'[t], msgs', delegated', work')
  <2>1. \A u \in Teams \ {p} : None(c, t, u, msgs', delegated', work')
        BY <1>7, <1>10, SamePair
  <2>2. Num(msgs'[t][p], c, 1) = 0 /\ Num(msgs'[p][t], c, 2) = 0 /\ Num(msgs'[p][t], c, 3) = 0
        BY <1>2, <1>6, <1>7 DEF Promises, Accepts
  <2>3. None(c, t, p, msgs', delegated', work')
        BY <1>1, <1>8, <1>9, <2>2 DEF None, Nothing
  <2>4. pc'[t] = "busy"  BY <1>1, <1>2
  <2> QED BY <2>1, <2>3, <2>4 DEF Protocol
<1>12. GoesOn(c)  BY <1>1, <1>2, <1>10, <1>11, OthersGo
<1> QED BY <1>7, <1>9, <1>12 DEF p


\* A step of team t, which has work or is about to get idle, that changes what
\* is between it and q.
Handles(t, q, c) ==
  /\ pc[t] \in {"busy", "drain"} /\ q \in Teams \ {t}
  /\ UNCHANGED <<pc, waiting, from>>
  /\ \A x \in Teams \ {t} : delegated'[x] = delegated[x]
  /\ \A x, p \in Teams : x # q \/ p # t => Same(c, x, p, msgs, delegated, work, msgs', delegated', work')

LEMMA PairGoes ==
  ASSUME NEW t \in Teams, NEW q, NEW c, Types, \A x \in Teams : Goes(c, x, msgs), Handles(t, q, c),
         Protocol(c, q, pc[q], waiting[q], from[q], msgs', delegated', work')
  PROVE  GoesOn(c)
<1>1. ASSUME NEW x \in Teams \ {q}
      PROVE  Protocol(c, x, pc'[x], waiting'[x], from'[x], msgs', delegated', work')
  <2>1. Protocol(c, x, pc[x], waiting[x], from[x], msgs, delegated, work)  BY DEF Goes
  <2>2. from[x] \in Teams  BY DEF Types
  <2>3. pc[x] \in {"busy", "drain"} \/ delegated'[x] = delegated[x]  BY DEF Handles
  <2>4. \A p \in Teams : Same(c, x, p, msgs, delegated, work, msgs', delegated', work')
        BY DEF Handles
  <2>5. Protocol(c, x, pc[x], waiting[x], from[x], msgs', delegated', work')
        BY <2>1, <2>2, <2>3, <2>4, ProtocolFrame
  <2> QED BY <2>5 DEF Handles
<1>2. q \in Teams /\ pc' = pc /\ waiting' = waiting /\ from' = from  BY DEF Handles
<1> QED BY <1>1, <1>2 DEF GoesOn

LEMMA PairAsked ==
  ASSUME NEW t \in Teams, NEW q, NEW c, Types, \A x \in Teams : Goes(c, x, msgs), Handles(t, q, c),
         Waits(c, q, t, pc[q], waiting[q], msgs, delegated, work),
         Asked(c, q, t, msgs', delegated', work')
  PROVE  GoesOn(c)
<1>1. q \in Teams \ {t}  BY DEF Handles
<1>2. delegated'[q] = delegated[q]
      /\ \A u \in Teams \ {t} : Same(c, q, u, msgs, delegated, work, msgs', delegated', work')
      BY <1>1 DEF Handles
<1>3. Waits(c, q, t, pc[q], waiting[q], msgs', delegated', work')  BY <1>1, <1>2, WaitsOn
<1>4. Protocol(c, q, pc[q], waiting[q], from[q], msgs', delegated', work')
      BY <1>3, WaitsProtocol
<1> QED BY <1>4, PairGoes

LEMMA PairPromised ==
  ASSUME NEW t \in Teams, NEW q, NEW c, Types, \A x \in Teams : Goes(c, x, msgs), Handles(t, q, c),
         Awaits(c, q, t, pc[q], from[q], msgs, delegated, work),
         Promises(c, q, t, msgs', delegated', work')
  PROVE  GoesOn(c)
<1>1. q \in Teams \ {t}  BY DEF Handles
<1>2. delegated'[q] = delegated[q]
      /\ \A u \in Teams \ {t} : Same(c, q, u, msgs, delegated, work, msgs', delegated', work')
      BY <1>1 DEF Handles
<1>3. \A u \in Teams \ {t} : None(c, q, u, msgs', delegated', work')
      BY <1>2, SamePair DEF Awaits
<1>4. pc[q] = "recv" /\ from[q] = t  BY DEF Awaits
<1>5. delegated[q] = {}
  <2>1. Protocol(c, q, pc[q], waiting[q], from[q], msgs, delegated, work)  BY <1>1 DEF Goes
  <2> QED BY <1>4, <2>1 DEF Protocol
<1>6. Protocol(c, q, pc[q], waiting[q], from[q], msgs', delegated', work')
      BY <1>1, <1>2, <1>3, <1>4, <1>5 DEF Protocol
<1> QED BY <1>6, PairGoes

\* The request that a busy team reads, and what it has read.
LEMMA ReadsRequest ==
  ASSUME NEW t \in Teams, NEW q \in Teams, NEW c, Types, SelfNotices, Uniform(c),
         \A x \in Teams : Goes(c, x, msgs) /\ pc[x] # "end",
         Arrived(t, q, {1})
  PROVE  /\ q # t /\ Head(msgs[q][t]) \in Messages /\ Head(msgs[q][t]) \in In(msgs[q][t])
         /\ msgs[q][t] # <<>> /\ Head(msgs[q][t]).counter = c /\ Head(msgs[q][t]).code = 1
         /\ ReadOne(Received(q, t), q, t, c, 1)
         /\ Waits(c, q, t, pc[q], waiting[q], msgs, delegated, work)
         /\ IsSent(c, q, t, msgs, delegated, work)
<1>1. msgs[q][t] # <<>> /\ Head(msgs[q][t]).code = 1 /\ Head(msgs[q][t]).counter = c
      BY DEF Arrived, Uniform
<1>2. msgs \in Nets(Messages) /\ from[q] \in Teams /\ pc[q] \in {"busy", "drain", "get", "recv", "end"}
      BY DEF Types
<1>3. ReadOne(Received(q, t), q, t, c, 1)  BY <1>1, <1>2, ReadOneFacts
<1>4. Head(msgs[q][t]) \in Messages /\ Head(msgs[q][t]) \in In(msgs[q][t])  BY <1>1, ReadFacts
<1>5. q # t
  <2>1. Head(msgs[q][t]).code # 4  BY <1>1
  <2> QED BY <1>4, <2>1 DEF SelfNotices
<1>6. /\ Waits(c, q, t, pc[q], waiting[q], msgs, delegated, work)
      /\ IsSent(c, q, t, msgs, delegated, work)
  <2>1. Protocol(c, q, pc[q], waiting[q], from[q], msgs, delegated, work) /\ pc[q] # "end"
        BY DEF Goes
  <2>2. Num(msgs[q][t], c, 1) # 0  BY <1>3 DEF ReadOne
  <2> QED BY <1>2, <2>1, <2>2, Locate
<1> QED BY <1>1, <1>3, <1>4, <1>5, <1>6


\* A request is read, and message of kind j sent.
LEMMA ReadWriteSame ==
  ASSUME NEW t \in Teams, NEW q \in Teams \ {t}, NEW c, NEW j \in {2, 3}, NEW net,
         ReadOne(net, q, t, c, 1), WriteOne(net, msgs', t, q, c, j),
         IsSent(c, q, t, msgs, delegated, work)
  PROVE  /\ \A a, b \in Teams : \A k : (a = q /\ b = t /\ k = 1) \/ (a = t /\ b = q /\ k = j)
                                       \/ Num(msgs'[a][b], c, k) = Num(msgs[a][b], c, k)
         /\ Num(msgs'[q][t], c, 1) = 0 /\ Num(msgs'[t][q], c, j) = 1
         /\ \A k \in {2, 3} \ {j} : Num(msgs'[t][q], c, k) = 0
<1>1. \A a, b \in Teams : \A k : (a = q /\ b = t /\ k = 1) \/ Num(net[a][b], c, k) = Num(msgs[a][b], c, k)
      BY DEF ReadOne
<1>2. \A a, b \in Teams : \A k : (a = t /\ b = q /\ k = j) \/ Num(msgs'[a][b], c, k) = Num(net[a][b], c, k)
      BY DEF WriteOne
<1>3. Num(net[q][t], c, 1) = 0  BY DEF ReadOne, IsSent
<1>4. Num(net[t][q], c, 2) = 0 /\ Num(net[t][q], c, 3) = 0  BY <1>1 DEF IsSent
<1>5. Num(msgs'[t][q], c, j) = 1  BY <1>4 DEF WriteOne
<1>6. Num(msgs'[q][t], c, 1) = 0  BY <1>2, <1>3
<1>7. \A k \in {2, 3} \ {j} : Num(msgs'[t][q], c, k) = 0  BY <1>2, <1>4
<1>8. ASSUME NEW a \in Teams, NEW b \in Teams, NEW k,
             ~ (a = q /\ b = t /\ k = 1), ~ (a = t /\ b = q /\ k = j)
      PROVE  Num(msgs'[a][b], c, k) = Num(msgs[a][b], c, k)
      BY <1>1, <1>2, <1>8
<1> QED BY <1>5, <1>6, <1>7, <1>8

LEMMA RejectGoes ==
  ASSUME NEW t \in Teams, NEW q \in Teams, NEW c, Types, SelfNotices, Reject(t, q),
         Uniform(c), \A x \in Teams : Goes(c, x, msgs) /\ pc[x] # "end"
  PROVE  GoesOn(c)
<1> DEFINE m == Head(msgs[q][t])
           L == [MergedLoads(t, m) EXCEPT ![q] = Some]
           T == [MergedTimes(t, m) EXCEPT ![q] = m.time]
           r == Refusal(t, Some, L, T)
           rec == Received(q, t)
<1>1. Arrived(t, q, {1}) /\ pc[t] = "busy" /\ UNCHANGED <<pc, waiting, from, delegated, work>>
      BY DEF Reject, copies
<1>2. /\ q # t /\ m.code = 1 /\ msgs[q][t] # <<>>
      /\ ReadOne(rec, q, t, c, 1)
      /\ Waits(c, q, t, pc[q], waiting[q], msgs, delegated, work)
      /\ IsSent(c, q, t, msgs, delegated, work)
      BY <1>1, ReadsRequest
<1>3. rec \in Nets(Messages) /\ L \in Loads /\ T \in Times
  <2>1. m.code \in {1, 3}  BY <1>2
  <2> QED BY <1>2, <2>1, ReadFacts, Zenon
<1>4. /\ Know(t, L, T)
      /\ msgs' = Send(rec, t, q, Refusal(t, Some, mpi_load'[t], mpi_load_time'[t]))
      BY DEF Reject, LearnRequest
<1> HIDE DEF m, L, T
<1>5. msgs' = Send(rec, t, q, r)
  <2>1. mpi_load'[t] = L /\ mpi_load_time'[t] = T  BY <1>3, <1>4, LearnTypes
  <2> QED BY <1>4, <2>1
<1>6. r.counter = c /\ r.code = 3  BY DEF Refusal, Uniform
<1>7. r \in Messages
  <2>1. execution_counter[t] \in Counters /\ time_stamp[t] \in Nat  BY DEF Types
  <2> QED BY <1>3, <2>1, NewMessages
<1> HIDE DEF r, rec
<1>8. WriteOne(rec, msgs', t, q, c, 3)  BY <1>3, <1>5, <1>6, <1>7, WriteOneFacts
<1>9. /\ \A a, b \in Teams : \A k : (a = q /\ b = t /\ k = 1) \/ (a = t /\ b = q /\ k = 3)
                                       \/ Num(msgs'[a][b], c, k) = Num(msgs[a][b], c, k)
      /\ Num(msgs'[q][t], c, 1) = 0 /\ Num(msgs'[t][q], c, 3) = 1 /\ Num(msgs'[t][q], c, 2) = 0
  <2>1. q \in Teams \ {t}  BY <1>2
  <2> QED BY <1>2, <1>8, <2>1, ReadWriteSame
<1>10. IsRefused(c, q, t, msgs', delegated', work')
  <2>1. Of(delegated'[t], q) = {} /\ work'[t][q] = <<>>  BY <1>1, <1>2 DEF IsSent
  <2> QED BY <1>9, <2>1 DEF IsRefused
<1>11. Asked(c, q, t, msgs', delegated', work')  BY <1>10, Stages
<1>12. \A x, p \in Teams : x # q \/ p # t => Same(c, x, p, msgs, delegated, work, msgs', delegated', work')
  <2>1. delegated' = delegated /\ work' = work  BY <1>1
  <2> QED BY <1>9, <2>1 DEF Same
<1>13. Handles(t, q, c)  BY <1>1, <1>2, <1>12 DEF Handles
<1> QED BY <1>2, <1>11, <1>13, PairAsked


\* The only copy between two teams.
LEMMA FirstCopy ==
  ASSUME NEW t \in Teams, NEW q \in Teams, Types, work[t][q] = <<>>,
         NEW m \in Copies, work' = Send(work, t, q, m)
  PROVE  /\ Len(work'[t][q]) = 1 /\ work'[t][q] # <<>>
         /\ \A a, b \in Teams : a # t \/ b # q => work'[a][b] = work[a][b]
<1> DEFINE M == Copies
<1>1. work \in Nets(M) /\ m \in M  BY DEF Types
<1> HIDE DEF M
<1>2. Send(work, t, q, m)[t][q] = Append(work[t][q], m)  BY <1>1, SendPlaces
<1>3. \A a, b \in Teams : a # t \/ b # q => Send(work, t, q, m)[a][b] = work[a][b]
      BY <1>1, SendPlaces
<1>4. Len(Append(<<>>, m)) = 1 /\ Append(<<>>, m) # <<>>  OBVIOUS
<1> QED BY <1>2, <1>3, <1>4

LEMMA GiveWorkGoes ==
  ASSUME NEW t \in Teams, NEW q \in Teams, NEW c, Types, SelfNotices, GiveWork(t, q),
         Uniform(c), \A x \in Teams : Goes(c, x, msgs) /\ pc[x] # "end"
  PROVE  GoesOn(c)
<1> DEFINE m == Head(msgs[q][t])
           L == [MergedLoads(t, m) EXCEPT ![q] = Some]
           T == [MergedTimes(t, m) EXCEPT ![q] = m.time]
           w == Work(time_stamp[t], L, T)
           r == Accepted(t)
           rec == Received(q, t)
<1>1. Arrived(t, q, {1}) /\ pc[t] = "busy" /\ UNCHANGED <<pc, waiting, from, delegated>>
      BY DEF GiveWork
<1>2. /\ q # t /\ m.code = 1 /\ msgs[q][t] # <<>>
      /\ ReadOne(rec, q, t, c, 1)
      /\ Waits(c, q, t, pc[q], waiting[q], msgs, delegated, work)
      /\ IsSent(c, q, t, msgs, delegated, work)
      BY <1>1, ReadsRequest
<1>3. rec \in Nets(Messages) /\ L \in Loads /\ T \in Times
  <2>1. m.code \in {1, 3}  BY <1>2
  <2> QED BY <1>2, <2>1, ReadFacts, Zenon
<1>4. msgs' = Send(rec, t, q, r) /\ work' = Send(work, t, q, w)
      BY DEF GiveWork
<1> HIDE DEF m, L, T
<1>5. execution_counter[t] \in Counters /\ time_stamp[t] \in Nat  BY DEF Types
<1>6. r.counter = c /\ r.code = 2  BY DEF Accepted, Message, Uniform
<1>7. r \in Messages  BY <1>3, <1>5, NewMessages
<1>8. w \in Copies  BY <1>3, <1>5 DEF Work, Copies
<1> HIDE DEF r, rec, w
<1>9. WriteOne(rec, msgs', t, q, c, 2)  BY <1>3, <1>4, <1>6, <1>7, WriteOneFacts
<1>10. /\ \A a, b \in Teams : \A k : (a = q /\ b = t /\ k = 1) \/ (a = t /\ b = q /\ k = 2)
                                       \/ Num(msgs'[a][b], c, k) = Num(msgs[a][b], c, k)
       /\ Num(msgs'[q][t], c, 1) = 0 /\ Num(msgs'[t][q], c, 2) = 1 /\ Num(msgs'[t][q], c, 3) = 0
  <2>1. q \in Teams \ {t}  BY <1>2
  <2> QED BY <1>2, <1>9, <2>1, ReadWriteSame
<1>11. Of(delegated[t], q) = {} /\ work[t][q] = <<>>  BY <1>2 DEF IsSent
<1>12. /\ Len(work'[t][q]) = 1
       /\ \A a, b \in Teams : a # t \/ b # q => work'[a][b] = work[a][b]
       BY <1>4, <1>8, <1>11, FirstCopy
<1>13. IsAccepted(c, q, t, msgs', delegated', work')
  <2>1. Coming(q, delegated'[t], work'[t][q])  BY <1>1, <1>11, <1>12 DEF Coming
  <2> QED BY <1>10, <2>1 DEF IsAccepted
<1>14. Asked(c, q, t, msgs', delegated', work')  BY <1>13, Stages
<1>15. ASSUME NEW x \in Teams, NEW p \in Teams, x # q \/ p # t
       PROVE  Same(c, x, p, msgs, delegated, work, msgs', delegated', work')
  <2>1. /\ Num(msgs'[x][p], c, 1) = Num(msgs[x][p], c, 1)
        /\ Num(msgs'[p][x], c, 2) = Num(msgs[p][x], c, 2)
        /\ Num(msgs'[p][x], c, 3) = Num(msgs[p][x], c, 3)
        BY <1>10, <1>15
  <2>2. work'[p][x] = work[p][x]  BY <1>12, <1>15
  <2>3. delegated' = delegated  BY <1>1
  <2> QED BY <2>1, <2>2, <2>3 DEF Same
<1>16. Handles(t, q, c)  BY <1>1, <1>2, <1>15 DEF Handles
<1> QED BY <1>2, <1>14, <1>16, PairAsked

LEMMA DelegateGoes ==
  ASSUME NEW t \in Teams, NEW q \in Teams, NEW c, Types, SelfNotices, Delegate(t, q),
         Uniform(c), \A x \in Teams : Goes(c, x, msgs) /\ pc[x] # "end"
  PROVE  GoesOn(c)
<1> DEFINE d == [q |-> q, time |-> Head(msgs[q][t]).time, ok |-> FALSE]
<1>1. /\ Arrived(t, q, {1}) /\ pc[t] = "busy" /\ UNCHANGED <<pc, waiting, from, work>>
      /\ msgs' = Received(q, t) /\ delegated' = [delegated EXCEPT ![t] = @ \cup {d}]
      BY DEF Delegate, state, copies
<1>2. /\ q # t /\ ReadOne(msgs', q, t, c, 1)
      /\ Waits(c, q, t, pc[q], waiting[q], msgs, delegated, work)
      /\ IsSent(c, q, t, msgs, delegated, work)
      BY <1>1, ReadsRequest
<1>3. d.q = q /\ ~ d.ok  OBVIOUS
<1> HIDE DEF d
<1>4. /\ \A x \in Teams \ {t} : delegated'[x] = delegated[x]
      /\ delegated'[t] = delegated[t] \cup {d}
      BY <1>1 DEF Types
<1>5. Of(delegated[t], q) = {} /\ work[t][q] = <<>>  BY <1>2 DEF IsSent
<1>6. Of(delegated'[t], q) = {d} /\ \A x \in Teams \ {q} : Of(delegated'[t], x) = Of(delegated[t], x)
      BY <1>3, <1>4, <1>5 DEF Of
<1>7. \A a, b \in Teams : \A k : (a = q /\ b = t /\ k = 1) \/ Num(msgs'[a][b], c, k) = Num(msgs[a][b], c, k)
      BY <1>2 DEF ReadOne
<1>8. IsDelegated(c, q, t, msgs', delegated', work', d)
  <2>1. Num(msgs'[q][t], c, 1) = 0  BY <1>2 DEF ReadOne, IsSent
  <2>2. Num(msgs'[t][q], c, 2) = 0 /\ Num(msgs'[t][q], c, 3) = 0  BY <1>2, <1>7 DEF IsSent
  <2> QED BY <1>1, <1>5, <1>6, <2>1, <2>2 DEF IsDelegated
<1>9. Asked(c, q, t, msgs', delegated', work')  BY <1>3, <1>8, Stages
<1>10. ASSUME NEW x \in Teams, NEW p \in Teams, x # q \/ p # t
       PROVE  Same(c, x, p, msgs, delegated, work, msgs', delegated', work')
  <2>1. Of(delegated'[p], x) = Of(delegated[p], x)  BY <1>4, <1>6, <1>10
  <2>2. /\ Num(msgs'[x][p], c, 1) = Num(msgs[x][p], c, 1)
        /\ Num(msgs'[p][x], c, 2) = Num(msgs[p][x], c, 2)
        /\ Num(msgs'[p][x], c, 3) = Num(msgs[p][x], c, 3)
        BY <1>7, <1>10
  <2> QED BY <1>1, <2>1, <2>2 DEF Same
<1>11. Handles(t, q, c)  BY <1>1, <1>2, <1>4, <1>10 DEF Handles
<1> QED BY <1>2, <1>9, <1>11, PairAsked

\* A busy team gets no answers, and no other message matters.
LEMMA BusyReadsGoes ==
  ASSUME NEW t \in Teams, NEW q \in Teams, NEW c, Types, LearnNotice(t, q) \/ DropMessage(t, q),
         Uniform(c), \A x \in Teams : Goes(c, x, msgs)
  PROVE  GoesOn(c)
<1> DEFINE m == Head(msgs[q][t])
<1>1. /\ pc[t] = "busy" /\ msgs[q][t] # <<>> /\ msgs' = Received(q, t)
      /\ m.counter # c \/ m.code \in {2, 3, 4, 6}
      /\ UNCHANGED <<pc, waiting, from, delegated, work>>
      BY DEF LearnNotice, DropMessage, Arrived, Outdated, Uniform, state, copies
<1>2. \A p \in Teams : None(c, t, p, msgs, delegated, work)
  <2>1. Protocol(c, t, pc[t], waiting[t], from[t], msgs, delegated, work)  BY DEF Goes
  <2> QED BY <1>1, <2>1 DEF Protocol
<1>3. m.counter # c \/ m.code \notin {1, 2, 3}
  <2>1. Num(msgs[q][t], c, 2) = 0 /\ Num(msgs[q][t], c, 3) = 0  BY <1>2 DEF None, Nothing
  <2>2. msgs \in Nets(Messages)  BY DEF Types
  <2>3. ASSUME m.counter = c, m.code \in {2, 3} PROVE Num(msgs[q][t], c, m.code) # 0
        BY <1>1, <2>2, <2>3, ReceiveNum
  <2> QED BY <1>1, <2>1, <2>3
<1>4. \A x \in Teams : Goes(c, x, Received(q, t))  BY <1>1, <1>3, ReadOther
<1> QED BY <1>1, <1>4 DEF Goes, GoesOn

\* What a team without an end knows of a request in a delegation area.
LEMMA AreaHolds ==
  ASSUME NEW t \in Teams, NEW d \in delegated[t], NEW c, Types, \A x \in Teams : Goes(c, x, msgs)
  PROVE  /\ d.q \in Teams \ {t} /\ Of(delegated[t], d.q) = {d} /\ work[t][d.q] = <<>>
         /\ Num(msgs[d.q][t], c, 1) = 0 /\ Num(msgs[t][d.q], c, 3) = 0
         /\ ~ d.ok => /\ Num(msgs[t][d.q], c, 2) = 0
                      /\ Waits(c, d.q, t, pc[d.q], waiting[d.q], msgs, delegated, work)
         /\ d.ok => \/ /\ Num(msgs[t][d.q], c, 2) = 1
                       /\ Waits(c, d.q, t, pc[d.q], waiting[d.q], msgs, delegated, work)
                    \/ /\ Num(msgs[t][d.q], c, 2) = 0
                       /\ Awaits(c, d.q, t, pc[d.q], from[d.q], msgs, delegated, work)
<1> DEFINE q == d.q
<1>1. q \in Teams \ {t} /\ d \in Of(delegated[t], q)  BY DelegatedFacts DEF Of
<1> HIDE DEF q
<1>2. Protocol(c, q, pc[q], waiting[q], from[q], msgs, delegated, work)  BY <1>1 DEF Goes
<1>3. q \in Teams /\ from[q] \in Teams /\ pc[q] \in {"busy", "drain", "get", "recv", "end"} /\ d.ok \in BOOLEAN
      BY <1>1, DelegatedFacts DEF Types
<1>4. CASE ~ d.ok
  <2>1. /\ Waits(c, q, t, pc[q], waiting[q], msgs, delegated, work)
        /\ IsDelegated(c, q, t, msgs, delegated, work, d)
        BY <1>1, <1>2, <1>3, <1>4, Locate
  <2> QED BY <1>1, <1>4, <2>1 DEF IsDelegated, q
<1>5. CASE d.ok
  <2>1. /\ Of(delegated[t], q) = {d} /\ work[t][q] = <<>>
        /\ \/ /\ Waits(c, q, t, pc[q], waiting[q], msgs, delegated, work)
              /\ IsAccepted(c, q, t, msgs, delegated, work)
           \/ Awaits(c, q, t, pc[q], from[q], msgs, delegated, work)
        BY <1>1, <1>2, <1>3, <1>5, Locate
  <2>2. CASE /\ Waits(c, q, t, pc[q], waiting[q], msgs, delegated, work)
             /\ IsAccepted(c, q, t, msgs, delegated, work)
        BY <1>1, <1>5, <2>1, <2>2 DEF IsAccepted, q
  <2>3. CASE Awaits(c, q, t, pc[q], from[q], msgs, delegated, work)
        BY <1>1, <1>5, <2>1, <2>3 DEF Awaits, Promises, Accepts, q
  <2> QED BY <2>1, <2>2, <2>3
<1> QED BY <1>3, <1>4, <1>5


LEMMA StartsGoes ==
  ASSUME NEW t \in Teams, NEW d \in delegated[t], NEW c, Types, StartsFor(t, d), Uniform(c),
         \A x \in Teams : Goes(c, x, msgs)
  PROVE  GoesOn(c)
<1> DEFINE q == d.q
           e == [d EXCEPT !.ok = TRUE]
           r == Accepted(t)
<1>1. /\ pc[t] \in {"busy", "drain"} /\ ~ d.ok /\ msgs' = Send(msgs, t, q, r)
      /\ delegated' = [delegated EXCEPT ![t] = (@ \ {d}) \cup {e}]
      /\ UNCHANGED <<pc, waiting, from, work>>
      BY DEF StartsFor, state, copies
<1>2. /\ q \in Teams \ {t} /\ Of(delegated[t], q) = {d} /\ work[t][q] = <<>>
      /\ Num(msgs[q][t], c, 1) = 0 /\ Num(msgs[t][q], c, 3) = 0 /\ Num(msgs[t][q], c, 2) = 0
      /\ Waits(c, q, t, pc[q], waiting[q], msgs, delegated, work)
  <2>1. /\ q \in Teams \ {t} /\ Of(delegated[t], q) = {d} /\ work[t][q] = <<>>
        /\ Num(msgs[q][t], c, 1) = 0 /\ Num(msgs[t][q], c, 3) = 0
        /\ ~ d.ok => /\ Num(msgs[t][q], c, 2) = 0
                     /\ Waits(c, q, t, pc[q], waiting[q], msgs, delegated, work)
        /\ d.ok => \/ /\ Num(msgs[t][q], c, 2) = 1
                      /\ Waits(c, q, t, pc[q], waiting[q], msgs, delegated, work)
                   \/ /\ Num(msgs[t][q], c, 2) = 0
                      /\ Awaits(c, q, t, pc[q], from[q], msgs, delegated, work)
        BY AreaHolds
  <2> QED BY <1>1, <2>1
<1>3. r.counter = c /\ r.code = 2  BY DEF Accepted, Message, Uniform
<1>4. r \in Messages /\ msgs \in Nets(Messages)
  <2>1. /\ execution_counter[t] \in Counters /\ time_stamp[t] \in Nat /\ msgs \in Nets(Messages)
        /\ mpi_load[t] \in Loads /\ mpi_load_time[t] \in Times
        BY DelegatedFacts
  <2> QED BY <2>1, NewMessages
<1>5. e.q = q /\ e.ok  BY DelegatedFacts DEF Delegations
<1> HIDE DEF r, e, q
<1>6. WriteOne(msgs, msgs', t, q, c, 2)  BY <1>1, <1>2, <1>3, <1>4, WriteOneFacts
<1>7. /\ \A x \in Teams \ {t} : delegated'[x] = delegated[x]
      /\ delegated'[t] = (delegated[t] \ {d}) \cup {e}
      BY <1>1 DEF Types
<1>8. d.q = q  BY DEF q
<1>9. Of(delegated'[t], q) = {e} /\ \A x \in Teams \ {q} : Of(delegated'[t], x) = Of(delegated[t], x)
      BY <1>2, <1>5, <1>7, <1>8 DEF Of
<1>10. IsAccepted(c, q, t, msgs', delegated', work')
  <2>1. Num(msgs'[q][t], c, 1) = 0 /\ Num(msgs'[t][q], c, 2) = 1 /\ Num(msgs'[t][q], c, 3) = 0
        BY <1>2, <1>6 DEF WriteOne
  <2>2. Coming(q, delegated'[t], work'[t][q])  BY <1>1, <1>2, <1>5, <1>9 DEF Coming
  <2> QED BY <2>1, <2>2 DEF IsAccepted
<1>11. Asked(c, q, t, msgs', delegated', work')  BY <1>10, Stages
<1>12. ASSUME NEW x \in Teams, NEW p \in Teams, x # q \/ p # t
       PROVE  Same(c, x, p, msgs, delegated, work, msgs', delegated', work')
  <2>1. Of(delegated'[p], x) = Of(delegated[p], x)  BY <1>7, <1>9, <1>12
  <2>2. /\ Num(msgs'[x][p], c, 1) = Num(msgs[x][p], c, 1)
        /\ Num(msgs'[p][x], c, 2) = Num(msgs[p][x], c, 2)
        /\ Num(msgs'[p][x], c, 3) = Num(msgs[p][x], c, 3)
        BY <1>6, <1>12 DEF WriteOne
  <2> QED BY <1>1, <2>1, <2>2 DEF Same
<1>13. Handles(t, q, c)  BY <1>1, <1>2, <1>7, <1>12 DEF Handles
<1> QED BY <1>2, <1>11, <1>13, PairAsked

LEMMA RefusedGoes ==
  ASSUME NEW t \in Teams, NEW d \in delegated[t], NEW c, Types, RefusedFor(t, d), Uniform(c),
         \A x \in Teams : Goes(c, x, msgs)
  PROVE  GoesOn(c)
<1> DEFINE q == d.q
           r == Refusal(t, Some, mpi_load[t], mpi_load_time[t])
<1>1. /\ pc[t] \in {"busy", "drain"} /\ ~ d.ok /\ msgs' = Send(msgs, t, q, r)
      /\ delegated' = [delegated EXCEPT ![t] = @ \ {d}]
      /\ UNCHANGED <<pc, waiting, from, work>>
      BY DEF RefusedFor, copies
<1>2. /\ q \in Teams \ {t} /\ Of(delegated[t], q) = {d} /\ work[t][q] = <<>>
      /\ Num(msgs[q][t], c, 1) = 0 /\ Num(msgs[t][q], c, 3) = 0 /\ Num(msgs[t][q], c, 2) = 0
      /\ Waits(c, q, t, pc[q], waiting[q], msgs, delegated, work)
  <2>1. /\ q \in Teams \ {t} /\ Of(delegated[t], q) = {d} /\ work[t][q] = <<>>
        /\ Num(msgs[q][t], c, 1) = 0 /\ Num(msgs[t][q], c, 3) = 0
        /\ ~ d.ok => /\ Num(msgs[t][q], c, 2) = 0
                     /\ Waits(c, q, t, pc[q], waiting[q], msgs, delegated, work)
        /\ d.ok => \/ /\ Num(msgs[t][q], c, 2) = 1
                      /\ Waits(c, q, t, pc[q], waiting[q], msgs, delegated, work)
                   \/ /\ Num(msgs[t][q], c, 2) = 0
                      /\ Awaits(c, q, t, pc[q], from[q], msgs, delegated, work)
        BY AreaHolds
  <2> QED BY <1>1, <2>1
<1>3. r.counter = c /\ r.code = 3  BY DEF Refusal, Uniform
<1>4. r \in Messages /\ msgs \in Nets(Messages)
  <2>1. /\ execution_counter[t] \in Counters /\ time_stamp[t] \in Nat /\ msgs \in Nets(Messages)
        /\ mpi_load[t] \in Loads /\ mpi_load_time[t] \in Times
        BY DelegatedFacts
  <2> QED BY <2>1, NewMessages
<1> HIDE DEF r, q
<1>6. WriteOne(msgs, msgs', t, q, c, 3)  BY <1>1, <1>2, <1>3, <1>4, WriteOneFacts
<1>7. /\ \A x \in Teams \ {t} : delegated'[x] = delegated[x]
      /\ delegated'[t] = delegated[t] \ {d}
      BY <1>1 DEF Types
<1>8. d.q = q  BY DEF q
<1>9. Of(delegated'[t], q) = {} /\ \A x \in Teams \ {q} : Of(delegated'[t], x) = Of(delegated[t], x)
      BY <1>2, <1>7, <1>8 DEF Of
<1>10. IsRefused(c, q, t, msgs', delegated', work')
  <2>1. Num(msgs'[q][t], c, 1) = 0 /\ Num(msgs'[t][q], c, 3) = 1 /\ Num(msgs'[t][q], c, 2) = 0
    <3>1. Num(msgs'[t][q], c, 3) = 1  BY <1>2, <1>6 DEF WriteOne
    <3>2. Num(msgs'[q][t], c, 1) = Num(msgs[q][t], c, 1)  BY <1>2, <1>6 DEF WriteOne
    <3>3. Num(msgs'[t][q], c, 2) = Num(msgs[t][q], c, 2)  BY <1>2, <1>6 DEF WriteOne
    <3> QED BY <1>2, <3>1, <3>2, <3>3
  <2> QED BY <1>1, <1>2, <1>9, <2>1 DEF IsRefused
<1>11. Asked(c, q, t, msgs', delegated', work')  BY <1>10, Stages
<1>12. ASSUME NEW x \in Teams, NEW p \in Teams, x # q \/ p # t
       PROVE  Same(c, x, p, msgs, delegated, work, msgs', delegated', work')
  <2>1. Of(delegated'[p], x) = Of(delegated[p], x)  BY <1>7, <1>9, <1>12
  <2>2. /\ Num(msgs'[x][p], c, 1) = Num(msgs[x][p], c, 1)
        /\ Num(msgs'[p][x], c, 2) = Num(msgs[p][x], c, 2)
        /\ Num(msgs'[p][x], c, 3) = Num(msgs[p][x], c, 3)
        BY <1>6, <1>12 DEF WriteOne
  <2> QED BY <1>1, <2>1, <2>2 DEF Same
<1>13. Handles(t, q, c)  BY <1>1, <1>2, <1>7, <1>12 DEF Handles
<1> QED BY <1>2, <1>11, <1>13, PairAsked

LEMMA DoneGoes ==
  ASSUME NEW t \in Teams, NEW d \in delegated[t], NEW c, Types, DoneFor(t, d), Uniform(c),
         \A x \in Teams : Goes(c, x, msgs)
  PROVE  GoesOn(c)
<1> DEFINE q == d.q
           r == Accepted(t)
           w == Work(time_stamp[t], mpi_load[t], mpi_load_time[t])
<1>1. /\ pc[t] \in {"busy", "drain"}
      /\ d.ok => msgs' = msgs
      /\ ~ d.ok => msgs' = Send(msgs, t, q, r)
      /\ work' = Send(work, t, q, w)
      /\ delegated' = [delegated EXCEPT ![t] = @ \ {d}]
      /\ UNCHANGED <<pc, waiting, from>>
      BY DEF DoneFor
<1>2. /\ q \in Teams \ {t} /\ Of(delegated[t], q) = {d} /\ work[t][q] = <<>>
      /\ Num(msgs[q][t], c, 1) = 0 /\ Num(msgs[t][q], c, 3) = 0
      /\ ~ d.ok => /\ Num(msgs[t][q], c, 2) = 0
                   /\ Waits(c, q, t, pc[q], waiting[q], msgs, delegated, work)
      /\ d.ok => \/ /\ Num(msgs[t][q], c, 2) = 1
                    /\ Waits(c, q, t, pc[q], waiting[q], msgs, delegated, work)
                 \/ /\ Num(msgs[t][q], c, 2) = 0
                    /\ Awaits(c, q, t, pc[q], from[q], msgs, delegated, work)
      BY AreaHolds
<1>3. r.counter = c /\ r.code = 2  BY DEF Accepted, Message, Uniform
<1>4. /\ execution_counter[t] \in Counters /\ time_stamp[t] \in Nat /\ msgs \in Nets(Messages)
      /\ mpi_load[t] \in Loads /\ mpi_load_time[t] \in Times
      BY DelegatedFacts
<1>5. r \in Messages  BY <1>4, NewMessages
<1>6. w \in Copies  BY <1>4 DEF Work, Copies
<1> HIDE DEF r, w, q
<1>7. /\ \A x \in Teams \ {t} : delegated'[x] = delegated[x]
      /\ delegated'[t] = delegated[t] \ {d}
      BY <1>1 DEF Types
<1>8. d.q = q  BY DEF q
<1>9. Of(delegated'[t], q) = {} /\ \A x \in Teams \ {q} : Of(delegated'[t], x) = Of(delegated[t], x)
      BY <1>2, <1>7, <1>8 DEF Of
<1>10. /\ Len(work'[t][q]) = 1
       /\ \A a, b \in Teams : a # t \/ b # q => work'[a][b] = work[a][b]
       BY <1>1, <1>2, <1>6, FirstCopy
<1>11. /\ \A a, b \in Teams : \A k : (a = t /\ b = q /\ k = 2) \/ Num(msgs'[a][b], c, k) = Num(msgs[a][b], c, k)
       /\ d.ok => Num(msgs'[t][q], c, 2) = Num(msgs[t][q], c, 2)
       /\ ~ d.ok => Num(msgs'[t][q], c, 2) = 1
  <2>1. CASE d.ok  BY <1>1, <2>1
  <2>2. CASE ~ d.ok
    <3>1. WriteOne(msgs, msgs', t, q, c, 2)  BY <1>1, <1>2, <1>3, <1>4, <1>5, <2>2, WriteOneFacts
    <3> QED BY <1>2, <2>2, <3>1 DEF WriteOne
  <2> QED BY <2>1, <2>2
<1>12. ASSUME NEW x \in Teams, NEW p \in Teams, x # q \/ p # t
       PROVE  Same(c, x, p, msgs, delegated, work, msgs', delegated', work')
  <2>1. Of(delegated'[p], x) = Of(delegated[p], x)  BY <1>7, <1>9, <1>12
  <2>2. /\ Num(msgs'[x][p], c, 1) = Num(msgs[x][p], c, 1)
        /\ Num(msgs'[p][x], c, 2) = Num(msgs[p][x], c, 2)
        /\ Num(msgs'[p][x], c, 3) = Num(msgs[p][x], c, 3)
        BY <1>11, <1>12
  <2>3. work'[p][x] = work[p][x]  BY <1>10, <1>12
  <2> QED BY <2>1, <2>2, <2>3 DEF Same
<1>13. Handles(t, q, c)  BY <1>1, <1>2, <1>7, <1>12 DEF Handles
<1>14. Coming(q, delegated'[t], work'[t][q])  BY <1>9, <1>10 DEF Coming
<1>15. Num(msgs'[q][t], c, 1) = 0 /\ Num(msgs'[t][q], c, 3) = 0
  <2>1. Num(msgs'[q][t], c, 1) = Num(msgs[q][t], c, 1)  BY <1>2, <1>11
  <2>2. Num(msgs'[t][q], c, 3) = Num(msgs[t][q], c, 3)  BY <1>2, <1>11
  <2> QED BY <1>2, <2>1, <2>2
<1>16. CASE /\ Num(msgs'[t][q], c, 2) = 1
            /\ Waits(c, q, t, pc[q], waiting[q], msgs, delegated, work)
  <2>1. IsAccepted(c, q, t, msgs', delegated', work')  BY <1>14, <1>15, <1>16 DEF IsAccepted
  <2>2. Asked(c, q, t, msgs', delegated', work')  BY <2>1, Stages
  <2> QED BY <1>13, <1>16, <2>2, PairAsked
<1>17. CASE /\ Num(msgs'[t][q], c, 2) = 0
            /\ Awaits(c, q, t, pc[q], from[q], msgs, delegated, work)
  <2>1. Promises(c, q, t, msgs', delegated', work')
        BY <1>14, <1>15, <1>17 DEF Promises, Accepts
  <2> QED BY <1>13, <1>17, <2>1, PairPromised
<1> QED BY <1>2, <1>11, <1>16, <1>17

LEMMA IdleGoes ==
  ASSUME NEW t \in Teams, NEW c, Types, BecomeIdle(t) \/ Drained(t),
         \A x \in Teams : Goes(c, x, msgs)
  PROVE  GoesOn(c)
<1>1. /\ pc[t] \in {"busy", "drain"} /\ UNCHANGED <<from, delegated, msgs, work>>
      /\ \/ pc'[t] = "get" /\ delegated[t] = {}
         \/ pc'[t] = "drain"
      /\ ~ waiting'[t]
      /\ \A x \in Teams \ {t} : pc'[x] = pc[x] /\ waiting'[x] = waiting[x]
  <2>1. CASE BecomeIdle(t)  BY <2>1 DEF BecomeIdle, network, copies, Types
  <2>2. CASE Drained(t)
    <3>1. ~ waiting[t]
      <4>1. Protocol(c, t, pc[t], waiting[t], from[t], msgs, delegated, work)  BY DEF Goes
      <4> QED BY <2>2, <4>1 DEF Drained, Protocol
    <3> QED BY <2>2, <3>1 DEF Drained, network, copies, Types
  <2> QED BY <2>1, <2>2
<1>2. \A p \in Teams : None(c, t, p, msgs, delegated, work)
  <2>1. Protocol(c, t, pc[t], waiting[t], from[t], msgs, delegated, work)  BY DEF Goes
  <2> QED BY <1>1, <2>1 DEF Protocol
<1>3. Protocol(c, t, pc'[t], waiting'[t], from'[t], msgs', delegated', work')
      BY <1>1, <1>2 DEF Protocol
<1>4. \A x \in Teams \ {t} : \A p \in Teams :
        Same(c, x, p, msgs, delegated, work, msgs', delegated', work')
      BY <1>1 DEF Same
<1>5. \A x \in Teams \ {t} : /\ pc'[x] = pc[x] /\ waiting'[x] = waiting[x] /\ from'[x] = from[x]
                             /\ delegated'[x] = delegated[x]
      BY <1>1
<1> QED BY <1>3, <1>4, <1>5, OthersGo

-----------------------------------------------------------------------------
(***************************************************************************)
(* From moment to moment.                                                  *)
(***************************************************************************)

\* Moment z comes after s: what was said of idle teams stays true, and a gift
\* is later than all that is known of the giver.
Follows(s, z) ==
  /\ s.given \subseteq z.given
  /\ \A u \in Teams : s.time[u] <= z.time[u]
  /\ \A u \in Teams : \A n \in Nat : IdleAt(s, u, n) => IdleAt(z, u, n)
  /\ \A g \in z.given \ s.given : \A n \in Nat : InTime(s, g.from, n) => n <= g.at

LEMMA MomentFacts ==
  ASSUME NEW s \in Moments
  PROVE  /\ \A u \in Teams : s.time[u] \in Nat /\ s.loc[u] \in Places
         /\ \A g \in s.given : g.from \in Teams /\ g.to \in Teams /\ g.at \in Nat /\ g.time \in Nat
BY DEF Moments, Times, Gifts

LEMMA TimeFollows ==
  ASSUME NEW s \in Moments, NEW z \in Moments, Follows(s, z), NEW T \in Times, AllInTime(s, T)
  PROVE  AllInTime(z, T)
<1>1. ASSUME NEW u \in Teams PROVE InTime(z, u, T[u])
  <2>1. s.time[u] \in Nat /\ z.time[u] \in Nat /\ s.time[u] <= z.time[u] /\ T[u] \in Nat
        BY MomentFacts DEF Follows, Times
  <2>2. CASE T[u] <= s.time[u]  BY <2>1, <2>2 DEF InTime
  <2>3. CASE T[u] = s.time[u] + 1 /\ \E g \in s.given : g.to = u /\ g.time = s.time[u]
    <3>1. CASE z.time[u] = s.time[u]  BY <2>3, <3>1 DEF InTime, Follows
    <3>2. CASE z.time[u] # s.time[u]  BY <2>1, <2>3, <3>2 DEF InTime
    <3> QED BY <3>1, <3>2
  <2> QED BY <2>2, <2>3 DEF AllInTime, InTime
<1> QED BY <1>1 DEF AllInTime

LEMMA KnowsFollows ==
  ASSUME NEW s \in Moments, NEW z \in Moments, Follows(s, z), NEW T \in Times, AllInTime(s, T),
         NEW t \in Teams, NEW L, Knows(s, t, L, T)
  PROVE  Knows(z, t, L, T)
<1>1. ASSUME NEW u \in Teams \ {t}, L[u] = Idle
      PROVE  IdleAt(z, u, T[u])
  <2>1. IdleAt(s, u, T[u])  BY <1>1 DEF Knows
  <2>2. T[u] \in Nat  BY DEF Times
  <2> QED BY <2>1, <2>2 DEF Follows
<1>2. ASSUME NEW u \in Teams \ {t}, L[u] = Idle, NEW g \in z.given,
             g.from = u, g.at < T[u], g.to # t
      PROVE  g.time < T[g.to]
  <2>1. CASE g \in s.given  BY <1>2, <2>1 DEF Knows
  <2>2. CASE g \notin s.given
    <3>1. T[u] \in Nat /\ InTime(s, u, T[u])  BY DEF Times, AllInTime
    <3>2. T[u] <= g.at  BY <1>2, <2>2, <3>1 DEF Follows
    <3>3. g.at \in Nat  BY MomentFacts
    <3> QED BY <1>2, <3>1, <3>2, <3>3
  <2> QED BY <2>1, <2>2
<1> QED BY <1>1, <1>2 DEF Knows

LEMMA OwnFollows ==
  ASSUME NEW s \in Moments, NEW z \in Moments, Follows(s, z), NEW T, NEW t \in Teams, NEW x,
         NEW n \in Nat, InTime(s, t, n), KnowsOwn(s, t, n, x, T)
  PROVE  KnowsOwn(z, t, n, x, T)
<1>1. ASSUME NEW g \in z.given, g.from = t, g.at < n, g.to # x
      PROVE  g.time < T[g.to]
  <2>1. CASE g \in s.given  BY <1>1, <2>1 DEF KnowsOwn
  <2>2. CASE g \notin s.given
    <3>1. n <= g.at  BY <1>1, <2>2 DEF Follows
    <3>2. g.at \in Nat  BY MomentFacts
    <3> QED BY <1>1, <3>1, <3>2
  <2> QED BY <2>1, <2>2
<1> QED BY <1>1 DEF KnowsOwn

LEMMA TellsFollows ==
  ASSUME NEW s \in Moments, NEW z \in Moments, Follows(s, z), NEW t \in Teams, NEW x \in Teams,
         NEW L, NEW T \in Times, NEW n \in Nat, Tells(s, t, x, L, T, n)
  PROVE  Tells(z, t, x, L, T, n)
<1>1. n <= z.time[t] /\ AllInTime(z, T)
  <2>1. s.time[t] \in Nat /\ z.time[t] \in Nat /\ s.time[t] <= z.time[t] /\ n <= s.time[t]
        BY MomentFacts DEF Follows, Tells
  <2>2. AllInTime(z, T)  BY TimeFollows DEF Tells
  <2> QED BY <2>1, <2>2
<1>2. ASSUME NEW u \in Teams \ {t, x}, L[u] = Idle
      PROVE  IdleAt(z, u, T[u])
  <2>1. IdleAt(s, u, T[u])  BY <1>2 DEF Tells
  <2>2. T[u] \in Nat  BY DEF Times
  <2> QED BY <2>1, <2>2 DEF Follows
<1>3. ASSUME NEW u \in Teams \ {t, x}, L[u] = Idle, NEW g \in z.given,
             g.from = u, g.at < T[u], g.to # x
      PROVE  g.time < (IF g.to = t THEN n ELSE T[g.to])
  <2>1. CASE g \in s.given  BY <1>3, <2>1 DEF Tells
  <2>2. CASE g \notin s.given
    <3>1. T[u] \in Nat /\ InTime(s, u, T[u])  BY DEF Times, AllInTime, Tells
    <3>2. T[u] <= g.at  BY <1>3, <2>2, <3>1 DEF Follows
    <3>3. g.at \in Nat  BY MomentFacts
    <3> QED BY <1>3, <3>1, <3>2, <3>3
  <2> QED BY <2>1, <2>2
<1> QED BY <1>1, <1>2, <1>3 DEF Tells

LEMMA RightFollows ==
  ASSUME NEW s \in Moments, NEW z \in Moments, NEW t \in Teams, NEW x \in Teams, NEW m \in Messages,
         Right(s, t, x, m), Ended(z) \/ (Follows(s, z) /\ ~ Ended(s)),
         m.code = 1 => z.time[t] = s.time[t],
         s.loc[t] = "end" => z.loc[t] = "end"
  PROVE  Right(z, t, x, m)
<1>1. m.code = 6 => z.loc[t] = "end"  BY DEF Right
<1>2. CASE Ended(z)  BY <1>1, <1>2 DEF Right
<1>3. CASE Follows(s, z) /\ ~ Ended(s)
  <2>0. TellsRight(s, t, x, m)  BY <1>3 DEF Right
  <2>1. ASSUME m.code \in {1, 3}
        PROVE  /\ Tells(z, t, x, m.loads, m.times, m.time)
               /\ m.time \in Nat /\ m.times \in Times /\ InTime(s, t, m.time)
    <3>1. m.time \in Nat /\ m.times \in Times  BY <2>1, MessageFacts
    <3>2. Tells(s, t, x, m.loads, m.times, m.time)  BY <2>0, <2>1 DEF TellsRight
    <3>3. Tells(z, t, x, m.loads, m.times, m.time)  BY <1>3, <3>1, <3>2, TellsFollows
    <3>4. InTime(s, t, m.time)  BY <3>2 DEF Tells, InTime
    <3> QED BY <3>1, <3>3, <3>4
  <2>2. ASSUME m.code \in {1, 3}, TellsIdle(s, t, x, m.times, m.time)
        PROVE  TellsIdle(z, t, x, m.times, m.time)
    <3>1. m.time \in Nat /\ InTime(s, t, m.time)  BY <2>1, <2>2
    <3>2. IdleAt(z, t, m.time)  BY <1>3, <2>2, <3>1 DEF TellsIdle, Follows
    <3>3. KnowsOwn(s, t, m.time, x, m.times)  BY <2>2 DEF TellsIdle
    <3>4. KnowsOwn(z, t, m.time, x, m.times)  BY <1>3, <3>1, <3>3, OwnFollows
    <3> QED BY <3>2, <3>4 DEF TellsIdle
  <2>3. m.code = 4 => m.time <= z.time[t]
    <3>1. m.code = 4 => m.time \in Nat /\ m.time <= s.time[t]
          BY <2>0, MessageFacts DEF TellsRight
    <3>2. s.time[t] \in Nat /\ z.time[t] \in Nat /\ s.time[t] <= z.time[t]
          BY <1>3, MomentFacts DEF Follows
    <3> QED BY <3>1, <3>2
  <2>4. TellsRight(z, t, x, m)  BY <2>0, <2>1, <2>2, <2>3 DEF TellsRight
  <2> QED BY <1>1, <2>4 DEF Right
<1> QED BY <1>2, <1>3

\* What a team learns from a message, of others and of the sender o.
LEMMA MergeKnows ==
  ASSUME NEW s \in Moments, NEW t \in Teams, NEW o \in Teams \ {t},
         NEW L \in Loads, NEW T \in Times, AllInTime(s, T), Knows(s, t, L, T),
         NEW ml \in Loads, NEW mt \in Times, NEW n \in Nat, Tells(s, o, t, ml, mt, n),
         NEW ld, ld = Idle => TellsIdle(s, o, t, mt, n),
         NEW K \in Loads, NEW V \in Times,
         \A u \in Teams : u # o => V[u] = (IF u # t /\ mt[u] > T[u] THEN mt[u] ELSE T[u]),
         \A u \in Teams : u # o => K[u] = (IF u # t /\ mt[u] > T[u] THEN ml[u] ELSE L[u]),
         V[o] = n, K[o] = ld, T[o] <= n, mt[o] <= n
  PROVE  AllInTime(s, V) /\ Knows(s, t, K, V) /\ \A u \in Teams : T[u] <= V[u]
<1>1. \A u \in Teams : T[u] \in Nat /\ mt[u] \in Nat /\ V[u] \in Nat  BY DEF Times
<1>2. \A u \in Teams : T[u] <= V[u] /\ (u # t => mt[u] <= V[u])
      BY <1>1
<1>3. AllInTime(s, V)
  <2>1. ASSUME NEW u \in Teams PROVE InTime(s, u, V[u])
    <3>1. InTime(s, u, T[u]) /\ InTime(s, u, mt[u])  BY DEF AllInTime, Tells
    <3>2. CASE u = o  BY <3>2 DEF Tells, InTime
    <3>3. CASE u # o  BY <3>1, <3>3
    <3> QED BY <3>2, <3>3
  <2> QED BY <2>1 DEF AllInTime
<1>4. ASSUME NEW u \in Teams \ {t}, K[u] = Idle
      PROVE  /\ IdleAt(s, u, V[u])
             /\ \A g \in s.given : g.from = u /\ g.at < V[u] /\ g.to # t => g.time < V[g.to]
  <2>0. \A g \in s.given : g.from \in Teams /\ g.to \in Teams /\ g.at \in Nat /\ g.time \in Nat
        BY MomentFacts
  <2>1. CASE u = o
    <3>1. TellsIdle(s, o, t, mt, n)  BY <1>4, <2>1
    <3>2. ASSUME NEW g \in s.given, g.from = u, g.at < V[u], g.to # t PROVE g.time < V[g.to]
      <4>1. g.time < mt[g.to]  BY <2>1, <3>1, <3>2 DEF TellsIdle, KnowsOwn
      <4> QED BY <1>1, <1>2, <2>0, <3>2, <4>1
    <3> QED BY <2>1, <3>1, <3>2 DEF TellsIdle
  <2>2. CASE u # o /\ mt[u] > T[u]
    <3>1. ml[u] = Idle /\ V[u] = mt[u] /\ u \in Teams \ {o, t}  BY <1>4, <2>2
    <3>2. IdleAt(s, u, V[u])  BY <3>1 DEF Tells
    <3>3. ASSUME NEW g \in s.given, g.from = u, g.at < V[u], g.to # t PROVE g.time < V[g.to]
      <4>1. g.time < (IF g.to = o THEN n ELSE mt[g.to])  BY <3>1, <3>3 DEF Tells
      <4> QED BY <1>1, <1>2, <2>0, <3>3, <4>1
    <3> QED BY <3>2, <3>3
  <2>3. CASE u # o /\ ~ mt[u] > T[u]
    <3>1. L[u] = Idle /\ V[u] = T[u]  BY <1>4, <2>3
    <3>2. IdleAt(s, u, V[u])  BY <3>1 DEF Knows
    <3>3. ASSUME NEW g \in s.given, g.from = u, g.at < V[u], g.to # t PROVE g.time < V[g.to]
      <4>1. g.time < T[g.to]  BY <3>1, <3>3 DEF Knows
      <4> QED BY <1>1, <1>2, <2>0, <3>3, <4>1
    <3> QED BY <3>2, <3>3
  <2> QED BY <2>1, <2>2, <2>3
<1> QED BY <1>2, <1>3, <1>4 DEF Knows

\* A later entry that says that q has work.
LEMMA RaiseKnows ==
  ASSUME NEW s \in Moments, NEW t \in Teams, NEW q \in Teams, NEW L \in Loads, NEW T \in Times,
         Knows(s, t, L, T), NEW n \in Nat, T[q] <= n
  PROVE  Knows(s, t, [L EXCEPT ![q] = Some], [T EXCEPT ![q] = n])
<1> DEFINE K == [L EXCEPT ![q] = Some]
           V == [T EXCEPT ![q] = n]
<1>1. \A u \in Teams : T[u] \in Nat /\ V[u] \in Nat /\ T[u] <= V[u] /\ (u # q => V[u] = T[u])
      BY DEF Times
<1>2. \A u \in Teams : K[u] = Idle => u # q /\ L[u] = Idle
      BY DEF Loads, Idle, Some
<1> HIDE DEF K, V
<1>3. ASSUME NEW u \in Teams \ {t}, K[u] = Idle
      PROVE  /\ IdleAt(s, u, V[u])
             /\ \A g \in s.given : g.from = u /\ g.at < V[u] /\ g.to # t => g.time < V[g.to]
  <2>0. \A g \in s.given : g.from \in Teams /\ g.to \in Teams /\ g.at \in Nat /\ g.time \in Nat
        BY MomentFacts
  <2>1. L[u] = Idle /\ V[u] = T[u]  BY <1>1, <1>2, <1>3
  <2>2. IdleAt(s, u, V[u])  BY <2>1 DEF Knows
  <2>3. ASSUME NEW g \in s.given, g.from = u, g.at < V[u], g.to # t PROVE g.time < V[g.to]
    <3>1. g.time < T[g.to]  BY <2>1, <2>3 DEF Knows
    <3> QED BY <1>1, <2>0, <2>3, <3>1
  <2> QED BY <2>2, <2>3
<1>4. Knows(s, t, K, V)  BY <1>3 DEF Knows
<1> QED BY <1>4 DEF K, V

\* What t knows it may tell, unless it has been given work by a team that it
\* knows to be idle since.
LEMMA CanTell ==
  ASSUME NEW s \in Moments, NEW t \in Teams, NEW x \in Teams, NEW L, NEW T \in Times,
         AllInTime(s, T), Knows(s, t, L, T),
         \A g \in s.given : g.to = t /\ L[g.from] = Idle /\ g.at < T[g.from] => g.time < s.time[t]
  PROVE  Tells(s, t, x, L, T, s.time[t])
<1>1. s.time[t] \in Nat  BY MomentFacts
<1>2. ASSUME NEW u \in Teams \ {t, x}, L[u] = Idle, NEW g \in s.given,
             g.from = u, g.at < T[u], g.to # x
      PROVE  g.time < (IF g.to = t THEN s.time[t] ELSE T[g.to])
      BY <1>2 DEF Knows
<1>3. \A u \in Teams \ {t, x} : L[u] = Idle => IdleAt(s, u, T[u])  BY DEF Knows
<1> QED BY <1>1, <1>2, <1>3 DEF Tells

\* From what t knew itself at s, and knows of others at z.
LEMMA KnowingFollows ==
  ASSUME NEW s \in Moments, NEW z \in Moments, GiftTimes(s), NEW t \in Teams, NEW L,
         NEW T \in Times, NEW V \in Times,
         KnowsOwn(s, t, s.time[t], t, T), \A u \in Teams : T[u] <= V[u],
         AllInTime(z, V), Knows(z, t, L, V),
         \A g \in z.given \ s.given : g.from = t => g.time < V[g.to]
  PROVE  Knowing(z, t, L, V)
<1>1. ASSUME NEW g \in z.given, g.from = t, g.to # t PROVE g.time < V[g.to]
  <2>1. CASE g \in s.given
    <3>1. g.at < s.time[t]  BY <1>1, <2>1 DEF GiftTimes
    <3>2. g.time < T[g.to]  BY <1>1, <2>1, <3>1 DEF KnowsOwn
    <3>3. g.to \in Teams /\ g.time \in Nat  BY MomentFacts
    <3>4. T[g.to] \in Nat /\ V[g.to] \in Nat /\ T[g.to] <= V[g.to]  BY <3>3 DEF Times
    <3> QED BY <3>2, <3>3, <3>4
  <2> QED BY <1>1, <2>1
<1>2. KnowsOwn(z, t, z.time[t], t, V)  BY <1>1 DEF KnowsOwn
<1> QED BY <1>2 DEF Knowing

\* An idle team knows whom it has given work.
LEMMA OwnIdle ==
  ASSUME NEW s \in Moments, GiftTimes(s), NEW t \in Teams, NEW x, NEW T,
         KnowsOwn(s, t, s.time[t], t, T), s.loc[t] \in {"get", "recv"}
  PROVE  TellsIdle(s, t, x, T, s.time[t])
<1>1. IdleAt(s, t, s.time[t])  BY DEF IdleAt
<1>2. ASSUME NEW g \in s.given, g.from = t, g.at < s.time[t] PROVE g.time < T[g.to]
  <2>1. g.to # t  BY <1>2 DEF GiftTimes
  <2> QED BY <1>2, <2>1 DEF KnowsOwn
<1> QED BY <1>1, <1>2 DEF TellsIdle, KnowsOwn


(***************************************************************************)
(* Cuts.                                                                   *)
(***************************************************************************)
LEMMA CutsFrame ==
  ASSUME NEW s, NEW z, Cuts(s), z.given = s.given,
         \A u \in Teams : \A n \in Nat : IdleAt(z, u, n) => IdleAt(s, u, n)
  PROVE  Cuts(z)
<1>1. ASSUME NEW S \in SUBSET Teams, NEW T \in Times, IsCut(z, S, T)
      PROVE  \A g \in z.given : g.to \in S => g.time < T[g.to]
  <2>1. \A u \in S : T[u] \in Nat  BY DEF Times
  <2>2. IsCut(s, S, T)  BY <1>1, <2>1 DEF IsCut
  <2> QED BY <2>2 DEF Cuts
<1> QED BY <1>1 DEF Cuts

\* Team t gets idle, later than all that it gives and is given.
LEMMA CutsIdle ==
  ASSUME NEW s \in Moments, NEW z \in Moments, Cuts(s), z.given = s.given, NEW t \in Teams,
         \A u \in Teams : \A n \in Nat : IdleAt(z, u, n) =>
           IdleAt(s, u, n) \/ (u = t /\ n = z.time[t]),
         \A g \in s.given : /\ g.from = t => g.at < z.time[t]
                            /\ g.to = t => g.time < z.time[t]
  PROVE  Cuts(z)
<1>1. ASSUME NEW S \in SUBSET Teams, NEW T \in Times, IsCut(z, S, T), NEW g \in z.given, g.to \in S
      PROVE  g.time < T[g.to]
  <2>1. \A u \in S : T[u] \in Nat  BY DEF Times
  <2>2. CASE t \in S /\ T[t] = z.time[t]
    <3> DEFINE R == S \ {t}
    <3>1. \A u \in R : IdleAt(s, u, T[u])
          BY <1>1, <2>1 DEF IsCut
    <3>2. ASSUME NEW h \in s.given, h.to \in R, h.from \in R => h.at < T[h.from]
          PROVE  h.time < T[h.to]
      <4>1. h.from \in S => h.at < T[h.from]  BY <2>2, <3>2
      <4> QED BY <1>1, <3>2, <4>1 DEF IsCut
    <3>3. IsCut(s, R, T)  BY <3>1, <3>2 DEF IsCut
    <3>4. R \in SUBSET Teams  OBVIOUS
    <3> HIDE DEF R
    <3>5. \A h \in s.given : h.to \in R => h.time < T[h.to]  BY <3>3, <3>4 DEF Cuts
    <3>6. CASE g.to = t  BY <2>2, <3>6
    <3>7. CASE g.to # t
      <4>1. g.to \in R  BY <1>1, <3>7 DEF R
      <4> QED BY <3>5, <4>1
    <3> QED BY <3>6, <3>7
  <2>3. CASE ~ (t \in S /\ T[t] = z.time[t])
    <3>1. \A u \in S : IdleAt(s, u, T[u])  BY <1>1, <2>1, <2>3 DEF IsCut
    <3>2. IsCut(s, S, T)  BY <1>1, <3>1 DEF IsCut
    <3> QED BY <1>1, <3>2 DEF Cuts
  <2> QED BY <2>2, <2>3
<1> QED BY <1>1 DEF Cuts

\* A gift from a team that is not idle.
LEMMA CutsGift ==
  ASSUME NEW s \in Moments, NEW z \in Moments, Cuts(s), NEW h, z.given = s.given \cup {h},
         s.loc[h.from] \notin {"get", "recv"},
         \A u \in Teams : \A n \in Nat : IdleAt(z, u, n) => IdleAt(s, u, n)
  PROVE  Cuts(z)
<1>1. ASSUME NEW S \in SUBSET Teams, NEW T \in Times, IsCut(z, S, T), NEW g \in z.given, g.to \in S
      PROVE  g.time < T[g.to]
  <2>1. \A u \in S : T[u] \in Nat  BY DEF Times
  <2>2. \A u \in S : IdleAt(s, u, T[u])  BY <1>1, <2>1 DEF IsCut
  <2>3. IsCut(s, S, T)  BY <1>1, <2>2 DEF IsCut
  <2>4. \A k \in s.given : k.to \in S => k.time < T[k.to]  BY <2>3 DEF Cuts
  <2>5. CASE g \in s.given  BY <1>1, <2>4, <2>5
  <2>6. CASE g = h
    <3>1. h.from \notin S
      <4>1. ASSUME h.from \in S PROVE FALSE
        <5>1. IdleAt(s, h.from, T[h.from])  BY <2>2, <4>1
        <5>2. PICK k \in s.given : k.to = h.from /\ k.time = T[h.from]  BY <5>1 DEF IdleAt
        <5>3. T[h.from] < T[h.from]  BY <2>4, <4>1, <5>2
        <5> QED BY <2>1, <4>1, <5>3
      <4> QED BY <4>1
    <3> QED BY <1>1, <2>6, <3>1 DEF IsCut
  <2> QED BY <2>5, <2>6
<1> QED BY <1>1 DEF Cuts

(***************************************************************************)
(* The steps from moment to moment.                                        *)
(***************************************************************************)

\* The time of a request that is under way stays the requester's.
Settled(c) ==
  /\ \A p, q \in Teams : \A m \in In(msgs[p][q]) :
       m.counter = c /\ m.code = 1 => time_stamp'[p] = time_stamp[p]
  /\ \A p \in Teams : \A d \in delegated[p] : time_stamp'[d.q] = time_stamp[d.q]

Moves(c) == GivenInv' /\ Cuts(Now') /\ Follows(Now, Now') /\ Settled(c)

LEMMA NowFacts ==
  /\ Now.loc = pc /\ Now.time = time_stamp /\ Now.given = given
  /\ Now'.loc = pc' /\ Now'.time = time_stamp' /\ Now'.given = given'
BY DEF Now

LEMMA NowMoment ==
  ASSUME Types
  PROVE  Now \in Moments
BY DEF Types, Now, Moments, Places, Times

LEMMA NextMoment ==
  ASSUME Types'
  PROVE  Now' \in Moments
BY DEF Types, Now, Moments, Places, Times

LEMMA NumIn ==
  ASSUME NEW s, NEW m \in In(s)
  PROVE  Num(s, m.counter, m.code) # 0
BY DEF Num, In

LEMMA SettledStep ==
  ASSUME NEW t \in Teams, NEW c, Types, Goes(c, t, msgs),
         pc[t] \in {"busy", "drain"} \/ (pc[t] = "recv" /\ work[from[t]][t] # <<>>),
         \A x \in Teams : time_stamp'[x] # time_stamp[x] => x = t
  PROVE  Settled(c)
<1>1. ASSUME NEW p \in Teams
      PROVE  Num(msgs[t][p], c, 1) = 0 /\ Of(delegated[p], t) = {}
  <2>1. Protocol(c, t, pc[t], waiting[t], from[t], msgs, delegated, work)  BY DEF Goes
  <2>2. CASE None(c, t, p, msgs, delegated, work)  BY <2>2 DEF None, Nothing
  <2>3. CASE pc[t] = "recv" /\ work[from[t]][t] # <<>> /\ p = from[t]
    <3>1. Promises(c, t, p, msgs, delegated, work)  BY <2>1, <2>3 DEF Protocol
    <3> QED BY <2>3, <3>1 DEF Promises, Accepts, Coming
  <2> QED BY <2>1, <2>2, <2>3 DEF Protocol
<1>2. ASSUME NEW p \in Teams, NEW q \in Teams, NEW m \in In(msgs[p][q]), m.counter = c, m.code = 1
      PROVE  time_stamp'[p] = time_stamp[p]
  <2>1. Num(msgs[p][q], c, 1) # 0  BY <1>2, NumIn
  <2>2. p # t  BY <1>1, <2>1
  <2> QED BY <2>2
<1>3. ASSUME NEW p \in Teams, NEW d \in delegated[p]
      PROVE  time_stamp'[d.q] = time_stamp[d.q]
  <2>1. d.q \in Teams  BY DelegatedFacts
  <2>2. d.q # t  BY <1>1 DEF Of
  <2> QED BY <2>1, <2>2
<1> QED BY <1>2, <1>3 DEF Settled

\* No gift is under way to a team that no copy is under way to.
LEMMA NoGift ==
  ASSUME NEW t \in Teams, Types, GivenInv, \A p \in Teams : work[p][t] = <<>>
  PROVE  /\ \A g \in given : g.to = t => g.time < time_stamp[t]
         /\ \A n \in Nat : InTime(Now, t, n) => n <= time_stamp[t]
<1>1. ASSUME NEW g \in given, g.to = t PROVE g.time < time_stamp[t]
  <2>1. g.time <= time_stamp[t]  BY <1>1, NowFacts DEF GivenInv, GiftTimes
  <2>2. g.time # time_stamp[t]
    <3>1. g.from \in Teams  BY DEF Types, Gifts
    <3> QED BY <1>1, <3>1 DEF GivenInv
  <2>3. g.time \in Nat /\ time_stamp[t] \in Nat  BY DEF Types, Gifts
  <2> QED BY <2>1, <2>2, <2>3
<1>2. ASSUME NEW n \in Nat, InTime(Now, t, n) PROVE n <= time_stamp[t]
  <2>1. \A g \in given : g.to = t => g.time # time_stamp[t]
    <3>1. time_stamp[t] \in Nat  BY DEF Types
    <3> QED BY <1>1, <3>1
  <2> QED BY <1>2, <2>1, NowFacts DEF InTime
<1> QED BY <1>1, <1>2

LEMMA IdleNothing ==
  ASSUME NEW t \in Teams, NEW c, Goes(c, t, msgs),
         pc[t] \in {"busy", "drain"} \/ (pc[t] = "get" /\ ~ waiting[t])
  PROVE  \A p \in Teams : /\ work[p][t] = <<>> /\ Num(msgs[t][p], c, 1) = 0
                          /\ Of(delegated[p], t) = {}
<1>1. Protocol(c, t, pc[t], waiting[t], from[t], msgs, delegated, work)  BY DEF Goes
<1> QED BY <1>1 DEF Protocol, None, Nothing


\* Nothing that teams know of changes.
LEMMA StillMoves ==
  ASSUME NEW c, Types, GivenInv, Cuts(Now), UNCHANGED <<pc, time_stamp, given, work>>
  PROVE  Moves(c)
<1>1. Now' = Now  BY DEF Now
<1>2. GivenInv'
  <2>1. GiftTimes(Now')  BY <1>1 DEF GivenInv
  <2> QED BY <2>1 DEF GivenInv
<1>3. Follows(Now, Now)
  <2>1. \A u \in Teams : Now.time[u] \in Nat  BY NowMoment, MomentFacts
  <2> QED BY <2>1 DEF Follows
<1>4. Settled(c)  BY DEF Settled
<1> QED BY <1>1, <1>2, <1>3, <1>4 DEF Moves

\* A team with work answers.
LEMMA TickMoves ==
  ASSUME NEW t \in Teams, NEW c, Types, Types', GivenInv, Cuts(Now), Goes(c, t, msgs),
         pc[t] \in {"busy", "drain"}, time_stamp' = [time_stamp EXCEPT ![t] = @ + 1],
         UNCHANGED <<pc, given, work>>
  PROVE  Moves(c)
<1>1. /\ \A u \in Teams \ {t} : time_stamp'[u] = time_stamp[u]
      /\ time_stamp'[t] = time_stamp[t] + 1 /\ \A u \in Teams : time_stamp[u] \in Nat
      BY DEF Types
<1>2. \A p \in Teams : work[p][t] = <<>>  BY IdleNothing
<1>3. \A g \in given : /\ g.from \in Teams /\ g.to \in Teams /\ g.at \in Nat /\ g.time \in Nat
                       /\ g.from # g.to /\ g.at < time_stamp[g.from] /\ g.time <= time_stamp[g.to]
      BY NowFacts DEF GivenInv, GiftTimes, Types, Gifts
<1>4. GivenInv'
  <2>1. GiftTimes(Now')  BY <1>1, <1>3, NowFacts DEF GiftTimes
  <2>2. \A g \in given' : g.time = time_stamp'[g.to] => work'[g.from][g.to] # <<>>
    <3>1. ASSUME NEW g \in given, g.time = time_stamp'[g.to] PROVE work[g.from][g.to] # <<>>
      <4>1. g.to # t  BY <1>1, <1>3, <3>1
      <4>2. g.time = time_stamp[g.to]  BY <1>1, <1>3, <3>1, <4>1
      <4> QED BY <4>2 DEF GivenInv
    <3> QED BY <3>1
  <2>3. \A p, u \in Teams : work'[p][u] # <<>> =>
          \E g \in given' : g.from = p /\ g.to = u /\ g.time = time_stamp'[u]
    <3>1. ASSUME NEW p \in Teams, NEW u \in Teams, work[p][u] # <<>>
          PROVE  \E g \in given : g.from = p /\ g.to = u /\ g.time = time_stamp'[u]
      <4>1. u # t  BY <1>2, <3>1
      <4>2. time_stamp'[u] = time_stamp[u]  BY <1>1, <4>1
      <4> QED BY <3>1, <4>2 DEF GivenInv
    <3> QED BY <3>1
  <2> QED BY <2>1, <2>2, <2>3 DEF GivenInv
<1>5. \A u \in Teams : \A n \in Nat : IdleAt(Now', u, n) <=> IdleAt(Now, u, n)
      BY <1>1, NowFacts DEF IdleAt
<1>6. Cuts(Now')  BY <1>5, NowFacts, CutsFrame
<1>7. Follows(Now, Now')  BY <1>1, <1>5, NowFacts DEF Follows
<1>8. Settled(c)  BY <1>1, SettledStep
<1> QED BY <1>4, <1>6, <1>7, <1>8 DEF Moves

\* A team with work gives q some, for its request.
Gives(t, q) ==
  /\ pc[t] \in {"busy", "drain"} /\ pc[q] \in {"get", "recv"} /\ UNCHANGED pc
  /\ time_stamp' = [time_stamp EXCEPT ![t] = @ + 1]
  /\ given' = given \cup {Given(t, q, time_stamp[q])}
  /\ work'[t][q] # <<>> /\ \A a, b \in Teams : a # t \/ b # q => work'[a][b] = work[a][b]

LEMMA GiftMoves ==
  ASSUME NEW t \in Teams, NEW q \in Teams \ {t}, NEW c, Types, Types', GivenInv, Cuts(Now),
         Goes(c, t, msgs), Gives(t, q)
  PROVE  Moves(c)
<1> USE DEF Gives
<1> DEFINE h == Given(t, q, time_stamp[q])
<1>0. h.from = t /\ h.at = time_stamp[t] /\ h.to = q /\ h.time = time_stamp[q]  BY DEF Given
<1> HIDE DEF h
<1>1. /\ \A u \in Teams \ {t} : time_stamp'[u] = time_stamp[u]
      /\ time_stamp'[t] = time_stamp[t] + 1 /\ \A u \in Teams : time_stamp[u] \in Nat
      BY DEF Types
<1>2. \A p \in Teams : work[p][t] = <<>>  BY IdleNothing
<1>3. \A g \in given : /\ g.from \in Teams /\ g.to \in Teams /\ g.at \in Nat /\ g.time \in Nat
                       /\ g.from # g.to /\ g.at < time_stamp[g.from] /\ g.time <= time_stamp[g.to]
      BY NowFacts DEF GivenInv, GiftTimes, Types, Gifts
<1>4. given' = given \cup {h}  BY DEF h
<1>5. GivenInv'
  <2>1. GiftTimes(Now')
    <3>1. ASSUME NEW g \in given'
          PROVE  g.from # g.to /\ g.at < time_stamp'[g.from] /\ g.time <= time_stamp'[g.to]
      <4>1. CASE g \in given
        <5>1. time_stamp[g.from] <= time_stamp'[g.from] /\ time_stamp[g.to] <= time_stamp'[g.to]
              /\ time_stamp'[g.from] \in Nat /\ time_stamp'[g.to] \in Nat
              BY <1>1, <1>3, <4>1
        <5> QED BY <1>1, <1>3, <4>1, <5>1
      <4>2. CASE g = h  BY <1>0, <1>1, <4>2
      <4> QED BY <1>4, <4>1, <4>2
    <3> QED BY <3>1, NowFacts DEF GiftTimes
  <2>2. \A g \in given' : g.time = time_stamp'[g.to] => work'[g.from][g.to] # <<>>
    <3>1. ASSUME NEW g \in given, g.time = time_stamp'[g.to] PROVE work'[g.from][g.to] # <<>>
      <4>1. g.to # t  BY <1>1, <1>3, <3>1
      <4>2. g.time = time_stamp[g.to]  BY <1>1, <1>3, <3>1, <4>1
      <4>3. work[g.from][g.to] # <<>>  BY <4>2 DEF GivenInv
      <4> QED BY <1>3, <4>3
    <3>2. work'[h.from][h.to] # <<>>  BY <1>0
    <3> QED BY <1>4, <3>1, <3>2
  <2>3. \A p, u \in Teams : work'[p][u] # <<>> =>
          \E g \in given' : g.from = p /\ g.to = u /\ g.time = time_stamp'[u]
    <3>1. ASSUME NEW p \in Teams, NEW u \in Teams, p # t \/ u # q, work'[p][u] # <<>>
          PROVE  \E g \in given' : g.from = p /\ g.to = u /\ g.time = time_stamp'[u]
      <4>0. work[p][u] # <<>>  BY <3>1
      <4>1. u # t  BY <1>2, <4>0
      <4>2. time_stamp'[u] = time_stamp[u]  BY <1>1, <4>1
      <4>3. \E g \in given : g.from = p /\ g.to = u /\ g.time = time_stamp[u]
            BY <4>0 DEF GivenInv
      <4> QED BY <1>4, <4>2, <4>3
    <3>2. h \in given' /\ h.from = t /\ h.to = q /\ h.time = time_stamp'[q]
          BY <1>0, <1>1, <1>4
    <3> QED BY <3>1, <3>2
  <2> QED BY <2>1, <2>2, <2>3 DEF GivenInv
<1>6. ASSUME NEW u \in Teams, NEW n \in Nat
      PROVE  IdleAt(Now', u, n) <=> IdleAt(Now, u, n)
  <2>1. (\E g \in given' : g.to = u /\ g.time = n) <=>
          (\E g \in given : g.to = u /\ g.time = n) \/ (u = q /\ n = time_stamp[q])
        BY <1>0, <1>4
  <2>2. pc'[u] \in {"get", "recv"} /\ n = time_stamp'[u] <=> pc[u] \in {"get", "recv"} /\ n = time_stamp[u]
        BY <1>1
  <2> QED BY <2>1, <2>2, NowFacts DEF IdleAt
<1>7. Cuts(Now')
  <2>1. Now \in Moments /\ Now' \in Moments  BY NowMoment, NextMoment
  <2>2. Now'.given = Now.given \cup {h} /\ Now.loc[h.from] \notin {"get", "recv"}
        BY <1>0, <1>4, NowFacts
  <2> QED BY <1>6, <2>1, <2>2, CutsGift
<1>8. Follows(Now, Now')
  <2>1. \A n \in Nat : InTime(Now, t, n) => n <= time_stamp[t]  BY <1>2, NoGift
  <2>2. \A g \in given' \ given : g.from = t /\ g.at = time_stamp[t]  BY <1>0, <1>4
  <2> QED BY <1>1, <1>4, <1>6, <2>1, <2>2, NowFacts DEF Follows
<1>9. Settled(c)  BY <1>1, SettledStep
<1> QED BY <1>5, <1>7, <1>8, <1>9 DEF Moves

\* A team gets idle.
LEMMA IdleMoves ==
  ASSUME NEW t \in Teams, NEW c, Types, Types', GivenInv, Cuts(Now), Goes(c, t, msgs),
         BecomeIdle(t) \/ Drained(t)
  PROVE  Moves(c)
<1>0. /\ pc[t] \in {"busy", "drain"} /\ UNCHANGED <<given, work>>
      /\ \A u \in Teams \ {t} : pc'[u] = pc[u] /\ time_stamp'[u] = time_stamp[u]
      /\ time_stamp'[t] \in {time_stamp[t], time_stamp[t] + 1}
      /\ \A u \in Teams : time_stamp[u] \in Nat
      BY DEF BecomeIdle, Drained, network, copies, Types
<1>1. \A p \in Teams : work[p][t] = <<>>  BY <1>0, IdleNothing
<1>2. \A g \in given : g.to = t => g.time < time_stamp[t]  BY <1>1, NoGift
<1>3. \A g \in given : /\ g.from \in Teams /\ g.to \in Teams /\ g.at \in Nat /\ g.time \in Nat
                       /\ g.from # g.to /\ g.at < time_stamp[g.from] /\ g.time <= time_stamp[g.to]
      BY NowFacts DEF GivenInv, GiftTimes, Types, Gifts
<1>4. GivenInv'
  <2>1. GiftTimes(Now')
    <3>1. ASSUME NEW g \in given
          PROVE  g.from # g.to /\ g.at < time_stamp'[g.from] /\ g.time <= time_stamp'[g.to]
      <4>1. time_stamp[g.from] <= time_stamp'[g.from] /\ time_stamp[g.to] <= time_stamp'[g.to]
            /\ time_stamp'[g.from] \in Nat /\ time_stamp'[g.to] \in Nat
            BY <1>0, <1>3
      <4> QED BY <1>0, <1>3, <4>1
    <3> QED BY <1>0, <3>1, NowFacts DEF GiftTimes
  <2>2. \A g \in given' : g.time = time_stamp'[g.to] => work'[g.from][g.to] # <<>>
    <3>1. ASSUME NEW g \in given, g.time = time_stamp'[g.to] PROVE work[g.from][g.to] # <<>>
      <4>1. g.to # t  BY <1>0, <1>2, <3>1, <1>3
      <4>2. g.time = time_stamp[g.to]  BY <1>0, <1>3, <3>1, <4>1
      <4> QED BY <4>2 DEF GivenInv
    <3> QED BY <1>0, <3>1
  <2>3. \A p, u \in Teams : work'[p][u] # <<>> =>
          \E g \in given' : g.from = p /\ g.to = u /\ g.time = time_stamp'[u]
    <3>1. ASSUME NEW p \in Teams, NEW u \in Teams, work[p][u] # <<>>
          PROVE  \E g \in given : g.from = p /\ g.to = u /\ g.time = time_stamp'[u]
      <4>1. u # t  BY <1>1, <3>1
      <4>2. time_stamp'[u] = time_stamp[u]  BY <1>0, <4>1
      <4> QED BY <3>1, <4>2 DEF GivenInv
    <3> QED BY <1>0, <3>1
  <2> QED BY <2>1, <2>2, <2>3 DEF GivenInv
<1>5. \A u \in Teams : \A n \in Nat : IdleAt(Now, u, n) => IdleAt(Now', u, n)
      BY <1>0, NowFacts DEF IdleAt
<1>6. \A u \in Teams : \A n \in Nat : IdleAt(Now', u, n) =>
        IdleAt(Now, u, n) \/ (u = t /\ n = time_stamp'[t])
      BY <1>0, NowFacts DEF IdleAt
<1>7. \A g \in given : /\ g.from = t => g.at < time_stamp'[t]
                       /\ g.to = t => g.time < time_stamp'[t]
      BY <1>0, <1>2, <1>3
<1>8. Cuts(Now')
  <2>1. Now \in Moments /\ Now' \in Moments  BY NowMoment, NextMoment
  <2> QED BY <1>0, <1>6, <1>7, <2>1, NowFacts, CutsIdle
<1>9. Follows(Now, Now')
  <2>1. \A u \in Teams : time_stamp[u] <= time_stamp'[u]  BY <1>0
  <2> QED BY <1>0, <1>5, <2>1, NowFacts DEF Follows
<1>10. Settled(c)  BY <1>0, SettledStep
<1> QED BY <1>4, <1>8, <1>9, <1>10 DEF Moves

\* A team that has been accepted goes and waits.
LEMMA AcceptMoves ==
  ASSUME NEW t \in Teams, NEW p \in Teams, NEW c, Types, GivenInv, Cuts(Now), GetAccepted(t, p)
  PROVE  Moves(c)
<1>0. /\ pc[t] = "get" /\ pc'[t] = "recv" /\ UNCHANGED <<time_stamp, given, work>>
      /\ \A u \in Teams \ {t} : pc'[u] = pc[u]
      /\ \A u \in Teams : time_stamp[u] \in Nat
      BY DEF GetAccepted, copies, Types
<1>1. GivenInv'
  <2>1. GiftTimes(Now')  BY <1>0, NowFacts DEF GivenInv, GiftTimes
  <2> QED BY <1>0, <2>1 DEF GivenInv
<1>2. \A u \in Teams : pc'[u] \in {"get", "recv"} <=> pc[u] \in {"get", "recv"}  BY <1>0
<1>3. \A u \in Teams : \A n \in Nat : IdleAt(Now', u, n) <=> IdleAt(Now, u, n)
      BY <1>0, <1>2, NowFacts DEF IdleAt
<1>4. Cuts(Now')  BY <1>0, <1>3, NowFacts, CutsFrame
<1>5. Follows(Now, Now')  BY <1>0, <1>3, NowFacts DEF Follows
<1>6. Settled(c)  BY <1>0 DEF Settled
<1> QED BY <1>1, <1>4, <1>5, <1>6 DEF Moves

\* A team goes to work.
LEMMA InstallMoves ==
  ASSUME NEW t \in Teams, NEW c, Types, Types', GivenInv, Cuts(Now), Install(t),
         Uniform(c), \A x \in Teams : Goes(c, x, msgs)
  PROVE  Moves(c)
<1>0. /\ pc[t] = "recv" /\ pc'[t] = "busy" /\ work[from[t]][t] # <<>> /\ UNCHANGED given
      /\ \A u \in Teams \ {t} : pc'[u] = pc[u] /\ time_stamp'[u] = time_stamp[u]
      /\ time_stamp'[t] = time_stamp[t] + 2
      /\ \A u \in Teams : time_stamp[u] \in Nat
      /\ from[t] \in Teams
      BY DEF Install, Types
<1>1. /\ from[t] # t /\ work'[from[t]][t] = <<>>
      /\ \A a, b \in Teams : a # from[t] \/ b # t => work'[a][b] = work[a][b]
      BY InstallGoes
<1>2. \A p \in Teams \ {from[t]} : work[p][t] = <<>>
  <2>1. Protocol(c, t, pc[t], waiting[t], from[t], msgs, delegated, work)  BY DEF Goes
  <2> QED BY <1>0, <2>1 DEF Protocol, None, Nothing
<1>3. \A g \in given : /\ g.from \in Teams /\ g.to \in Teams /\ g.at \in Nat /\ g.time \in Nat
                       /\ g.from # g.to /\ g.at < time_stamp[g.from] /\ g.time <= time_stamp[g.to]
      BY NowFacts DEF GivenInv, GiftTimes, Types, Gifts
<1>4. GivenInv'
  <2>1. GiftTimes(Now')
    <3>1. ASSUME NEW g \in given
          PROVE  g.from # g.to /\ g.at < time_stamp'[g.from] /\ g.time <= time_stamp'[g.to]
      <4>1. time_stamp[g.from] <= time_stamp'[g.from] /\ time_stamp[g.to] <= time_stamp'[g.to]
            /\ time_stamp'[g.from] \in Nat /\ time_stamp'[g.to] \in Nat
            BY <1>0, <1>3
      <4> QED BY <1>0, <1>3, <4>1
    <3> QED BY <1>0, <3>1, NowFacts DEF GiftTimes
  <2>2. \A g \in given' : g.time = time_stamp'[g.to] => work'[g.from][g.to] # <<>>
    <3>1. ASSUME NEW g \in given, g.time = time_stamp'[g.to] PROVE work'[g.from][g.to] # <<>>
      <4>1. g.to # t  BY <1>0, <1>3, <3>1
      <4>2. g.time = time_stamp[g.to]  BY <1>0, <1>3, <3>1, <4>1
      <4>3. work[g.from][g.to] # <<>>  BY <4>2 DEF GivenInv
      <4> QED BY <1>1, <1>3, <4>1, <4>3
    <3> QED BY <1>0, <3>1
  <2>3. \A p, u \in Teams : work'[p][u] # <<>> =>
          \E g \in given' : g.from = p /\ g.to = u /\ g.time = time_stamp'[u]
    <3>1. ASSUME NEW p \in Teams, NEW u \in Teams, work'[p][u] # <<>>
          PROVE  \E g \in given : g.from = p /\ g.to = u /\ g.time = time_stamp'[u]
      <4>1. u # t /\ work[p][u] # <<>>  BY <1>1, <1>2, <3>1
      <4>2. time_stamp'[u] = time_stamp[u]  BY <1>0, <4>1
      <4> QED BY <4>1, <4>2 DEF GivenInv
    <3> QED BY <1>0, <3>1
  <2> QED BY <2>1, <2>2, <2>3 DEF GivenInv
<1>5. ASSUME NEW u \in Teams, NEW n \in Nat
      PROVE  IdleAt(Now', u, n) <=> IdleAt(Now, u, n)
  <2>1. CASE u = t
    <3>1. \E g \in given : g.to = t /\ g.time = time_stamp[t]
          BY <1>0 DEF GivenInv
    <3>2. IdleAt(Now, t, n) <=> \E g \in given : g.to = t /\ g.time = n
          BY <3>1, NowFacts DEF IdleAt
    <3>3. IdleAt(Now', t, n) <=> \E g \in given : g.to = t /\ g.time = n
          BY <1>0, NowFacts DEF IdleAt
    <3> QED BY <2>1, <3>2, <3>3
  <2>2. CASE u # t  BY <1>0, <2>2, NowFacts DEF IdleAt
  <2> QED BY <2>1, <2>2
<1>6. Cuts(Now')  BY <1>0, <1>5, NowFacts, CutsFrame
<1>7. Follows(Now, Now')
  <2>1. \A u \in Teams : time_stamp[u] <= time_stamp'[u]  BY <1>0
  <2> QED BY <1>0, <1>5, <2>1, NowFacts DEF Follows
<1>8. Settled(c)  BY <1>0, SettledStep
<1> QED BY <1>4, <1>6, <1>7, <1>8 DEF Moves


-----------------------------------------------------------------------------
(***************************************************************************)
(* The end of a query.                                                     *)
(***************************************************************************)

\* All is well but for what teams know, in the query that counts c.
Regular(c) ==
  /\ Types /\ SelfNotices /\ Uniform(c)
  /\ \A x \in Teams : Goes(c, x, msgs)
  /\ RightNet(c, Now, msgs)
  /\ SomeEnded => Quiet

LEMMA QuietFacts ==
  ASSUME NEW c, Types, Uniform(c), Quiet
  PROVE  /\ \A t \in Teams : pc[t] \notin {"busy", "recv"} /\ delegated[t] = {}
         /\ \A p, q \in Teams : work[p][q] = <<>> /\ Num(msgs[p][q], c, 2) = 0
<1>1. ASSUME NEW p \in Teams, NEW q \in Teams PROVE Num(msgs[p][q], c, 2) = 0
  <2>1. OnTheWay(q, p, q, {2}) = {} /\ execution_counter[q] = c  BY DEF Quiet, Uniform
  <2>2. \A j \in DOMAIN msgs[p][q] : ~ (msgs[p][q][j].counter = c /\ msgs[p][q][j].code = 2)
        BY <2>1 DEF OnTheWay
  <2> QED BY <2>2 DEF Num
<1> QED BY <1>1 DEF Quiet

\* Nobody works, nobody is going to, and the protocol says that nobody waits.
LEMMA QuietNext ==
  ASSUME NEW c, Types', GoesOn(c), \A x \in Teams : execution_counter'[x] = c,
         \A u \in Teams : pc'[u] # "busy" /\ delegated'[u] = {},
         \A p, u \in Teams : work'[p][u] = <<>>
  PROVE  Quiet'
<1>0. \A u \in Teams : pc'[u] \in {"busy", "drain", "get", "recv", "end"} /\ from'[u] \in Teams
      BY DEF Types
<1>1. ASSUME NEW u \in Teams, NEW p \in Teams PROVE ~ Coming(u, delegated'[p], work'[p][u])
      BY DEF Coming, Of
<1>2. ASSUME NEW u \in Teams PROVE pc'[u] # "recv"
  <2>1. Protocol(c, u, pc'[u], waiting'[u], from'[u], msgs', delegated', work')  BY DEF GoesOn
  <2>2. pc'[u] = "recv" => Promises(c, u, from'[u], msgs', delegated', work')
        BY <2>1 DEF Protocol
  <2> QED BY <1>0, <1>1, <2>2 DEF Promises, Accepts
<1>3. ASSUME NEW p \in Teams, NEW q \in Teams PROVE Num(msgs'[p][q], c, 2) = 0
  <2>1. Protocol(c, q, pc'[q], waiting'[q], from'[q], msgs', delegated', work')  BY DEF GoesOn
  <2>2. Num(msgs'[p][q], c, 2) # 0 => IsAccepted(c, q, p, msgs', delegated', work')
        BY <1>0, <2>1, Locate
  <2> QED BY <1>1, <2>2 DEF IsAccepted
<1>4. ASSUME NEW p \in Teams, NEW q \in Teams PROVE OnTheWay(q, p, q, {2})' = {}
  <2>1. execution_counter'[q] = c  OBVIOUS
  <2>2. \A m \in In(msgs'[p][q]) : ~ (m.counter = c /\ m.code = 2)
    <3>1. msgs'[p][q] \in Seq(Messages)  BY DEF Types, Nets
    <3> QED BY <1>3, <3>1, NumZero
  <2>3. \A j \in DOMAIN msgs'[p][q] : ~ (msgs'[p][q][j].counter = c /\ msgs'[p][q][j].code = 2)
        BY <2>2 DEF In
  <2> QED BY <2>1, <2>3 DEF OnTheWay
<1> QED BY <1>2, <1>4 DEF Quiet

\* While a team works, the query goes on for all of them.
LEMMA WorkingGoes ==
  ASSUME NEW c, Regular(c), NEW t \in Teams, pc[t] \in {"busy", "recv"} \/ delegated[t] # {}
  PROVE  ~ SomeEnded /\ \A x \in Teams : Goes(c, x, msgs) /\ pc[x] # "end"
BY DEF Regular, Quiet, SomeEnded

\* The end is told by a team for which the query is over.
LEMMA EndIsQuiet ==
  ASSUME NEW c, Regular(c), NEW t \in Teams, NEW q \in Teams, Arrived(t, q, {6})
  PROVE  SomeEnded /\ Quiet
<1>1. msgs[q][t] # <<>> /\ Head(msgs[q][t]).counter = c /\ Head(msgs[q][t]).code = 6
      BY DEF Arrived, Regular, Uniform
<1>2. Head(msgs[q][t]) \in In(msgs[q][t])
  <2>1. msgs \in Nets(Messages)  BY DEF Regular, Types
  <2> QED BY <1>1, <2>1, ReceivedFacts
<1>3. pc[q] = "end"  BY <1>1, <1>2, NowFacts DEF Regular, RightNet, Right
<1> QED BY <1>3 DEF Regular, SomeEnded

\* All steps of a query keep the protocol.
LEMMA ProtocolStep ==
  ASSUME NEW c, Regular(c), NEW t \in Teams, Step(t)
  PROVE  GoesOn(c)
<1>0. Types /\ SelfNotices /\ Uniform(c) /\ \A x \in Teams : Goes(c, x, msgs)  BY DEF Regular
<1>1. CASE CheckMessages(t)
  <2>1. PICK q \in Teams : \/ Reject(t, q) \/ GiveWork(t, q) \/ Delegate(t, q)
                           \/ LearnNotice(t, q) \/ DropMessage(t, q)
        BY <1>1 DEF CheckMessages
  <2>2. pc[t] = "busy"
        BY <2>1 DEF Reject, GiveWork, Delegate, LearnNotice, DropMessage
  <2>3. \A x \in Teams : Goes(c, x, msgs) /\ pc[x] # "end"  BY <2>2, WorkingGoes
  <2> QED BY <1>0, <2>1, <2>3, RejectGoes, GiveWorkGoes, DelegateGoes, BusyReadsGoes
<1>2. CASE CheckDelegations(t)
  <2>1. CASE DelegatedStarts(t)
    <3>1. PICK d \in delegated[t] : StartsFor(t, d)  BY <2>1 DEF DelegatedStarts, StartsFor
    <3> QED BY <1>0, <3>1, StartsGoes
  <2>2. CASE DelegatedDone(t)
    <3>1. PICK d \in delegated[t] : DoneFor(t, d)  BY <2>2 DEF DelegatedDone, DoneFor
    <3> QED BY <1>0, <3>1, DoneGoes
  <2>3. CASE DelegatedRefused(t)
    <3>1. PICK d \in delegated[t] : RefusedFor(t, d)  BY <2>3 DEF DelegatedRefused, RefusedFor
    <3> QED BY <1>0, <3>1, RefusedGoes
  <2> QED BY <1>2, <2>1, <2>2, <2>3 DEF CheckDelegations
<1>3. CASE BecomeIdle(t) \/ Drained(t)  BY <1>0, <1>3, IdleGoes
<1>4. CASE Ask(t)  BY <1>0, <1>4, AskGoes
<1>5. CASE Install(t)  BY <1>0, <1>5, InstallGoes
<1>6. ASSUME NEW q \in Teams,
             \/ GetRequest(t, q) \/ GetRefusal(t, q) \/ GetNotice(t, q) \/ GetOutdated(t, q)
             \/ GetAccepted(t, q)
      PROVE  GoesOn(c)
      BY <1>0, <1>6, GetRequestGoes, GetRefusalGoes, GetOtherGoes, GetAcceptedGoes
<1>7. ASSUME NEW q \in Teams, GetEnd(t, q) PROVE GoesOn(c)
  <2>1. Quiet  BY <1>7, EndIsQuiet DEF GetEnd
  <2>2. \A p \in Teams : Num(msgs[p][t], c, 2) = 0 /\ delegated[p] = {} /\ work[p][t] = <<>>
        BY <1>0, <2>1, QuietFacts
  <2> QED BY <1>0, <1>7, <2>2, GetEndGoes
<1> QED BY <1>1, <1>2, <1>3, <1>4, <1>5, <1>6, <1>7 DEF Step, GetWork


(***************************************************************************)
(* What is right stays right.                                              *)
(***************************************************************************)
LEMMA NetNext ==
  ASSUME NEW c, Types, Types', RightNet(c, Now, msgs),
         Ended(Now') \/ (Follows(Now, Now') /\ Settled(c) /\ ~ Ended(Now)),
         \A u \in Teams : pc[u] = "end" => pc'[u] = "end",
         \A a, b \in Teams : \A x \in In(msgs'[a][b]) :
           x \in In(msgs[a][b]) \/ (x.counter = c => Right(Now', a, b, x))
  PROVE  RightNet(c, Now', msgs')
<1>1. ASSUME NEW a \in Teams, NEW b \in Teams, NEW x \in In(msgs[a][b]), x.counter = c
      PROVE  Right(Now', a, b, x)
  <2>1. Right(Now, a, b, x)  BY <1>1 DEF RightNet
  <2>2. Now.loc[a] = "end" => Now'.loc[a] = "end"  BY NowFacts
  <2>3. CASE Ended(Now')  BY <2>1, <2>2, <2>3 DEF Right
  <2>4. CASE Follows(Now, Now') /\ Settled(c) /\ ~ Ended(Now)
    <3>1. Now \in Moments /\ Now' \in Moments  BY NowMoment, NextMoment
    <3>2. x \in Messages
      <4>1. msgs[a][b] \in Seq(Messages)  BY DEF Types, Nets
      <4> QED BY <4>1, InFacts
    <3>3. x.code = 1 => Now'.time[a] = Now.time[a]  BY <1>1, <2>4, NowFacts DEF Settled
    <3> QED BY <2>1, <2>2, <2>4, <3>1, <3>2, <3>3, RightFollows
  <2> QED BY <2>3, <2>4
<1> QED BY <1>1 DEF RightNet

\* The messages of a round: a request, or the end of the query.
LEMMA RoundSends ==
  ASSUME Types, NEW t \in Teams, NEW net \in Nets(Messages), NEW L \in Loads, NEW T \in Times,
         NEW wait, Round(t, net, L, T, wait)
  PROVE  /\ \A u \in Teams \ {t} : pc'[u] = pc[u]
         /\ \A a, b \in Teams : \A x \in In(msgs'[a][b]) :
              \/ x \in In(net[a][b])
              \/ a = t /\ b # t /\ ~ wait /\ x = Request(t, L, T) /\ pc' = pc
              \/ a = t /\ b # t /\ x = TheEnd(t) /\ pc'[t] = "end"
<1>1. /\ execution_counter[t] \in Counters /\ time_stamp[t] \in Nat
      /\ pc \in [Teams -> {"busy", "drain", "get", "recv", "end"}]
      BY DEF Types
<1>2. Request(t, L, T) \in Messages /\ TheEnd(t) \in Messages  BY <1>1, NewMessages
<1>3. CASE wait /\ msgs' = net /\ UNCHANGED <<pc, waiting>>  BY <1>3
<1>4. CASE /\ ~ wait
           /\ \E u \in Candidates(t, L) : msgs' = Send(net, t, u, Request(t, L, T))
           /\ waiting' = [waiting EXCEPT ![t] = TRUE]
           /\ UNCHANGED pc
  <2>1. PICK u \in Teams \ {t} : msgs' = Send(net, t, u, Request(t, L, T))
        BY <1>4 DEF Candidates
  <2> DEFINE m == Request(t, L, T)
  <2>2. m \in Messages /\ msgs' = Send(net, t, u, m)  BY <1>2, <2>1
  <2> HIDE DEF m
  <2>3. \A a, b \in Teams : \A x \in In(msgs'[a][b]) : x \in In(net[a][b]) \/ (a = t /\ b = u /\ x = m)
        BY <2>2, SentIn
  <2> QED BY <1>4, <2>3 DEF m
<1>5. CASE /\ ~ wait
           /\ Candidates(t, L) = {}
           /\ msgs' = Ending(t, net)
           /\ pc' = [pc EXCEPT ![t] = "end"]
           /\ UNCHANGED waiting
  <2>1. \A a, b \in Teams : \A x \in In(msgs'[a][b]) :
          x \in In(net[a][b]) \/ (a = t /\ b # t /\ x = TheEnd(t))
    <3>1. \A a, b \in Teams : \A x \in In(Ending(t, net)[a][b]) :
            x \in In(net[a][b]) \/ (a = t /\ b # t /\ x = TheEnd(t))
          BY <1>2, EndingFacts
    <3> QED BY <1>5, <3>1
  <2>2. pc'[t] = "end" /\ \A u \in Teams \ {t} : pc'[u] = pc[u]  BY <1>1, <1>5
  <2> QED BY <2>1, <2>2
<1> QED BY <1>3, <1>4, <1>5 DEF Round, Ending

\* The rounds of the loop.
Loop(t, net, L, T, wait) ==
  /\ pc[t] = "get" /\ Round(t, net, L, T, wait)
  /\ net \in Nets(Messages) /\ L \in Loads /\ T \in Times
  /\ UNCHANGED <<time_stamp, from, delegated, copies, counters>>

\* The query is over for a team: the others find that out.
EndGoesOn(c) == SomeEnded' /\ Quiet' /\ RightNet(c, Now', msgs')

LEMMA LoopEnds ==
  ASSUME NEW c, Regular(c), SomeEnded, Types', GoesOn(c), NEW t \in Teams, NEW net, NEW L, NEW T, NEW wait,
         Loop(t, net, L, T, wait),
         \A a, b \in Teams : \A x \in In(net[a][b]) : x \in In(msgs[a][b]) \/ x.code # 6
  PROVE  EndGoesOn(c)
<1>0. /\ Types /\ Uniform(c) /\ RightNet(c, Now, msgs) /\ Quiet
      /\ net \in Nets(Messages) /\ L \in Loads /\ T \in Times /\ Round(t, net, L, T, wait)
      /\ pc[t] = "get" /\ UNCHANGED <<delegated, work, execution_counter>>
      BY DEF Regular, Loop, copies, counters
<1>1. /\ \A u \in Teams \ {t} : pc'[u] = pc[u]
      /\ \A a, b \in Teams : \A x \in In(msgs'[a][b]) :
              \/ x \in In(net[a][b])
              \/ a = t /\ b # t /\ ~ wait /\ x = Request(t, L, T) /\ pc' = pc
              \/ a = t /\ b # t /\ x = TheEnd(t) /\ pc'[t] = "end"
      BY <1>0, RoundSends
<1>2. pc'[t] \in {"get", "end"}  BY <1>0 DEF Round, Types
<1>3. /\ \A t1 \in Teams : pc[t1] \notin {"busy", "recv"} /\ delegated[t1] = {}
      /\ \A p, q \in Teams : work[p][q] = <<>> /\ Num(msgs[p][q], c, 2) = 0
      BY <1>0, QuietFacts
<1>4. Quiet'
  <2>1. \A x \in Teams : execution_counter'[x] = c  BY <1>0 DEF Uniform
  <2>2. \A u \in Teams : pc'[u] # "busy" /\ delegated'[u] = {}  BY <1>0, <1>1, <1>2, <1>3
  <2>3. \A p, u \in Teams : work'[p][u] = <<>>  BY <1>0, <1>3
  <2> QED BY <2>1, <2>2, <2>3, QuietNext
<1>5. \A u \in Teams : pc[u] = "end" => pc'[u] = "end"  BY <1>0, <1>1
<1>6. SomeEnded'  BY <1>5 DEF SomeEnded
<1>7. Ended(Now')  BY <1>6, NowFacts DEF SomeEnded, Ended
<1>8. ASSUME NEW a \in Teams, NEW b \in Teams, NEW x \in In(msgs'[a][b])
      PROVE  x \in In(msgs[a][b]) \/ Right(Now', a, b, x)
  <2>1. CASE x \in In(net[a][b])  BY <1>7, <2>1 DEF Right
  <2>2. CASE x = Request(t, L, T)  BY <1>7, <2>2 DEF Right, Request
  <2>3. CASE a = t /\ pc'[t] = "end"  BY <1>7, <2>3, NowFacts DEF Right
  <2> QED BY <1>1, <2>1, <2>2, <2>3
<1>9. RightNet(c, Now', msgs')  BY <1>0, <1>5, <1>7, <1>8, NetNext
<1> QED BY <1>4, <1>6, <1>9 DEF EndGoesOn


\* The rounds, each with the messages and the arrays at its end.
LEMMA LoopSteps ==
  ASSUME Types, SelfNotices, NEW t \in Teams
  PROVE  /\ Ask(t) => Loop(t, msgs, mpi_load[t], mpi_load_time[t], FALSE) /\ ~ waiting[t]
         /\ \A q \in Teams : GetOutdated(t, q) =>
              Loop(t, Received(q, t), mpi_load[t], mpi_load_time[t], waiting[t])
<1>1. msgs \in Nets(Messages) /\ mpi_load[t] \in Loads /\ mpi_load_time[t] \in Times
      BY DEF Types
<1>2. ASSUME NEW q \in Teams, GetOutdated(t, q)
      PROVE  Loop(t, Received(q, t), mpi_load[t], mpi_load_time[t], waiting[t])
  <2>1. msgs[q][t] # <<>>  BY <1>2 DEF GetOutdated, Outdated
  <2>2. Received(q, t) \in Nets(Messages)  BY <1>1, <2>1, ReceivedFacts
  <2> QED BY <1>1, <1>2, <2>2 DEF GetOutdated, Loop
<1> QED BY <1>1, <1>2 DEF Ask, Loop

LEMMA LoopNotice ==
  ASSUME Types, SelfNotices, NEW t \in Teams, NEW q \in Teams, GetNotice(t, q)
  PROVE  LET m == Head(msgs[q][t]) IN
         /\ Loop(t, Received(q, t), [mpi_load[t] EXCEPT ![q] = m.load],
                 [mpi_load_time[t] EXCEPT ![q] = m.time], waiting[t])
         /\ Stale(mpi_load_time[t], q, m.time)
         /\ m \in In(msgs[q][t]) /\ m \in Messages /\ m.code = 4 /\ m.counter = execution_counter[t]
         /\ \A a, b \in Teams : \A x \in In(Received(q, t)[a][b]) : x \in In(msgs[a][b])
<1> DEFINE m == Head(msgs[q][t])
           L == [mpi_load[t] EXCEPT ![q] = m.load]
           T == [mpi_load_time[t] EXCEPT ![q] = m.time]
<1>1. msgs \in Nets(Messages) /\ mpi_load[t] \in Loads /\ mpi_load_time[t] \in Times
      BY DEF Types
<1>2. msgs[q][t] # <<>> /\ m.code = 4 /\ m.counter = execution_counter[t]
      BY DEF GetNotice, Arrived
<1>3. /\ Received(q, t) \in Nets(Messages) /\ m \in Messages /\ m \in In(msgs[q][t])
      /\ \A a, b \in Teams : \A x \in In(Received(q, t)[a][b]) : x \in In(msgs[a][b])
      BY <1>1, <1>2, ReceivedFacts
<1>4. m.time \in Nat /\ m.load = Some  BY <1>2, <1>3, MessageFacts
<1>5. L \in Loads /\ T \in Times  BY <1>1, <1>4 DEF Loads, Times
<1>6. /\ pc[t] = "get" /\ Round(t, Received(q, t), L, T, waiting[t])
      /\ Stale(mpi_load_time[t], q, m.time)
      /\ UNCHANGED <<time_stamp, from, delegated, copies, counters>>
      BY DEF GetNotice
<1> HIDE DEF m, L, T
<1>7. Loop(t, Received(q, t), L, T, waiting[t])  BY <1>3, <1>5, <1>6 DEF Loop
<1> QED BY <1>2, <1>3, <1>6, <1>7 DEF m, L, T

LEMMA LoopRefusal ==
  ASSUME Types, SelfNotices, NEW t \in Teams, NEW p \in Teams, GetRefusal(t, p)
  PROVE  LET m == Head(msgs[p][t]) IN
         /\ Loop(t, Received(p, t), [MergedLoads(t, m) EXCEPT ![p] = m.load],
                 [MergedTimes(t, m) EXCEPT ![p] = m.time], FALSE)
         /\ Stale(MergedTimes(t, m), p, m.time)
         /\ msgs[p][t] # <<>> /\ p # t
         /\ m \in In(msgs[p][t]) /\ m \in Messages /\ m.code = 3 /\ m.counter = execution_counter[t]
         /\ \A a, b \in Teams : \A x \in In(Received(p, t)[a][b]) : x \in In(msgs[a][b])
<1> DEFINE m == Head(msgs[p][t])
           L == [MergedLoads(t, m) EXCEPT ![p] = m.load]
           T == [MergedTimes(t, m) EXCEPT ![p] = m.time]
<1>1. msgs[p][t] # <<>> /\ m.code = 3 /\ m.counter = execution_counter[t]
      BY DEF GetRefusal, Arrived
<1>2. /\ Received(p, t) \in Nets(Messages) /\ m \in Messages /\ m \in In(msgs[p][t]) /\ p # t
      /\ [MergedLoads(t, m) EXCEPT ![p] = Some] \in Loads
      /\ [MergedLoads(t, m) EXCEPT ![p] = Idle] \in Loads
      /\ T \in Times
      /\ \A a, b \in Teams : \A x \in In(Received(p, t)[a][b]) : x \in In(msgs[a][b])
  <2>1. m.code # 4 /\ m.code \in {1, 3}  BY <1>1
  <2> QED BY <1>1, <2>1, ReadFacts, Zenon
<1>3. m.load \in {Idle, Some}  BY <1>1, <1>2, MessageFacts
<1>4. L \in Loads  BY <1>2, <1>3
<1>5. /\ pc[t] = "get" /\ Round(t, Received(p, t), L, T, FALSE)
      /\ Stale(MergedTimes(t, m), p, m.time)
      /\ UNCHANGED <<time_stamp, from, delegated, copies, counters>>
      BY DEF GetRefusal
<1> HIDE DEF m, L, T
<1>6. Loop(t, Received(p, t), L, T, FALSE)  BY <1>2, <1>4, <1>5 DEF Loop
<1> QED BY <1>1, <1>2, <1>5, <1>6 DEF m, L, T

LEMMA LoopRequest ==
  ASSUME Types, SelfNotices, NEW t \in Teams, NEW q \in Teams, GetRequest(t, q)
  PROVE  LET m == Head(msgs[q][t])
             L == [MergedLoads(t, m) EXCEPT ![q] = Idle]
             T == [MergedTimes(t, m) EXCEPT ![q] = m.time] IN
         /\ Loop(t, Send(Received(q, t), t, q, Refusal(t, Idle, L, T)), L, T, waiting[t])
         /\ stale' = (stale \/ m.time < MergedTimes(t, m)[q] \/ GiverIdle(t, L, T))
         /\ msgs[q][t] # <<>> /\ q # t
         /\ m \in In(msgs[q][t]) /\ m \in Messages /\ m.code = 1 /\ m.counter = execution_counter[t]
         /\ \A a, b \in Teams : \A x \in In(Send(Received(q, t), t, q, Refusal(t, Idle, L, T))[a][b]) :
              x \in In(msgs[a][b]) \/ (a = t /\ b = q /\ x = Refusal(t, Idle, L, T))
<1> DEFINE m == Head(msgs[q][t])
           L == [MergedLoads(t, m) EXCEPT ![q] = Idle]
           T == [MergedTimes(t, m) EXCEPT ![q] = m.time]
           r == Refusal(t, Idle, L, T)
           net == Send(Received(q, t), t, q, r)
<1>1. msgs[q][t] # <<>> /\ m.code = 1 /\ m.counter = execution_counter[t]
      BY DEF GetRequest, Arrived
<1>2. /\ Received(q, t) \in Nets(Messages) /\ m \in Messages /\ m \in In(msgs[q][t]) /\ q # t
      /\ L \in Loads /\ T \in Times
      /\ \A a, b \in Teams : \A x \in In(Received(q, t)[a][b]) : x \in In(msgs[a][b])
  <2>1. m.code # 4 /\ m.code \in {1, 3}  BY <1>1
  <2> QED BY <1>1, <2>1, ReadFacts, Zenon
<1>3. /\ pc[t] = "get" /\ Round(t, net, L, T, waiting[t])
      /\ stale' = (stale \/ m.time < MergedTimes(t, m)[q] \/ GiverIdle(t, L, T))
      /\ UNCHANGED <<time_stamp, from, delegated, copies, counters>>
      BY DEF GetRequest
<1>4. r \in Messages
  <2>1. execution_counter[t] \in Counters /\ time_stamp[t] \in Nat  BY DEF Types
  <2> HIDE DEF L, T
  <2> QED BY <1>2, <2>1, NewMessages
<1> HIDE DEF m, L, T, r
<1>5. net \in Nets(Messages)  BY <1>2, <1>4, SentType
<1>6. \A a, b \in Teams : \A x \in In(net[a][b]) :
        x \in In(Received(q, t)[a][b]) \/ (a = t /\ b = q /\ x = r)
      BY <1>2, <1>4, SentIn
<1> HIDE DEF net
<1>7. Loop(t, net, L, T, waiting[t])  BY <1>2, <1>3, <1>5 DEF Loop
<1>8. \A a, b \in Teams : \A x \in In(net[a][b]) : x \in In(msgs[a][b]) \/ (a = t /\ b = q /\ x = r)
      BY <1>2, <1>6
<1> QED BY <1>1, <1>2, <1>3, <1>7, <1>8 DEF m, L, T, r, net

\* Nothing but the end happens once a team has found that the query is over.
LEMMA EndedStep ==
  ASSUME NEW c, Regular(c), SomeEnded, NEW t \in Teams, Step(t), Types', GoesOn(c)
  PROVE  EndGoesOn(c)
<1>0. /\ Types /\ SelfNotices /\ Uniform(c) /\ RightNet(c, Now, msgs) /\ Quiet
      /\ msgs \in Nets(Messages)
      BY DEF Regular, Types
<1>1. /\ \A u \in Teams : pc[u] \notin {"busy", "recv"} /\ delegated[u] = {}
      /\ \A p, q \in Teams : work[p][q] = <<>> /\ Num(msgs[p][q], c, 2) = 0
      BY <1>0, QuietFacts
<1>2. ~ CheckMessages(t) /\ ~ CheckDelegations(t) /\ ~ BecomeIdle(t) /\ ~ Install(t)
  <2>1. ~ CheckMessages(t)
        BY <1>1 DEF CheckMessages, Reject, GiveWork, Delegate, LearnNotice, DropMessage
  <2>2. ~ CheckDelegations(t)
        BY <1>1 DEF CheckDelegations, DelegatedStarts, DelegatedDone, DelegatedRefused
  <2> QED BY <1>1, <2>1, <2>2 DEF BecomeIdle, Install
<1>3. ASSUME NEW q \in Teams PROVE ~ GetAccepted(t, q)
  <2>1. ASSUME Arrived(t, q, {2}) PROVE FALSE
    <3>1. msgs[q][t] # <<>> /\ Head(msgs[q][t]).counter = c /\ Head(msgs[q][t]).code = 2
          BY <1>0, <2>1 DEF Arrived, Uniform
    <3>2. Head(msgs[q][t]) \in In(msgs[q][t])  BY <1>0, <3>1, ReceivedFacts
    <3>3. Num(msgs[q][t], c, 2) # 0  BY <3>1, <3>2, NumIn
    <3> QED BY <1>1, <3>3
  <2> QED BY <2>1 DEF GetAccepted
<1>4. CASE Ask(t)
  <2>1. Loop(t, msgs, mpi_load[t], mpi_load_time[t], FALSE)  BY <1>0, <1>4, LoopSteps
  <2> QED BY <2>1, LoopEnds
<1>5. ASSUME NEW q \in Teams, GetRequest(t, q) PROVE EndGoesOn(c)
  <2> DEFINE m == Head(msgs[q][t])
             L == [MergedLoads(t, m) EXCEPT ![q] = Idle]
             T == [MergedTimes(t, m) EXCEPT ![q] = m.time]
             r == Refusal(t, Idle, L, T)
             net == Send(Received(q, t), t, q, r)
  <2>1. /\ Loop(t, net, L, T, waiting[t])
        /\ \A a, b \in Teams : \A x \in In(net[a][b]) : x \in In(msgs[a][b]) \/ (a = t /\ b = q /\ x = r)
        BY <1>0, <1>5, LoopRequest
  <2>2. r.code = 3  BY DEF Refusal
  <2> HIDE DEF m, L, T, r, net
  <2>3. \A a, b \in Teams : \A x \in In(net[a][b]) : x \in In(msgs[a][b]) \/ x.code # 6
        BY <2>1, <2>2
  <2> QED BY <2>1, <2>3, LoopEnds
<1>6. ASSUME NEW q \in Teams, GetRefusal(t, q) PROVE EndGoesOn(c)
  <2> DEFINE m == Head(msgs[q][t])
             L == [MergedLoads(t, m) EXCEPT ![q] = m.load]
             T == [MergedTimes(t, m) EXCEPT ![q] = m.time]
  <2>1. /\ Loop(t, Received(q, t), L, T, FALSE)
        /\ \A a, b \in Teams : \A x \in In(Received(q, t)[a][b]) : x \in In(msgs[a][b])
        BY <1>0, <1>6, LoopRefusal
  <2> HIDE DEF m, L, T
  <2> QED BY <2>1, LoopEnds
<1>7. ASSUME NEW q \in Teams, GetNotice(t, q) PROVE EndGoesOn(c)
  <2> DEFINE m == Head(msgs[q][t])
             L == [mpi_load[t] EXCEPT ![q] = m.load]
             T == [mpi_load_time[t] EXCEPT ![q] = m.time]
  <2>1. /\ Loop(t, Received(q, t), L, T, waiting[t])
        /\ \A a, b \in Teams : \A x \in In(Received(q, t)[a][b]) : x \in In(msgs[a][b])
        BY <1>0, <1>7, LoopNotice
  <2> HIDE DEF m, L, T
  <2> QED BY <2>1, LoopEnds
<1>8. ASSUME NEW q \in Teams, GetOutdated(t, q) PROVE EndGoesOn(c)
  <2>1. Loop(t, Received(q, t), mpi_load[t], mpi_load_time[t], waiting[t])
        BY <1>0, <1>8, LoopSteps
  <2>2. msgs[q][t] # <<>>  BY <1>8 DEF GetOutdated, Outdated
  <2>3. \A a, b \in Teams : \A x \in In(Received(q, t)[a][b]) : x \in In(msgs[a][b])
        BY <1>0, <2>2, ReceivedFacts
  <2> QED BY <2>1, <2>3, LoopEnds
<1>9. ASSUME \/ Drained(t) \/ \E q \in Teams : GetEnd(t, q)
      PROVE  EndGoesOn(c)
  <2>1. UNCHANGED <<delegated, work, execution_counter>>
        BY <1>9 DEF Drained, GetEnd, network, copies, counters
  <2>2. \A a, b \in Teams : \A x \in In(msgs'[a][b]) : x \in In(msgs[a][b])
    <3>1. CASE Drained(t)
      <4>1. msgs' = msgs  BY <3>1 DEF Drained, network
      <4> QED BY <4>1
    <3>2. ASSUME NEW q \in Teams, GetEnd(t, q)
          PROVE  \A a, b \in Teams : \A x \in In(msgs'[a][b]) : x \in In(msgs[a][b])
      <4>1. msgs[q][t] # <<>> /\ msgs' = Received(q, t)  BY <3>2 DEF GetEnd, Arrived
      <4> QED BY <1>0, <4>1, ReceivedFacts
    <3> QED BY <1>9, <3>1, <3>2
  <2>3. /\ \A u \in Teams : pc'[u] = pc[u] \/ pc'[u] \in {"get", "end"}
        /\ \A u \in Teams : pc[u] = "end" => pc'[u] = "end"
        BY <1>9 DEF Drained, GetEnd, Types
  <2>4. Quiet'
    <3>1. \A x \in Teams : execution_counter'[x] = c  BY <1>0, <2>1 DEF Uniform
    <3>2. \A u \in Teams : pc'[u] # "busy" /\ delegated'[u] = {}  BY <1>1, <2>1, <2>3
    <3>3. \A p, u \in Teams : work'[p][u] = <<>>  BY <1>1, <2>1
    <3> QED BY <3>1, <3>2, <3>3, QuietNext
  <2>5. SomeEnded' /\ Ended(Now')  BY <2>3, NowFacts DEF SomeEnded, Ended
  <2>6. RightNet(c, Now', msgs')  BY <1>0, <2>2, <2>3, <2>5, NetNext
  <2> QED BY <2>4, <2>5, <2>6 DEF EndGoesOn
<1> QED BY <1>2, <1>3, <1>4, <1>5, <1>6, <1>7, <1>8, <1>9 DEF Step, GetWork


-----------------------------------------------------------------------------
(***************************************************************************)
(* The steps of a query that is not over for any team.                     *)
(***************************************************************************)
Alive(c) == Regular(c) /\ ~ SomeEnded /\ GivenInv /\ Cuts(Now) /\ KnowledgeInv

LiveOn(c) ==
  /\ RightNet(c, Now', msgs')
  /\ SomeEnded' => Quiet'
  /\ SomeEnded' \/ (GivenInv' /\ Cuts(Now') /\ KnowledgeInv')

LEMMA AliveFacts ==
  ASSUME NEW c, Alive(c)
  PROVE  /\ Types /\ SelfNotices /\ Uniform(c) /\ Now \in Moments /\ GiftTimes(Now)
         /\ \A x \in Teams : Goes(c, x, msgs) /\ pc[x] # "end"
         /\ \A t \in Teams : /\ mpi_load[t] \in Loads /\ mpi_load_time[t] \in Times
                             /\ Knowing(Now, t, mpi_load[t], mpi_load_time[t])
                             /\ execution_counter[t] = c /\ time_stamp[t] \in Nat
         /\ \A p, q \in Teams : \A m \in In(msgs[p][q]) :
              m.counter = c => m.code # 6 /\ TellsRight(Now, p, q, m)
<1>1. Types /\ SelfNotices /\ Uniform(c) /\ \A x \in Teams : Goes(c, x, msgs) /\ pc[x] # "end"
      BY DEF Alive, Regular, SomeEnded
<1>2. Now \in Moments  BY <1>1, NowMoment
<1>3. GiftTimes(Now)  BY DEF Alive, GivenInv
<1>4. \A t \in Teams : /\ mpi_load[t] \in Loads /\ mpi_load_time[t] \in Times
                       /\ Knowing(Now, t, mpi_load[t], mpi_load_time[t])
                       /\ execution_counter[t] = c /\ time_stamp[t] \in Nat
      BY <1>1 DEF Alive, KnowledgeInv, Types, Uniform
<1>5. ~ Ended(Now)  BY NowFacts DEF Alive, SomeEnded, Ended
<1>6. ASSUME NEW p \in Teams, NEW q \in Teams, NEW m \in In(msgs[p][q]), m.counter = c
      PROVE  m.code # 6 /\ TellsRight(Now, p, q, m)
  <2>1. Right(Now, p, q, m)  BY <1>6 DEF Alive, Regular, RightNet
  <2> QED BY <1>5, <2>1 DEF Right, Ended
<1> QED BY <1>1, <1>2, <1>3, <1>4, <1>6

LEMMA LiveNext ==
  ASSUME NEW c, Alive(c), Types', Moves(c), KnowledgeInv', \A u \in Teams : pc'[u] # "end",
         \A a, b \in Teams : \A x \in In(msgs'[a][b]) :
           x \in In(msgs[a][b]) \/ (x.counter = c => Right(Now', a, b, x))
  PROVE  LiveOn(c)
<1>1. Types /\ RightNet(c, Now, msgs)  BY DEF Alive, Regular
<1>2. ~ SomeEnded'  BY DEF SomeEnded
<1>3. ~ Ended(Now)  BY NowFacts DEF Alive, SomeEnded, Ended
<1>4. \A u \in Teams : pc[u] # "end"  BY DEF Alive, SomeEnded
<1>5. RightNet(c, Now', msgs')  BY <1>1, <1>3, <1>4, NetNext DEF Moves
<1> QED BY <1>2, <1>5 DEF LiveOn, Moves

\* What the teams know, after a step of t.
LEMMA KnowledgeNext ==
  ASSUME NEW c, Alive(c), Types', Moves(c), NEW t \in Teams,
         Knowing(Now', t, mpi_load'[t], mpi_load_time'[t]),
         \A u \in Teams \ {t} : mpi_load'[u] = mpi_load[u] /\ mpi_load_time'[u] = mpi_load_time[u],
         \A g \in given' \ given : g.from = t,
         \A p, q \in Teams : \A m \in In(work'[p][q]) :
           m \in In(work[p][q]) \/ Tells(Now', p, q, m.loads, m.times, m.time),
         \A p \in Teams : \A d \in delegated'[p] :
           (\E e \in delegated[p] : e.q = d.q /\ e.time = d.time) \/ d.time = time_stamp'[d.q]
  PROVE  KnowledgeInv'
<1>1. Types /\ Now \in Moments /\ Now' \in Moments /\ Follows(Now, Now') /\ GiftTimes(Now)
      BY AliveFacts, NextMoment DEF Moves
<1>2. ASSUME NEW u \in Teams \ {t} PROVE Knowing(Now', u, mpi_load[u], mpi_load_time[u])
  <2>1. Knowing(Now, u, mpi_load[u], mpi_load_time[u]) /\ mpi_load_time[u] \in Times
        BY AliveFacts
  <2> DEFINE L == mpi_load[u]
             T == mpi_load_time[u]
  <2>2. Knowing(Now, u, L, T) /\ T \in Times  BY <2>1
  <2> HIDE DEF L, T
  <2>3. AllInTime(Now', T) /\ Knows(Now', u, L, T)
        BY <1>1, <2>2, TimeFollows, KnowsFollows DEF Knowing
  <2>4. KnowsOwn(Now, u, Now.time[u], u, T)  BY <2>2 DEF Knowing
  <2>5. \A v \in Teams : T[v] <= T[v]
    <3>1. \A v \in Teams : T[v] \in Nat  BY <2>2 DEF Times
    <3> QED BY <3>1
  <2>6. \A g \in Now'.given \ Now.given : g.from = u => g.time < T[g.to]  BY <1>2, NowFacts
  <2>7. Knowing(Now', u, L, T)  BY <1>1, <2>2, <2>3, <2>4, <2>5, <2>6, KnowingFollows
  <2> QED BY <2>7 DEF L, T
<1>3. \A u \in Teams : Knowing(Now', u, mpi_load'[u], mpi_load_time'[u])
  <2>1. ASSUME NEW u \in Teams PROVE Knowing(Now', u, mpi_load'[u], mpi_load_time'[u])
    <3>1. CASE u = t  BY <3>1
    <3>2. CASE u # t
      <4>1. mpi_load'[u] = mpi_load[u] /\ mpi_load_time'[u] = mpi_load_time[u]  BY <3>2
      <4> QED BY <1>2, <3>2, <4>1
    <3> QED BY <3>1, <3>2
  <2> QED BY <2>1
<1>4. ASSUME NEW p \in Teams, NEW q \in Teams, NEW m \in In(work'[p][q])
      PROVE  Tells(Now', p, q, m.loads, m.times, m.time)
  <2>1. CASE m \in In(work[p][q])
    <3>1. Tells(Now, p, q, m.loads, m.times, m.time)  BY <2>1 DEF Alive, KnowledgeInv
    <3>2. m \in Copies
      <4>1. work[p][q] \in Seq(Copies)  BY <1>1 DEF Types, Nets
      <4> QED BY <2>1, <4>1, InFacts
    <3>3. m.times \in Times /\ m.time \in Nat  BY <3>2 DEF Copies
    <3> QED BY <1>1, <3>1, <3>3, TellsFollows
  <2> QED BY <1>4, <2>1
<1>5. ASSUME NEW p \in Teams, NEW d \in delegated'[p] PROVE d.time = time_stamp'[d.q]
  <2>1. ASSUME NEW e \in delegated[p], e.q = d.q, e.time = d.time PROVE d.time = time_stamp'[d.q]
    <3>1. e.time = time_stamp[e.q]  BY DEF Alive, KnowledgeInv
    <3>2. time_stamp'[e.q] = time_stamp[e.q]  BY DEF Moves, Settled
    <3> QED BY <2>1, <3>1, <3>2
  <2> QED BY <1>5, <2>1
<1> QED BY <1>3, <1>4, <1>5 DEF KnowledgeInv

\* What t knew itself, and what it learns or not, after the step.
LEMMA KnowingNext ==
  ASSUME NEW c, Alive(c), Types', Follows(Now, Now'), NEW t \in Teams, NEW L \in Loads, NEW T \in Times,
         \A u \in Teams : mpi_load_time[t][u] <= T[u],
         AllInTime(Now', T), Knows(Now', t, L, T),
         \A g \in given' \ given : g.from = t => g.time < T[g.to]
  PROVE  Knowing(Now', t, L, T)
<1>1. Now \in Moments /\ Now' \in Moments /\ GiftTimes(Now) /\ mpi_load_time[t] \in Times
      /\ Knowing(Now, t, mpi_load[t], mpi_load_time[t])
      BY AliveFacts, NextMoment
<1> DEFINE V == mpi_load_time[t]
<1>2. V \in Times /\ KnowsOwn(Now, t, Now.time[t], t, V) /\ \A u \in Teams : V[u] <= T[u]
      BY <1>1 DEF Knowing
<1>3. \A g \in Now'.given \ Now.given : g.from = t => g.time < T[g.to]  BY NowFacts
<1> HIDE DEF V
<1> QED BY <1>1, <1>2, <1>3, KnowingFollows

\* Arrays that were right before the step, and nothing is given in it.
LEMMA LearntNext ==
  ASSUME NEW c, Alive(c), Types', Follows(Now, Now'), NEW t \in Teams, NEW L \in Loads, NEW T \in Times,
         \A u \in Teams : mpi_load_time[t][u] <= T[u],
         AllInTime(Now, T), Knows(Now, t, L, T), given' = given
  PROVE  Knowing(Now', t, L, T)
<1>1. Now \in Moments /\ Now' \in Moments  BY AliveFacts, NextMoment
<1>2. AllInTime(Now', T) /\ Knows(Now', t, L, T)  BY <1>1, TimeFollows, KnowsFollows
<1> QED BY <1>2, KnowingNext

\* A team with work may tell what it knows.
LEMMA BusyTells ==
  ASSUME NEW c, Alive(c), NEW t \in Teams, pc[t] \in {"busy", "drain"}, NEW x \in Teams,
         NEW L, NEW T \in Times, AllInTime(Now, T), Knows(Now, t, L, T)
  PROVE  Tells(Now, t, x, L, T, time_stamp[t])
<1>1. Types /\ Now \in Moments /\ Goes(c, t, msgs) /\ GivenInv  BY AliveFacts DEF Alive
<1>2. \A p \in Teams : work[p][t] = <<>>  BY <1>1, IdleNothing
<1>3. \A g \in given : g.to = t => g.time < time_stamp[t]  BY <1>1, <1>2, NoGift
<1>4. \A g \in Now.given : g.to = t /\ L[g.from] = Idle /\ g.at < T[g.from] => g.time < Now.time[t]
      BY <1>3, NowFacts
<1>5. Tells(Now, t, x, L, T, Now.time[t])  BY <1>1, <1>4, CanTell
<1> QED BY <1>5, NowFacts

\* A refusal with these arrays is right.
LEMMA RefusalRight ==
  ASSUME NEW s, NEW t \in Teams, NEW x, NEW load \in {Idle, Some}, NEW L, NEW T,
         Tells(s, t, x, L, T, time_stamp[t]), load = Idle => TellsIdle(s, t, x, T, time_stamp[t])
  PROVE  Right(s, t, x, Refusal(t, load, L, T))
BY DEF Refusal, Right, TellsRight

LEMMA AnswerRight ==
  ASSUME NEW s, NEW t \in Teams, NEW x
  PROVE  Right(s, t, x, Accepted(t))
BY DEF Accepted, Message, Right, TellsRight


\* The arrays after a message of o, at time n, with load ld, are right and later.
LearntFrom(t, o, m, n, ld) ==
  LET K == [MergedLoads(t, m) EXCEPT ![o] = ld]
      V == [MergedTimes(t, m) EXCEPT ![o] = n] IN
  /\ K \in Loads /\ V \in Times /\ AllInTime(Now, V) /\ Knows(Now, t, K, V)
  /\ \A u \in Teams : mpi_load_time[t][u] <= V[u]
  /\ K[o] = ld /\ V[o] = n

LEMMA Merges ==
  ASSUME NEW c, Alive(c), NEW t \in Teams, NEW o \in Teams \ {t}, NEW m,
         m.loads \in Loads, m.times \in Times, NEW n \in Nat, Tells(Now, o, t, m.loads, m.times, n),
         NEW ld \in {Idle, Some}, ld = Idle => TellsIdle(Now, o, t, m.times, n),
         mpi_load_time[t][o] <= n, m.times[o] <= n
  PROVE  LearntFrom(t, o, m, n, ld)
<1> DEFINE K == [MergedLoads(t, m) EXCEPT ![o] = ld]
           V == [MergedTimes(t, m) EXCEPT ![o] = n]
           L == mpi_load[t]
           T == mpi_load_time[t]
           ml == m.loads
           mt == m.times
<1>1. /\ Types /\ Now \in Moments /\ L \in Loads /\ T \in Times /\ AllInTime(Now, T) /\ Knows(Now, t, L, T)
      BY AliveFacts DEF Knowing
<1>2. K \in Loads /\ V \in Times
  <2>1. MergedLoads(t, m) \in Loads /\ MergedTimes(t, m) \in Times  BY <1>1, MergedTypes
  <2> QED BY <2>1 DEF Loads, Times
<1>3. /\ \A u \in Teams : u # o => V[u] = (IF u # t /\ mt[u] > T[u] THEN mt[u] ELSE T[u])
      /\ \A u \in Teams : u # o => K[u] = (IF u # t /\ mt[u] > T[u] THEN ml[u] ELSE L[u])
      BY DEF MergedLoads, MergedTimes, Newer
<1>4. V[o] = n /\ K[o] = ld  BY DEF MergedLoads, MergedTimes
<1>5. /\ ml \in Loads /\ mt \in Times /\ Tells(Now, o, t, ml, mt, n)
      /\ ld = Idle => TellsIdle(Now, o, t, mt, n)
      /\ T[o] <= n /\ mt[o] <= n
      OBVIOUS
<1> HIDE DEF K, V, L, T, ml, mt
<1>6. AllInTime(Now, V) /\ Knows(Now, t, K, V) /\ \A u \in Teams : T[u] <= V[u]
      BY <1>1, <1>2, <1>3, <1>4, <1>5, MergeKnows
<1> QED BY <1>2, <1>4, <1>6 DEF K, V, T, LearntFrom

\* A team with work learns from a request.
LEMMA LearnsRequest ==
  ASSUME NEW c, Alive(c), NEW t \in Teams, NEW q \in Teams, Arrived(t, q, {1})
  PROVE  LET m == Head(msgs[q][t])
             K == [MergedLoads(t, m) EXCEPT ![q] = Some]
             V == [MergedTimes(t, m) EXCEPT ![q] = m.time] IN
         /\ q # t /\ m.time = time_stamp[q] /\ m.time \in Nat /\ pc[q] = "get"
         /\ msgs[q][t] # <<>> /\ work[t][q] = <<>>
         /\ \A a, b \in Teams : \A x \in In(Received(q, t)[a][b]) : x \in In(msgs[a][b])
         /\ Received(q, t) \in Nets(Messages)
         /\ K \in Loads /\ V \in Times /\ AllInTime(Now, V) /\ Knows(Now, t, K, V)
         /\ \A u \in Teams : mpi_load_time[t][u] <= V[u]
         /\ K[q] = Some /\ V[q] = m.time
<1> DEFINE m == Head(msgs[q][t])
           K == [MergedLoads(t, m) EXCEPT ![q] = Some]
           V == [MergedTimes(t, m) EXCEPT ![q] = m.time]
<1>1. Types /\ SelfNotices /\ Uniform(c) /\ (\A x \in Teams : Goes(c, x, msgs) /\ pc[x] # "end")
      /\ GivenInv /\ Now \in Moments
      BY AliveFacts DEF Alive
<1>2. /\ q # t /\ m \in Messages /\ m \in In(msgs[q][t])
      /\ msgs[q][t] # <<>> /\ m.counter = c /\ m.code = 1
      /\ Waits(c, q, t, pc[q], waiting[q], msgs, delegated, work)
      /\ IsSent(c, q, t, msgs, delegated, work)
      BY <1>1, ReadsRequest
<1>3. pc[q] = "get" /\ \A p \in Teams : work[p][q] = <<>>
  <2>1. pc[q] = "get" /\ \A u \in Teams \ {t} : work[u][q] = <<>>
        BY <1>2 DEF Waits, None, Nothing
  <2>2. work[t][q] = <<>>  BY <1>2 DEF IsSent
  <2> QED BY <2>1, <2>2
<1>4. \A n \in Nat : InTime(Now, q, n) => n <= time_stamp[q]  BY <1>1, <1>3, NoGift
<1>5. m.time \in Nat /\ m.loads \in Loads /\ m.times \in Times  BY <1>2, MessageFacts
<1>6. Tells(Now, q, t, m.loads, m.times, m.time) /\ m.time = time_stamp[q]
  <2>1. TellsRight(Now, q, t, m)  BY <1>2, AliveFacts
  <2> QED BY <1>2, <2>1, NowFacts DEF TellsRight
<1>7. mpi_load_time[t][q] <= m.time /\ m.times[q] <= m.time
  <2>1. mpi_load_time[t] \in Times /\ Knowing(Now, t, mpi_load[t], mpi_load_time[t])
        BY AliveFacts
  <2>2. mpi_load_time[t][q] \in Nat /\ InTime(Now, q, mpi_load_time[t][q])
        BY <2>1 DEF Knowing, AllInTime, Times
  <2>3. m.times[q] \in Nat /\ InTime(Now, q, m.times[q])
        BY <1>5, <1>6 DEF Tells, AllInTime, Times
  <2> QED BY <1>4, <1>6, <2>2, <2>3
<1>8. /\ Some \in {Idle, Some} /\ q \in Teams \ {t}
      /\ Some = Idle => TellsIdle(Now, q, t, m.times, m.time)
      BY <1>2 DEF Idle, Some
<1> HIDE DEF m
<1>11. LearntFrom(t, q, m, m.time, Some)  BY <1>5, <1>6, <1>7, <1>8, Merges
<1>9. /\ K \in Loads /\ V \in Times /\ AllInTime(Now, V) /\ Knows(Now, t, K, V)
      /\ \A u \in Teams : mpi_load_time[t][u] <= V[u]
      /\ K[q] = Some /\ V[q] = m.time
      BY <1>11 DEF LearntFrom
<1>10. /\ \A a, b \in Teams : \A x \in In(Received(q, t)[a][b]) : x \in In(msgs[a][b])
       /\ Received(q, t) \in Nets(Messages)
       BY <1>1, <1>2, ReadFacts
<1> QED BY <1>2, <1>3, <1>5, <1>6, <1>9, <1>10 DEF m

LEMMA RejectLives ==
  ASSUME NEW c, Alive(c), Types', NEW t \in Teams, NEW q \in Teams, Reject(t, q)
  PROVE  LiveOn(c)
<1> DEFINE m == Head(msgs[q][t])
           K == [MergedLoads(t, m) EXCEPT ![q] = Some]
           V == [MergedTimes(t, m) EXCEPT ![q] = m.time]
<1>1. /\ pc[t] = "busy" /\ Arrived(t, q, {1}) /\ Know(t, K, V)
      /\ msgs' = Send(Received(q, t), t, q, Refusal(t, Some, mpi_load'[t], mpi_load_time'[t]))
      /\ time_stamp' = [time_stamp EXCEPT ![t] = @ + 1]
      /\ UNCHANGED <<pc, delegated, given, work>>
      BY DEF Reject, LearnRequest, copies
<1>2. /\ q # t /\ K \in Loads /\ V \in Times /\ AllInTime(Now, V) /\ Knows(Now, t, K, V)
      /\ \A u \in Teams : mpi_load_time[t][u] <= V[u]
      /\ \A a, b \in Teams : \A x \in In(Received(q, t)[a][b]) : x \in In(msgs[a][b])
      /\ Received(q, t) \in Nets(Messages)
      BY <1>1, LearnsRequest
<1> HIDE DEF m, K, V
<1>3. Types /\ GivenInv /\ Cuts(Now) /\ Goes(c, t, msgs) /\ \A x \in Teams : pc[x] # "end"
      BY AliveFacts DEF Alive
<1>4. Moves(c)  BY <1>1, <1>3, TickMoves
<1>5. mpi_load'[t] = K /\ mpi_load_time'[t] = V
      /\ \A u \in Teams \ {t} : mpi_load'[u] = mpi_load[u] /\ mpi_load_time'[u] = mpi_load_time[u]
      BY <1>1, <1>3 DEF Know, Types
<1>6. Follows(Now, Now')  BY <1>4 DEF Moves
<1>7. Knowing(Now', t, K, V)  BY <1>1, <1>2, <1>6, LearntNext
<1>8. KnowledgeInv'  BY <1>1, <1>4, <1>5, <1>7, KnowledgeNext
<1> DEFINE r == Refusal(t, Some, K, V)
<1>9. Right(Now', t, q, r)
  <2>1. Tells(Now, t, q, K, V, time_stamp[t])  BY <1>1, <1>2, BusyTells
  <2>2. Now \in Moments /\ Now' \in Moments /\ time_stamp[t] \in Nat  BY AliveFacts, NextMoment
  <2>3. Tells(Now', t, q, K, V, time_stamp[t])  BY <1>2, <1>6, <2>1, <2>2, TellsFollows
  <2>4. Some \in {Idle, Some} /\ Some # Idle  BY DEF Idle, Some
  <2> QED BY <2>3, <2>4, RefusalRight
<1>10. r \in Messages
  <2>1. execution_counter[t] \in Counters /\ time_stamp[t] \in Nat  BY <1>3 DEF Types
  <2> QED BY <1>2, <2>1, NewMessages
<1>11. msgs' = Send(Received(q, t), t, q, r)  BY <1>1, <1>5
<1> HIDE DEF r
<1>12. \A a, b \in Teams : \A x \in In(msgs'[a][b]) :
         x \in In(Received(q, t)[a][b]) \/ (a = t /\ b = q /\ x = r)
       BY <1>2, <1>10, <1>11, SentIn
<1>13. \A a, b \in Teams : \A x \in In(msgs'[a][b]) :
         x \in In(msgs[a][b]) \/ (x.counter = c => Right(Now', a, b, x))
       BY <1>2, <1>9, <1>12
<1>14. \A u \in Teams : pc'[u] # "end"  BY <1>1, <1>3
<1> QED BY <1>4, <1>8, <1>13, <1>14, LiveNext


\* The messages after one right message has been sent.
LEMMA SendRight ==
  ASSUME NEW net \in Nets(Messages), NEW s, NEW c, NEW t \in Teams, NEW q \in Teams, NEW r \in Messages,
         Right(s, t, q, r), msgs' = Send(net, t, q, r),
         \A a, b \in Teams : \A x \in In(net[a][b]) : x \in In(msgs[a][b])
  PROVE  \A a, b \in Teams : \A x \in In(msgs'[a][b]) :
           x \in In(msgs[a][b]) \/ (x.counter = c => Right(s, a, b, x))
<1>1. \A a, b \in Teams : \A x \in In(msgs'[a][b]) :
         x \in In(net[a][b]) \/ (a = t /\ b = q /\ x = r)
      BY SentIn
<1> QED BY <1>1

\* What t tells with the work that it gives is right, and what it knows then.
LEMMA GivesRight ==
  ASSUME NEW c, Alive(c), Types', Follows(Now, Now'), NEW t \in Teams, NEW q \in Teams \ {t},
         pc[t] \in {"busy", "drain"}, pc'[q] \in {"get", "recv"},
         NEW L \in Loads, NEW T \in Times, AllInTime(Now, T), Knows(Now, t, L, T),
         \A u \in Teams : mpi_load_time[t][u] <= T[u],
         time_stamp'[q] = time_stamp[q],
         work' = Send(work, t, q, Work(time_stamp[t], L, T)),
         given' = given \cup {Given(t, q, time_stamp[q])}
  PROVE  /\ \A a, b \in Teams : \A x \in In(work'[a][b]) :
              x \in In(work[a][b]) \/ Tells(Now', a, b, x.loads, x.times, x.time)
         /\ Knowing(Now', t, [L EXCEPT ![q] = Some], [T EXCEPT ![q] = time_stamp[q] + 1])
<1>1. /\ Types /\ Now \in Moments /\ Now' \in Moments /\ time_stamp[t] \in Nat /\ time_stamp[q] \in Nat
      BY AliveFacts, NextMoment
<1>2. Tells(Now', t, q, L, T, time_stamp[t])
  <2>1. Tells(Now, t, q, L, T, time_stamp[t])  BY BusyTells
  <2> QED BY <1>1, <2>1, TellsFollows
<1>3. \A a, b \in Teams : \A x \in In(work'[a][b]) :
        x \in In(work[a][b]) \/ Tells(Now', a, b, x.loads, x.times, x.time)
  <2> DEFINE w == Work(time_stamp[t], L, T)
  <2>1. w.loads = L /\ w.times = T /\ w.time = time_stamp[t] /\ w \in Copies /\ work \in Nets(Copies)
        /\ work' = Send(work, t, q, w)
        BY <1>1 DEF Work, Copies, Types
  <2> HIDE DEF w
  <2>2. \A a, b \in Teams : \A x \in In(Send(work, t, q, w)[a][b]) :
          x \in In(work[a][b]) \/ (a = t /\ b = q /\ x = w)
        BY <2>1, SentWork
  <2> QED BY <1>2, <2>1, <2>2
<1> DEFINE K == [L EXCEPT ![q] = Some]
           n == time_stamp[q] + 1
           V == [T EXCEPT ![q] = n]
<1>4. K \in Loads /\ V \in Times /\ n \in Nat /\ V[q] = n /\ \A u \in Teams \ {q} : V[u] = T[u]
      BY <1>1 DEF Loads, Times
<1>5. T[q] <= n
  <2>1. T[q] \in Nat /\ InTime(Now, q, T[q])  BY DEF AllInTime, Times
  <2> QED BY <1>1, <2>1, NowFacts DEF InTime
<1>6. \E g \in given' : g.to = q /\ g.time = time_stamp'[q]
  <2> DEFINE h == Given(t, q, time_stamp[q])
  <2>1. h.to = q /\ h.time = time_stamp'[q]  BY DEF Given
  <2> HIDE DEF h
  <2>2. h \in given'  BY DEF h
  <2> QED BY <2>1, <2>2
<1>7. InTime(Now', q, n)  BY <1>6, NowFacts DEF InTime
<1>8. AllInTime(Now', T) /\ Knows(Now', t, L, T)  BY <1>1, TimeFollows, KnowsFollows
<1>9. \A u \in Teams : mpi_load_time[t][u] <= V[u]
  <2>1. T[q] \in Nat /\ mpi_load_time[t][q] \in Nat /\ mpi_load_time[t][q] <= T[q]
        BY AliveFacts DEF Times
  <2> QED BY <1>4, <1>5, <2>1
<1>10. \A g \in given' \ given : g.from = t => g.time < V[g.to]
       BY <1>1, <1>4 DEF Given
<1>11. Knows(Now', t, K, V)  BY <1>1, <1>4, <1>5, <1>8, RaiseKnows
<1>12. AllInTime(Now', V)  BY <1>4, <1>7, <1>8 DEF AllInTime
<1> HIDE DEF K, V, n
<1>13. Knowing(Now', t, K, V)  BY <1>4, <1>9, <1>10, <1>11, <1>12, KnowingNext
<1> QED BY <1>3, <1>13 DEF K, V, n

LEMMA GiveWorkLives ==
  ASSUME NEW c, Alive(c), Types', NEW t \in Teams, NEW q \in Teams, GiveWork(t, q)
  PROVE  LiveOn(c)
<1> DEFINE m == Head(msgs[q][t])
           K == [MergedLoads(t, m) EXCEPT ![q] = Some]
           V == [MergedTimes(t, m) EXCEPT ![q] = m.time]
<1>1. /\ pc[t] = "busy" /\ Arrived(t, q, {1})
      /\ msgs' = Send(Received(q, t), t, q, Accepted(t))
      /\ work' = Send(work, t, q, Work(time_stamp[t], K, V))
      /\ Know(t, K, [V EXCEPT ![q] = m.time + 1])
      /\ given' = given \cup {Given(t, q, m.time)}
      /\ time_stamp' = [time_stamp EXCEPT ![t] = @ + 1]
      /\ UNCHANGED <<pc, delegated>>
      BY DEF GiveWork
<1>2. /\ q \in Teams \ {t} /\ m.time = time_stamp[q] /\ pc[q] = "get" /\ work[t][q] = <<>>
      /\ K \in Loads /\ V \in Times /\ AllInTime(Now, V) /\ Knows(Now, t, K, V)
      /\ \A u \in Teams : mpi_load_time[t][u] <= V[u]
      /\ \A a, b \in Teams : \A x \in In(Received(q, t)[a][b]) : x \in In(msgs[a][b])
      /\ Received(q, t) \in Nets(Messages) /\ K[q] = Some
      BY <1>1, LearnsRequest
<1> HIDE DEF m, K, V
<1>3. /\ Types /\ GivenInv /\ Cuts(Now) /\ Goes(c, t, msgs) /\ \A x \in Teams : pc[x] # "end"
      /\ time_stamp[t] \in Nat /\ execution_counter[t] \in Counters
      BY AliveFacts DEF Alive, Types
<1>4. work'[t][q] # <<>> /\ \A a, b \in Teams : a # t \/ b # q => work'[a][b] = work[a][b]
  <2>1. Work(time_stamp[t], K, V) \in Copies  BY <1>2, <1>3 DEF Work, Copies
  <2> QED BY <1>1, <1>2, <1>3, <2>1, FirstCopy
<1>5. given' = given \cup {Given(t, q, time_stamp[q])}  BY <1>1, <1>2
<1>6. Moves(c)
  <2>1. Gives(t, q)  BY <1>1, <1>2, <1>4, <1>5 DEF Gives
  <2>2. Types /\ GivenInv /\ Cuts(Now) /\ Goes(c, t, msgs) /\ q \in Teams \ {t}
        BY <1>2, <1>3
  <2> QED BY <2>1, <2>2, GiftMoves
<1>7. Follows(Now, Now')  BY <1>6 DEF Moves
<1>8. K = [K EXCEPT ![q] = Some]  BY <1>2 DEF Loads
<1> DEFINE W == [V EXCEPT ![q] = time_stamp[q] + 1]
<1>9. /\ \A a, b \in Teams : \A x \in In(work'[a][b]) :
           x \in In(work[a][b]) \/ Tells(Now', a, b, x.loads, x.times, x.time)
      /\ Knowing(Now', t, K, W)
  <2>1. pc[t] \in {"busy", "drain"} /\ pc'[q] \in {"get", "recv"} /\ time_stamp'[q] = time_stamp[q]
        BY <1>1, <1>2, <1>3 DEF Types
  <2> QED BY <1>1, <1>2, <1>5, <1>7, <1>8, <2>1, GivesRight
<1>10. mpi_load'[t] = K /\ mpi_load_time'[t] = W
      /\ \A u \in Teams \ {t} : mpi_load'[u] = mpi_load[u] /\ mpi_load_time'[u] = mpi_load_time[u]
      BY <1>1, <1>2, <1>3 DEF Know, Types
<1> HIDE DEF W
<1>11. KnowledgeInv'
  <2>1. \A g \in given' \ given : g.from = t  BY <1>5 DEF Given
  <2>2. \A p \in Teams : \A d \in delegated'[p] : \E e \in delegated[p] : e.q = d.q /\ e.time = d.time
        BY <1>1
  <2> QED BY <1>6, <1>9, <1>10, <2>1, <2>2, KnowledgeNext
<1>12. Accepted(t) \in Messages  BY <1>2, <1>3, NewMessages
<1>13. Right(Now', t, q, Accepted(t))  BY AnswerRight
<1> DEFINE net == Received(q, t)
           r == Accepted(t)
<1>14. /\ net \in Nets(Messages) /\ r \in Messages /\ Right(Now', t, q, r) /\ msgs' = Send(net, t, q, r)
       /\ \A a, b \in Teams : \A x \in In(net[a][b]) : x \in In(msgs[a][b])
       BY <1>1, <1>2, <1>12, <1>13
<1> HIDE DEF net, r
<1>15. \A a, b \in Teams : \A x \in In(msgs'[a][b]) :
         x \in In(msgs[a][b]) \/ (x.counter = c => Right(Now', a, b, x))
       BY <1>14, SendRight
<1>16. \A u \in Teams : pc'[u] # "end"  BY <1>1, <1>3
<1> QED BY <1>6, <1>11, <1>15, <1>16, LiveNext

LEMMA DelegateLives ==
  ASSUME NEW c, Alive(c), Types', NEW t \in Teams, NEW q \in Teams, Delegate(t, q)
  PROVE  LiveOn(c)
<1> DEFINE m == Head(msgs[q][t])
           K == [MergedLoads(t, m) EXCEPT ![q] = Some]
           V == [MergedTimes(t, m) EXCEPT ![q] = m.time]
<1>1. /\ pc[t] = "busy" /\ Arrived(t, q, {1}) /\ Know(t, K, V)
      /\ delegated' = [delegated EXCEPT ![t] = @ \cup {[q |-> q, time |-> m.time, ok |-> FALSE]}]
      /\ msgs' = Received(q, t)
      /\ UNCHANGED <<pc, time_stamp, given, work>>
      BY DEF Delegate, LearnRequest, copies, state
<1>2. /\ m.time = time_stamp[q]
      /\ K \in Loads /\ V \in Times /\ AllInTime(Now, V) /\ Knows(Now, t, K, V)
      /\ \A u \in Teams : mpi_load_time[t][u] <= V[u]
      /\ \A a, b \in Teams : \A x \in In(Received(q, t)[a][b]) : x \in In(msgs[a][b])
      BY <1>1, LearnsRequest
<1> HIDE DEF m, K, V
<1>3. Types /\ GivenInv /\ Cuts(Now) /\ \A x \in Teams : pc[x] # "end"
      BY AliveFacts DEF Alive
<1>4. Moves(c)  BY <1>1, <1>3, StillMoves
<1>5. mpi_load'[t] = K /\ mpi_load_time'[t] = V
      /\ \A u \in Teams \ {t} : mpi_load'[u] = mpi_load[u] /\ mpi_load_time'[u] = mpi_load_time[u]
      BY <1>1, <1>3 DEF Know, Types
<1>6. Follows(Now, Now')  BY <1>4 DEF Moves
<1>7. Knowing(Now', t, K, V)  BY <1>1, <1>2, <1>6, LearntNext
<1>8. KnowledgeInv'
  <2>1. \A p \in Teams : \A d \in delegated'[p] : d \in delegated[p] \/ d.time = time_stamp'[d.q]
        BY <1>1, <1>2, <1>3 DEF Types
  <2> QED BY <1>1, <1>4, <1>5, <1>7, <2>1, KnowledgeNext
<1>9. \A a, b \in Teams : \A x \in In(msgs'[a][b]) : x \in In(msgs[a][b])
      BY <1>1, <1>2
<1>10. \A u \in Teams : pc'[u] # "end"  BY <1>1, <1>3
<1> QED BY <1>4, <1>8, <1>9, <1>10, LiveNext


\* Nothing is learnt, and nothing is given.
LEMMA SameKnowing ==
  ASSUME NEW c, Alive(c), Types', Moves(c), NEW t \in Teams,
         UNCHANGED <<mpi_load, mpi_load_time, given, work>>,
         \A p \in Teams : \A d \in delegated'[p] :
           \E e \in delegated[p] : e.q = d.q /\ e.time = d.time
  PROVE  KnowledgeInv'
<1> DEFINE L == mpi_load[t]
           T == mpi_load_time[t]
<1>1. L \in Loads /\ T \in Times /\ AllInTime(Now, T) /\ Knows(Now, t, L, T)
      BY AliveFacts DEF Knowing
<1>2. \A u \in Teams : mpi_load_time[t][u] <= T[u]
  <2>1. \A u \in Teams : T[u] \in Nat  BY <1>1 DEF Times
  <2> QED BY <2>1
<1>3. mpi_load'[t] = L /\ mpi_load_time'[t] = T  OBVIOUS
<1> HIDE DEF L, T
<1>4. Follows(Now, Now')  BY DEF Moves
<1>5. Knowing(Now', t, L, T)  BY <1>1, <1>2, <1>4, LearntNext
<1> QED BY <1>3, <1>5, KnowledgeNext

\* A notice that is not older than what t knows.
LEMMA NoticeKnows ==
  ASSUME NEW c, Alive(c), NEW t \in Teams, NEW q \in Teams, NEW m \in In(msgs[q][t]),
         m \in Messages, m.counter = c, m.code = 4, ~ m.time < mpi_load_time[t][q]
  PROVE  LET K == [mpi_load[t] EXCEPT ![q] = m.load]
             V == [mpi_load_time[t] EXCEPT ![q] = m.time] IN
         /\ K \in Loads /\ V \in Times /\ AllInTime(Now, V) /\ Knows(Now, t, K, V)
         /\ \A u \in Teams : mpi_load_time[t][u] <= V[u]
<1> DEFINE L == mpi_load[t]
           T == mpi_load_time[t]
           n == m.time
           K == [L EXCEPT ![q] = Some]
           V == [T EXCEPT ![q] = n]
<1>1. L \in Loads /\ T \in Times /\ AllInTime(Now, T) /\ Knows(Now, t, L, T) /\ Now \in Moments
      BY AliveFacts DEF Knowing
<1>2. n \in Nat /\ m.load = Some  BY MessageFacts
<1>3. n <= Now.time[q]
  <2>1. TellsRight(Now, q, t, m)  BY AliveFacts
  <2> QED BY <2>1 DEF TellsRight
<1>4. T[q] <= n
  <2>1. T[q] \in Nat  BY <1>1 DEF Times
  <2> QED BY <1>2, <2>1
<1> HIDE DEF L, T, n
<1>5. K \in Loads /\ V \in Times /\ V[q] = n /\ \A u \in Teams \ {q} : V[u] = T[u]
      BY <1>1, <1>2 DEF Loads, Times
<1>6. Knows(Now, t, K, V)  BY <1>1, <1>2, <1>4, RaiseKnows
<1>7. AllInTime(Now, V)
  <2>1. InTime(Now, q, n)  BY <1>3 DEF InTime
  <2> QED BY <1>1, <1>5, <2>1 DEF AllInTime
<1>8. \A u \in Teams : T[u] <= V[u]
  <2>1. \A u \in Teams : T[u] \in Nat  BY <1>1 DEF Times
  <2> QED BY <1>4, <1>5, <2>1
<1> HIDE DEF K, V
<1> QED BY <1>2, <1>5, <1>6, <1>7, <1>8 DEF K, V, L, T, n

LEMMA LearnNoticeLives ==
  ASSUME NEW c, Alive(c), Types', NEW t \in Teams, NEW q \in Teams, LearnNotice(t, q), ~ stale'
  PROVE  LiveOn(c)
<1> DEFINE m == Head(msgs[q][t])
           K == [mpi_load[t] EXCEPT ![q] = m.load]
           V == [mpi_load_time[t] EXCEPT ![q] = m.time]
<1>1. /\ Arrived(t, q, {4}) /\ Know(t, K, V) /\ msgs' = Received(q, t)
      /\ stale' = (stale \/ m.time < mpi_load_time[t][q])
      /\ UNCHANGED <<pc, time_stamp, delegated, given, work>>
      BY DEF LearnNotice, copies, state, Stale
<1>2. Types /\ GivenInv /\ Cuts(Now) /\ \A x \in Teams : pc[x] # "end"
      BY AliveFacts DEF Alive
<1>3. msgs[q][t] # <<>> /\ m.code = 4 /\ m.counter = c
      BY <1>1, AliveFacts DEF Arrived
<1>4. /\ m \in Messages /\ m \in In(msgs[q][t])
      /\ \A a, b \in Teams : \A x \in In(Received(q, t)[a][b]) : x \in In(msgs[a][b])
  <2>1. msgs \in Nets(Messages)  BY <1>2 DEF Types
  <2> QED BY <1>3, <2>1, ReceivedFacts
<1>5. ~ m.time < mpi_load_time[t][q]  BY <1>1
<1>6. /\ K \in Loads /\ V \in Times /\ AllInTime(Now, V) /\ Knows(Now, t, K, V)
      /\ \A u \in Teams : mpi_load_time[t][u] <= V[u]
  <2> HIDE DEF m
  <2> QED BY <1>3, <1>4, <1>5, NoticeKnows
<1> HIDE DEF m, K, V
<1>7. Moves(c)  BY <1>1, <1>2, StillMoves
<1>8. mpi_load'[t] = K /\ mpi_load_time'[t] = V
      /\ \A u \in Teams \ {t} : mpi_load'[u] = mpi_load[u] /\ mpi_load_time'[u] = mpi_load_time[u]
      BY <1>1, <1>2 DEF Know, Types
<1>9. Follows(Now, Now')  BY <1>7 DEF Moves
<1>10. Knowing(Now', t, K, V)  BY <1>1, <1>6, <1>9, LearntNext
<1>11. KnowledgeInv'  BY <1>1, <1>7, <1>8, <1>10, KnowledgeNext
<1>12. \A a, b \in Teams : \A x \in In(msgs'[a][b]) : x \in In(msgs[a][b])
       BY <1>1, <1>4
<1>13. \A u \in Teams : pc'[u] # "end"  BY <1>1, <1>2
<1> QED BY <1>7, <1>11, <1>12, <1>13, LiveNext

LEMMA DropMessageLives ==
  ASSUME NEW c, Alive(c), Types', NEW t \in Teams, NEW q \in Teams, DropMessage(t, q)
  PROVE  LiveOn(c)
<1>1. /\ msgs[q][t] # <<>> /\ msgs' = Received(q, t)
      /\ UNCHANGED <<pc, time_stamp, delegated, mpi_load, mpi_load_time, given, work>>
      BY DEF DropMessage, Arrived, Outdated, copies, state, known
<1>2. Types /\ GivenInv /\ Cuts(Now) /\ \A x \in Teams : pc[x] # "end"
      BY AliveFacts DEF Alive
<1>3. Moves(c)  BY <1>1, <1>2, StillMoves
<1>4. KnowledgeInv'  BY <1>1, <1>3, SameKnowing
<1>5. \A a, b \in Teams : \A x \in In(msgs'[a][b]) : x \in In(msgs[a][b])
  <2>1. msgs \in Nets(Messages)  BY <1>2 DEF Types
  <2> QED BY <1>1, <2>1, ReceivedFacts
<1>6. \A u \in Teams : pc'[u] # "end"  BY <1>1, <1>2
<1> QED BY <1>3, <1>4, <1>5, <1>6, LiveNext

LEMMA IdleLives ==
  ASSUME NEW c, Alive(c), Types', NEW t \in Teams,
         BecomeIdle(t) \/ Drained(t) \/ \E p \in Teams : GetAccepted(t, p)
  PROVE  LiveOn(c)
<1>1. UNCHANGED <<delegated, mpi_load, mpi_load_time, given, work>>
      BY DEF BecomeIdle, Drained, GetAccepted, network, copies, known
<1>2. Types /\ GivenInv /\ Cuts(Now) /\ Goes(c, t, msgs) /\ \A x \in Teams : pc[x] # "end"
      BY AliveFacts DEF Alive
<1>3. Moves(c)  BY <1>2, IdleMoves, AcceptMoves
<1>4. KnowledgeInv'  BY <1>1, <1>3, SameKnowing
<1>5. \A a, b \in Teams : \A x \in In(msgs'[a][b]) : x \in In(msgs[a][b])
  <2>1. CASE BecomeIdle(t) \/ Drained(t)
    <3>1. msgs' = msgs  BY <2>1 DEF BecomeIdle, Drained, network
    <3> QED BY <3>1
  <2>2. ASSUME NEW p \in Teams, GetAccepted(t, p)
        PROVE  \A a, b \in Teams : \A x \in In(msgs'[a][b]) : x \in In(msgs[a][b])
    <3>1. msgs[p][t] # <<>> /\ msgs' = Received(p, t)  BY <2>2 DEF GetAccepted, Arrived
    <3>2. msgs \in Nets(Messages)  BY <1>2 DEF Types
    <3> QED BY <3>1, <3>2, ReceivedFacts
  <2> QED BY <2>1, <2>2
<1>6. \A u \in Teams : pc'[u] # "end"
      BY <1>2 DEF BecomeIdle, Drained, GetAccepted, Types
<1> QED BY <1>3, <1>4, <1>5, <1>6, LiveNext


\* A request in a delegation area.
LEMMA AreaLives ==
  ASSUME NEW c, Alive(c), NEW t \in Teams, NEW d \in delegated[t]
  PROVE  /\ d.q \in Teams \ {t} /\ d.time = time_stamp[d.q] /\ pc[d.q] \in {"get", "recv"}
         /\ work[t][d.q] = <<>> /\ msgs \in Nets(Messages) /\ Accepted(t) \in Messages
         /\ mpi_load[t] \in Loads /\ mpi_load_time[t] \in Times
         /\ AllInTime(Now, mpi_load_time[t]) /\ Knows(Now, t, mpi_load[t], mpi_load_time[t])
         /\ \A u \in Teams : mpi_load_time[t][u] <= mpi_load_time[t][u]
<1>1. Types /\ \A x \in Teams : Goes(c, x, msgs)  BY AliveFacts
<1>2. /\ d.q \in Teams \ {t} /\ work[t][d.q] = <<>>
      /\ \/ Waits(c, d.q, t, pc[d.q], waiting[d.q], msgs, delegated, work)
         \/ Awaits(c, d.q, t, pc[d.q], from[d.q], msgs, delegated, work)
  <2>1. d.ok \in BOOLEAN  BY <1>1, DelegatedFacts
  <2> QED BY <1>1, <2>1, AreaHolds
<1>3. pc[d.q] \in {"get", "recv"}  BY <1>2 DEF Waits, Awaits
<1>4. d.time = time_stamp[d.q]  BY DEF Alive, KnowledgeInv
<1>5. /\ mpi_load[t] \in Loads /\ mpi_load_time[t] \in Times
      /\ AllInTime(Now, mpi_load_time[t]) /\ Knows(Now, t, mpi_load[t], mpi_load_time[t])
      BY AliveFacts DEF Knowing
<1>6. msgs \in Nets(Messages) /\ execution_counter[t] \in Counters /\ time_stamp[t] \in Nat
      BY <1>1 DEF Types
<1>7. Accepted(t) \in Messages  BY <1>5, <1>6, NewMessages
<1>8. \A u \in Teams : mpi_load_time[t][u] <= mpi_load_time[t][u]
  <2>1. \A u \in Teams : mpi_load_time[t][u] \in Nat  BY <1>5 DEF Times
  <2> QED BY <2>1
<1> QED BY <1>2, <1>3, <1>4, <1>5, <1>6, <1>7, <1>8

LEMMA StartsLives ==
  ASSUME NEW c, Alive(c), Types', NEW t \in Teams, NEW d \in delegated[t], StartsFor(t, d)
  PROVE  LiveOn(c)
<1>1. /\ msgs' = Send(msgs, t, d.q, Accepted(t))
      /\ delegated' = [delegated EXCEPT ![t] = (@ \ {d}) \cup {[d EXCEPT !.ok = TRUE]}]
      /\ UNCHANGED <<pc, time_stamp, mpi_load, mpi_load_time, given, work>>
      BY DEF StartsFor, copies, state, known
<1>2. Types /\ GivenInv /\ Cuts(Now) /\ \A x \in Teams : pc[x] # "end"
      BY AliveFacts DEF Alive
<1>3. d.q \in Teams /\ msgs \in Nets(Messages) /\ Accepted(t) \in Messages  BY AreaLives
<1>4. Moves(c)  BY <1>1, <1>2, StillMoves
<1>5. \A p \in Teams : \A e \in delegated'[p] : \E f \in delegated[p] : f.q = e.q /\ f.time = e.time
  <2>1. d \in Delegations  BY <1>2, DelegatedFacts
  <2> DEFINE e == [d EXCEPT !.ok = TRUE]
  <2>2. e.q = d.q /\ e.time = d.time  BY <2>1 DEF Delegations
  <2> HIDE DEF e
  <2>3. \A p \in Teams : \A f \in delegated'[p] : f \in delegated[p] \/ (p = t /\ f = e)
        BY <1>1, <1>2 DEF e, Types
  <2> QED BY <2>2, <2>3
<1>6. KnowledgeInv'  BY <1>1, <1>4, <1>5, SameKnowing
<1>7. Right(Now', t, d.q, Accepted(t))  BY AnswerRight
<1> DEFINE r == Accepted(t)
<1>8. r \in Messages /\ Right(Now', t, d.q, r) /\ msgs' = Send(msgs, t, d.q, r)
      BY <1>1, <1>3, <1>7
<1> HIDE DEF r
<1>9. \A a, b \in Teams : \A x \in In(msgs'[a][b]) :
        x \in In(msgs[a][b]) \/ (x.counter = c => Right(Now', a, b, x))
      BY <1>3, <1>8, SendRight
<1>10. \A u \in Teams : pc'[u] # "end"  BY <1>1, <1>2
<1> QED BY <1>4, <1>6, <1>9, <1>10, LiveNext

LEMMA RefusedLives ==
  ASSUME NEW c, Alive(c), Types', NEW t \in Teams, NEW d \in delegated[t], RefusedFor(t, d)
  PROVE  LiveOn(c)
<1> DEFINE L == mpi_load[t]
           T == mpi_load_time[t]
           r == Refusal(t, Some, L, T)
<1>1. /\ pc[t] \in {"busy", "drain"} /\ msgs' = Send(msgs, t, d.q, r)
      /\ time_stamp' = [time_stamp EXCEPT ![t] = @ + 1]
      /\ delegated' = [delegated EXCEPT ![t] = @ \ {d}]
      /\ UNCHANGED <<pc, mpi_load, mpi_load_time, given, work>>
      BY DEF RefusedFor, copies, known
<1>2. /\ Types /\ GivenInv /\ Cuts(Now) /\ Goes(c, t, msgs) /\ \A x \in Teams : pc[x] # "end"
      /\ time_stamp[t] \in Nat /\ execution_counter[t] \in Counters
      BY AliveFacts DEF Alive, Types
<1>3. /\ d.q \in Teams /\ msgs \in Nets(Messages) /\ L \in Loads /\ T \in Times
      /\ AllInTime(Now, T) /\ Knows(Now, t, L, T)
      BY AreaLives
<1> HIDE DEF L, T, r
<1>4. Moves(c)  BY <1>1, <1>2, TickMoves
<1>5. \A p \in Teams : \A e \in delegated'[p] : e \in delegated[p]  BY <1>1, <1>2 DEF Types
<1>6. KnowledgeInv'  BY <1>1, <1>4, <1>5, SameKnowing
<1>7. Tells(Now, t, d.q, L, T, time_stamp[t])  BY <1>1, <1>3, BusyTells
<1>8. Right(Now', t, d.q, r)
  <2>1. Now \in Moments /\ Now' \in Moments /\ Follows(Now, Now')
        BY <1>4, AliveFacts, NextMoment DEF Moves
  <2>2. Tells(Now', t, d.q, L, T, time_stamp[t])  BY <1>2, <1>3, <1>7, <2>1, TellsFollows
  <2>3. Some \in {Idle, Some} /\ Some # Idle  BY DEF Idle, Some
  <2>4. Right(Now', t, d.q, Refusal(t, Some, L, T))  BY <2>2, <2>3, RefusalRight
  <2> QED BY <2>4 DEF r
<1>9. r \in Messages
  <2>1. \A load \in {Idle, Some} : Refusal(t, load, L, T) \in Messages  BY <1>2, <1>3, NewMessages
  <2> QED BY <2>1 DEF r
<1>10. \A a, b \in Teams : \A x \in In(msgs'[a][b]) :
         x \in In(msgs[a][b]) \/ (x.counter = c => Right(Now', a, b, x))
       BY <1>1, <1>3, <1>8, <1>9, SendRight
<1>11. \A u \in Teams : pc'[u] # "end"  BY <1>1, <1>2
<1> QED BY <1>4, <1>6, <1>10, <1>11, LiveNext

LEMMA DoneLives ==
  ASSUME NEW c, Alive(c), Types', NEW t \in Teams, NEW d \in delegated[t], DoneFor(t, d)
  PROVE  LiveOn(c)
<1> DEFINE L == mpi_load[t]
           T == mpi_load_time[t]
           q == d.q
<1>1. /\ pc[t] \in {"busy", "drain"} /\ d.q \in Teams \ {t} /\ d.time = time_stamp[q] /\ pc[q] \in {"get", "recv"}
      /\ work[t][q] = <<>> /\ msgs \in Nets(Messages) /\ Accepted(t) \in Messages
      /\ L \in Loads /\ T \in Times /\ AllInTime(Now, T) /\ Knows(Now, t, L, T)
      /\ \A u \in Teams : mpi_load_time[t][u] <= T[u]
      BY AreaLives DEF DoneFor
<1>2. /\ msgs' = IF d.ok THEN msgs ELSE Send(msgs, t, q, Accepted(t))
      /\ work' = Send(work, t, q, Work(time_stamp[t], L, T))
      /\ Know(t, [L EXCEPT ![q] = Some], [T EXCEPT ![q] = time_stamp[q] + 1])
      /\ given' = given \cup {Given(t, q, time_stamp[q])}
      /\ time_stamp' = [time_stamp EXCEPT ![t] = @ + 1]
      /\ delegated' = [delegated EXCEPT ![t] = @ \ {d}]
      /\ UNCHANGED pc
      BY <1>1 DEF DoneFor
<1>3. q \in Teams \ {t}  BY <1>1
<1> HIDE DEF L, T, q
<1>4. /\ Types /\ GivenInv /\ Cuts(Now) /\ Goes(c, t, msgs) /\ \A x \in Teams : pc[x] # "end"
      /\ time_stamp[t] \in Nat
      BY AliveFacts DEF Alive
<1>5. work'[t][q] # <<>> /\ \A a, b \in Teams : a # t \/ b # q => work'[a][b] = work[a][b]
  <2>1. Work(time_stamp[t], L, T) \in Copies  BY <1>1, <1>4 DEF Work, Copies
  <2> QED BY <1>1, <1>2, <1>3, <1>4, <2>1, FirstCopy
<1>6. Moves(c)
  <2>1. Gives(t, q)  BY <1>1, <1>2, <1>5 DEF Gives
  <2> QED BY <1>3, <1>4, <2>1, GiftMoves
<1>7. Follows(Now, Now')  BY <1>6 DEF Moves
<1> DEFINE K == [L EXCEPT ![q] = Some]
           V == [T EXCEPT ![q] = time_stamp[q] + 1]
<1>8. /\ \A a, b \in Teams : \A x \in In(work'[a][b]) :
           x \in In(work[a][b]) \/ Tells(Now', a, b, x.loads, x.times, x.time)
      /\ Knowing(Now', t, K, V)
  <2>1. pc'[q] \in {"get", "recv"} /\ time_stamp'[q] = time_stamp[q]
        BY <1>1, <1>2, <1>3, <1>4 DEF Types
  <2> QED BY <1>1, <1>2, <1>3, <1>7, <2>1, GivesRight
<1>9. mpi_load'[t] = K /\ mpi_load_time'[t] = V
      /\ \A u \in Teams \ {t} : mpi_load'[u] = mpi_load[u] /\ mpi_load_time'[u] = mpi_load_time[u]
      BY <1>2, <1>4 DEF Know, Types
<1> HIDE DEF K, V
<1>10. KnowledgeInv'
  <2>1. \A g \in given' \ given : g.from = t  BY <1>2 DEF Given
  <2>2. \A p \in Teams : \A e \in delegated'[p] : e \in delegated[p]  BY <1>2, <1>4 DEF Types
  <2> QED BY <1>6, <1>8, <1>9, <2>1, <2>2, KnowledgeNext
<1>11. \A a, b \in Teams : \A x \in In(msgs'[a][b]) :
         x \in In(msgs[a][b]) \/ (x.counter = c => Right(Now', a, b, x))
  <2>1. CASE d.ok
    <3>1. msgs' = msgs  BY <1>2, <2>1
    <3> QED BY <3>1
  <2>2. CASE ~ d.ok
    <3> DEFINE r == Accepted(t)
    <3>1. r \in Messages /\ Right(Now', t, q, r) /\ msgs' = Send(msgs, t, q, r)
          BY <1>1, <1>2, <2>2, AnswerRight
    <3> HIDE DEF r
    <3> QED BY <1>1, <1>3, <3>1, SendRight
  <2> QED BY <2>1, <2>2
<1>12. \A u \in Teams : pc'[u] # "end"  BY <1>2, <1>4
<1> QED BY <1>6, <1>10, <1>11, <1>12, LiveNext

LEMMA InstallLives ==
  ASSUME NEW c, Alive(c), Types', NEW t \in Teams, Install(t), ~ stale'
  PROVE  LiveOn(c)
<1> DEFINE p == from[t]
           m == Head(work[p][t])
           K == [MergedLoads(t, m) EXCEPT ![p] = Some]
           V == [MergedTimes(t, m) EXCEPT ![p] = m.time]
<1>1. /\ pc[t] = "recv" /\ work[p][t] # <<>> /\ Know(t, K, V)
      /\ work' = [work EXCEPT ![p][t] = Tail(@)]
      /\ msgs' = IF p = Team0 THEN msgs
                 ELSE Send(msgs, t, Team0, Notice(t, time_stamp[t] + 1))
      /\ stale' = (stale \/ m.time < MergedTimes(t, m)[p])
      /\ time_stamp' = [time_stamp EXCEPT ![t] = @ + 2]
      /\ pc' = [pc EXCEPT ![t] = "busy"]
      /\ UNCHANGED <<given, delegated>>
      BY DEF Install, Stale
<1>2. /\ Types /\ GivenInv /\ Cuts(Now) /\ Uniform(c) /\ \A x \in Teams : Goes(c, x, msgs) /\ pc[x] # "end"
      /\ Now \in Moments /\ time_stamp[t] \in Nat /\ execution_counter[t] \in Counters
      /\ mpi_load[t] \in Loads /\ mpi_load_time[t] \in Times
      BY AliveFacts DEF Alive, Types
<1>3. Moves(c)  BY <1>2, InstallMoves
<1>4. /\ p \in Teams \ {t} /\ work'[p][t] = <<>>
      /\ \A a, b \in Teams : a # p \/ b # t => work'[a][b] = work[a][b]
  <2>1. p \in Teams  BY <1>2 DEF Types
  <2> QED BY <1>2, <2>1, InstallGoes
<1>5. m \in In(work[p][t]) /\ m \in Copies
  <2>1. work[p][t] \in Seq(Copies)  BY <1>2, <1>4 DEF Types, Nets
  <2> QED BY <1>1, <2>1, InFacts
<1>6. m.time \in Nat /\ m.loads \in Loads /\ m.times \in Times  BY <1>5 DEF Copies
<1>7. Tells(Now, p, t, m.loads, m.times, m.time)  BY <1>4, <1>5 DEF Alive, KnowledgeInv
<1>8. mpi_load_time[t][p] <= m.time /\ m.times[p] <= m.time
  <2>1. MergedTimes(t, m)[p] = (IF m.times[p] > mpi_load_time[t][p] THEN m.times[p] ELSE mpi_load_time[t][p])
        BY <1>4 DEF MergedTimes, Newer
  <2>2. m.times[p] \in Nat /\ mpi_load_time[t][p] \in Nat  BY <1>2, <1>4, <1>6 DEF Times
  <2>3. ~ m.time < MergedTimes(t, m)[p]  BY <1>1
  <2> DEFINE a == mpi_load_time[t][p]
             b == m.times[p]
             n == m.time
             l == MergedTimes(t, m)[p]
  <2>4. l = (IF b > a THEN b ELSE a) /\ a \in Nat /\ b \in Nat /\ n \in Nat /\ ~ n < l
        BY <1>6, <2>1, <2>2, <2>3
  <2> HIDE DEF a, b, n, l
  <2>5. a <= n /\ b <= n  BY <2>4
  <2> QED BY <2>5 DEF a, b, n
<1>9. /\ Some \in {Idle, Some}
      /\ Some = Idle => TellsIdle(Now, p, t, m.times, m.time)
      BY DEF Idle, Some
<1> HIDE DEF m, p
<1>10. LearntFrom(t, p, m, m.time, Some)  BY <1>4, <1>6, <1>7, <1>8, <1>9, Merges
<1>11. /\ K \in Loads /\ V \in Times /\ AllInTime(Now, V) /\ Knows(Now, t, K, V)
       /\ \A u \in Teams : mpi_load_time[t][u] <= V[u]
       BY <1>10 DEF LearntFrom
<1> HIDE DEF K, V
<1>12. mpi_load'[t] = K /\ mpi_load_time'[t] = V
       /\ \A u \in Teams \ {t} : mpi_load'[u] = mpi_load[u] /\ mpi_load_time'[u] = mpi_load_time[u]
       BY <1>1, <1>2 DEF Know, Types
<1>13. Follows(Now, Now')  BY <1>3 DEF Moves
<1>14. Knowing(Now', t, K, V)  BY <1>1, <1>11, <1>13, LearntNext
<1>15. \A a, b \in Teams : \A x \in In(work'[a][b]) : x \in In(work[a][b])
  <2>1. ASSUME NEW a \in Teams, NEW b \in Teams, NEW x \in In(work'[a][b]) PROVE x \in In(work[a][b])
    <3>1. CASE a = p /\ b = t  BY <1>4, <2>1, <3>1 DEF In
    <3>2. CASE ~ (a = p /\ b = t)  BY <1>4, <2>1, <3>2
    <3> QED BY <3>1, <3>2
  <2> QED BY <2>1
<1>16. KnowledgeInv'  BY <1>1, <1>3, <1>12, <1>14, <1>15, KnowledgeNext
<1>17. \A a, b \in Teams : \A x \in In(msgs'[a][b]) :
         x \in In(msgs[a][b]) \/ (x.counter = c => Right(Now', a, b, x))
  <2>1. CASE p = Team0
    <3>1. msgs' = msgs  BY <1>1, <2>1
    <3> QED BY <3>1
  <2>2. CASE p # Team0
    <3> DEFINE r == Notice(t, time_stamp[t] + 1)
    <3>1. r.code = 4 /\ r.time = time_stamp[t] + 1  BY DEF Notice
    <3>2. r \in Messages  BY <1>2, NewMessages
    <3>3. msgs' = Send(msgs, t, Team0, r)  BY <1>1, <2>2
    <3> HIDE DEF r
    <3>4. time_stamp'[t] = time_stamp[t] + 2  BY <1>1, <1>2 DEF Types
    <3>5. Right(Now', t, Team0, r)  BY <1>2, <3>1, <3>4, NowFacts DEF Right, TellsRight
    <3>6. msgs \in Nets(Messages) /\ Team0 \in Teams  BY <1>2, TeamsAssumption DEF Types
    <3> QED BY <3>2, <3>3, <3>5, <3>6, SendRight
  <2> QED BY <2>1, <2>2
<1>18. \A u \in Teams : pc'[u] # "end"  BY <1>1, <1>2 DEF Types
<1> QED BY <1>3, <1>16, <1>17, <1>18, LiveNext


(***************************************************************************)
(* The loop of an idle team.                                               *)
(***************************************************************************)

\* A team that knows all others to be idle stands at a cut of all teams, and
\* nothing has been given behind it.
LEMMA EndQuiet ==
  ASSUME NEW c, Alive(c), NEW t \in Teams, pc[t] = "get", \A p \in Teams : work[p][t] = <<>>,
         NEW L, NEW T \in Times, Knowing(Now, t, L, T), \A u \in Teams \ {t} : L[u] = Idle
  PROVE  /\ \A u \in Teams : pc[u] \in {"get", "recv"} /\ delegated[u] = {}
         /\ \A p, u \in Teams : work[p][u] = <<>>
<1> DEFINE V == [T EXCEPT ![t] = time_stamp[t]]
<1>1. /\ Types /\ GivenInv /\ Cuts(Now) /\ GiftTimes(Now) /\ Now \in Moments /\ time_stamp[t] \in Nat
      /\ \A x \in Teams : Goes(c, x, msgs)
      BY AliveFacts DEF Alive
<1>2. V \in Times /\ V[t] = time_stamp[t] /\ \A u \in Teams \ {t} : V[u] = T[u]
      BY <1>1 DEF Times
<1> HIDE DEF V
<1>3. \A g \in given : /\ g.from \in Teams /\ g.to \in Teams /\ g.from # g.to
                       /\ g.at < time_stamp[g.from]
      BY <1>1, NowFacts DEF GiftTimes, Types, Gifts
<1>4. \A g \in given : g.to = t => g.time < time_stamp[t]  BY <1>1, NoGift
<1>5. IsCut(Now, Teams, V)
  <2>1. \A u \in Teams \ {t} : IdleAt(Now, u, V[u])  BY <1>2 DEF Knowing, Knows
  <2>2. IdleAt(Now, t, V[t])  BY <1>2, NowFacts DEF IdleAt
  <2>3. ASSUME NEW g \in given, g.at < V[g.from] PROVE g.time < V[g.to]
    <3>1. CASE g.to = t  BY <1>2, <1>4, <3>1
    <3>2. CASE g.to # t /\ g.from = t
      <4>1. KnowsOwn(Now, t, time_stamp[t], t, T)  BY NowFacts DEF Knowing
      <4>2. g.at < time_stamp[t]  BY <1>3, <3>2
      <4>3. g.time < T[g.to]  BY <3>2, <4>1, <4>2, NowFacts DEF KnowsOwn
      <4> QED BY <1>2, <1>3, <3>2, <4>3
    <3>3. CASE g.to # t /\ g.from # t
      <4>1. g.from \in Teams \ {t} /\ g.at < T[g.from] /\ L[g.from] = Idle
            BY <1>2, <1>3, <2>3, <3>3
      <4>2. g.time < T[g.to]  BY <3>3, <4>1, NowFacts DEF Knowing, Knows
      <4> QED BY <1>2, <1>3, <3>3, <4>2
    <3> QED BY <3>1, <3>2, <3>3
  <2>4. \A u \in Teams : IdleAt(Now, u, V[u])  BY <2>1, <2>2
  <2> QED BY <1>3, <2>3, <2>4, NowFacts DEF IsCut
<1>6. \A g \in given : g.time < V[g.to]
  <2>1. Teams \in SUBSET Teams  OBVIOUS
  <2> QED BY <1>1, <1>2, <1>3, <1>5, <2>1, NowFacts DEF Cuts
<1>7. ASSUME NEW u \in Teams PROVE pc[u] \in {"get", "recv"} /\ V[u] = time_stamp[u]
  <2>1. IdleAt(Now, u, V[u])  BY <1>5 DEF IsCut
  <2>2. V[u] \in Nat  BY <1>2 DEF Times
  <2>3. ~ \E g \in given : g.to = u /\ g.time = V[u]  BY <1>6, <2>2
  <2> QED BY <2>1, <2>3, NowFacts DEF IdleAt
<1>8. ASSUME NEW p \in Teams, NEW u \in Teams PROVE work[p][u] = <<>>
  <2>1. ASSUME NEW g \in given, g.to = u, g.time = time_stamp[u] PROVE FALSE
    <3>1. g.time < time_stamp[u] /\ time_stamp[u] \in Nat  BY <1>1, <1>6, <1>7, <2>1 DEF Types
    <3> QED BY <2>1, <3>1
  <2> QED BY <1>1, <2>1 DEF GivenInv
<1>9. ASSUME NEW u \in Teams PROVE delegated[u] = {}
  <2>1. Protocol(c, u, pc[u], waiting[u], from[u], msgs, delegated, work)  BY <1>1 DEF Goes
  <2>2. pc[u] \notin {"busy", "drain"}  BY <1>7
  <2> QED BY <2>1, <2>2 DEF Protocol
<1> QED BY <1>7, <1>8, <1>9

\* Arrays that are later than those of t.
LEMMA LearntNow ==
  ASSUME NEW c, Alive(c), NEW t \in Teams, NEW L, NEW T \in Times,
         \A u \in Teams : mpi_load_time[t][u] <= T[u], AllInTime(Now, T), Knows(Now, t, L, T)
  PROVE  Knowing(Now, t, L, T)
<1>1. Now \in Moments /\ GiftTimes(Now)  BY AliveFacts
<1> DEFINE V == mpi_load_time[t]
<1>2. V \in Times /\ KnowsOwn(Now, t, Now.time[t], t, V) /\ \A u \in Teams : V[u] <= T[u]
      BY AliveFacts DEF Knowing
<1> HIDE DEF V
<1>3. \A g \in Now.given \ Now.given : g.from = t => g.time < T[g.to]  OBVIOUS
<1> QED BY <1>1, <1>2, <1>3, KnowingFollows

\* A round of the loop, with arrays that are right. A team that asks or ends
\* the query is not going to get work.
LEMMA LoopLives ==
  ASSUME NEW c, Alive(c), Types', GoesOn(c), NEW t \in Teams, NEW net, NEW L, NEW T, NEW wait,
         Loop(t, net, L, T, wait),
         \A u \in Teams : mpi_load_time[t][u] <= T[u], AllInTime(Now, T), Knows(Now, t, L, T),
         ~ wait => \A p \in Teams : work[p][t] = <<>>,
         \A a, b \in Teams : \A x \in In(net[a][b]) :
           x \in In(msgs[a][b]) \/ (x.code # 6 /\ (x.counter = c => TellsRight(Now, a, b, x)))
  PROVE  LiveOn(c)
<1>0. /\ Types /\ Uniform(c) /\ GivenInv /\ Cuts(Now) /\ GiftTimes(Now) /\ Now \in Moments
      /\ RightNet(c, Now, msgs) /\ \A x \in Teams : pc[x] # "end"
      BY AliveFacts DEF Alive, Regular
<1>1. /\ net \in Nets(Messages) /\ L \in Loads /\ T \in Times /\ Round(t, net, L, T, wait)
      /\ pc[t] = "get" /\ UNCHANGED <<time_stamp, given, delegated, work, execution_counter>>
      BY DEF Loop, copies, counters
<1>2. /\ \A u \in Teams \ {t} : pc'[u] = pc[u]
      /\ \A a, b \in Teams : \A x \in In(msgs'[a][b]) :
              \/ x \in In(net[a][b])
              \/ a = t /\ b # t /\ ~ wait /\ x = Request(t, L, T) /\ pc' = pc
              \/ a = t /\ b # t /\ x = TheEnd(t) /\ pc'[t] = "end"
      BY <1>0, <1>1, RoundSends
<1>3. Knowing(Now, t, L, T)  BY <1>1, LearntNow
<1>4. CASE pc' = pc
  <2>1. Moves(c) /\ Now' = Now  BY <1>0, <1>1, <1>4, StillMoves DEF Now
  <2>2. mpi_load'[t] = L /\ mpi_load_time'[t] = T
        /\ \A u \in Teams \ {t} : mpi_load'[u] = mpi_load[u] /\ mpi_load_time'[u] = mpi_load_time[u]
        BY <1>0, <1>1 DEF Round, Know, Types
  <2>3. Knowing(Now', t, L, T)  BY <1>3, <2>1
  <2>4. KnowledgeInv'  BY <1>1, <2>1, <2>2, <2>3, KnowledgeNext
  <2>5. ASSUME ~ wait, NEW b \in Teams PROVE TellsRight(Now, t, b, Request(t, L, T))
    <3>1. \A g \in given : g.to = t => g.time < time_stamp[t]  BY <1>0, <2>5, NoGift
    <3>2. \A g \in Now.given : g.to = t /\ L[g.from] = Idle /\ g.at < T[g.from] => g.time < Now.time[t]
          BY <3>1, NowFacts
    <3>3. Tells(Now, t, b, L, T, Now.time[t])  BY <1>0, <1>1, <3>2, CanTell
    <3>4. KnowsOwn(Now, t, Now.time[t], t, T) /\ Now.loc[t] \in {"get", "recv"}
          BY <1>1, <1>3, NowFacts DEF Knowing
    <3>5. TellsIdle(Now, t, b, T, Now.time[t])  BY <1>0, <3>4, OwnIdle
    <3>6. Tells(Now, t, b, L, T, time_stamp[t]) /\ TellsIdle(Now, t, b, T, time_stamp[t])
          BY <3>3, <3>5, NowFacts
    <3> QED BY <3>6, NowFacts DEF TellsRight, Request
  <2>6. ASSUME NEW a \in Teams, NEW b \in Teams, NEW x \in In(msgs'[a][b])
        PROVE  x \in In(msgs[a][b]) \/ (x.counter = c => Right(Now', a, b, x))
    <3>1. CASE x \in In(net[a][b])
      <4>1. x \in In(msgs[a][b]) \/ (x.code # 6 /\ (x.counter = c => TellsRight(Now, a, b, x)))
            BY <3>1
      <4> QED BY <2>1, <4>1 DEF Right
    <3>2. CASE a = t /\ ~ wait /\ x = Request(t, L, T)
      <4>1. TellsRight(Now', a, b, x)  BY <2>1, <2>5, <3>2
      <4>2. x.code # 6  BY <3>2 DEF Request
      <4> QED BY <4>1, <4>2 DEF Right
    <3>3. pc'[t] # "end"  BY <1>0, <1>4
    <3> QED BY <1>2, <2>6, <3>1, <3>2, <3>3
  <2>7. \A u \in Teams : pc'[u] # "end"  BY <1>0, <1>4
  <2> QED BY <2>1, <2>4, <2>6, <2>7, LiveNext
<1>5. CASE ~ wait /\ Candidates(t, L) = {} /\ pc' = [pc EXCEPT ![t] = "end"]
  <2>1. \A u \in Teams \ {t} : L[u] = Idle
    <3>1. \A u \in Teams \ {t} : L[u] \in {Idle, Some} /\ ~ L[u] > Idle
          BY <1>1, <1>5 DEF Candidates, Loads
    <3>2. Some > Idle  BY DEF Some, Idle
    <3> QED BY <3>1, <3>2
  <2>2. /\ \A u \in Teams : pc[u] \in {"get", "recv"} /\ delegated[u] = {}
        /\ \A p, u \in Teams : work[p][u] = <<>>
    <3>1. \A p \in Teams : work[p][t] = <<>>  BY <1>5
    <3> QED BY <1>1, <1>3, <2>1, <3>1, EndQuiet
  <2>3. pc'[t] = "end"  BY <1>0, <1>5 DEF Types
  <2>4. Quiet'
    <3>1. \A x \in Teams : execution_counter'[x] = c  BY <1>0, <1>1 DEF Uniform
    <3>2. \A u \in Teams : pc'[u] # "busy" /\ delegated'[u] = {}  BY <1>1, <1>2, <2>2, <2>3
    <3>3. \A p, u \in Teams : work'[p][u] = <<>>  BY <1>1, <2>2
    <3> QED BY <3>1, <3>2, <3>3, QuietNext
  <2>5. SomeEnded' /\ Ended(Now')  BY <2>3, NowFacts DEF SomeEnded, Ended
  <2>6. ASSUME NEW a \in Teams, NEW b \in Teams, NEW x \in In(msgs'[a][b])
        PROVE  x \in In(msgs[a][b]) \/ Right(Now', a, b, x)
    <3>1. CASE x \in In(net[a][b])
      <4>1. x \in In(msgs[a][b]) \/ x.code # 6  BY <3>1
      <4> QED BY <2>5, <4>1 DEF Right
    <3>2. CASE a = t  BY <2>3, <2>5, <3>2, NowFacts DEF Right
    <3> QED BY <1>2, <2>6, <3>1, <3>2
  <2>7. RightNet(c, Now', msgs')  BY <1>0, <2>5, <2>6, NetNext
  <2> QED BY <2>4, <2>5, <2>7 DEF LiveOn
<1> QED BY <1>1, <1>4, <1>5 DEF Round


\* A team that is not waiting is not going to get work.
LEMMA NotWaiting ==
  ASSUME NEW c, Alive(c), NEW t \in Teams, pc[t] = "get", ~ waiting[t]
  PROVE  \A p \in Teams : work[p][t] = <<>>
<1>1. Goes(c, t, msgs)  BY AliveFacts
<1> QED BY <1>1, IdleNothing

\* The arrays that a team has are right.
LEMMA KnownNow ==
  ASSUME NEW c, Alive(c), NEW t \in Teams
  PROVE  /\ \A u \in Teams : mpi_load_time[t][u] <= mpi_load_time[t][u]
         /\ AllInTime(Now, mpi_load_time[t]) /\ Knows(Now, t, mpi_load[t], mpi_load_time[t])
<1>1. mpi_load_time[t] \in Times /\ Knowing(Now, t, mpi_load[t], mpi_load_time[t])
      BY AliveFacts
<1>2. \A u \in Teams : mpi_load_time[t][u] \in Nat  BY <1>1 DEF Times
<1> QED BY <1>1, <1>2 DEF Knowing

LEMMA AskLives ==
  ASSUME NEW c, Alive(c), Types', GoesOn(c), NEW t \in Teams, Ask(t)
  PROVE  LiveOn(c)
<1>1. Types /\ SelfNotices  BY AliveFacts
<1> DEFINE L == mpi_load[t]
           T == mpi_load_time[t]
<1>2. Loop(t, msgs, L, T, FALSE) /\ pc[t] = "get" /\ ~ waiting[t]
      BY <1>1, LoopSteps DEF Ask
<1>3. \A p \in Teams : work[p][t] = <<>>  BY <1>2, NotWaiting
<1>4. /\ \A u \in Teams : mpi_load_time[t][u] <= T[u]
      /\ AllInTime(Now, T) /\ Knows(Now, t, L, T)
      BY KnownNow
<1> HIDE DEF L, T
<1> QED BY <1>2, <1>3, <1>4, LoopLives

LEMMA GetOutdatedLives ==
  ASSUME NEW c, Alive(c), Types', GoesOn(c), NEW t \in Teams, NEW q \in Teams, GetOutdated(t, q)
  PROVE  LiveOn(c)
<1>1. Types /\ SelfNotices  BY AliveFacts
<1> DEFINE L == mpi_load[t]
           T == mpi_load_time[t]
           net == Received(q, t)
<1>2. Loop(t, net, L, T, waiting[t]) /\ pc[t] = "get"
      BY <1>1, LoopSteps DEF GetOutdated
<1>3. ~ waiting[t] => \A p \in Teams : work[p][t] = <<>>  BY <1>2, NotWaiting
<1>4. /\ \A u \in Teams : mpi_load_time[t][u] <= T[u]
      /\ AllInTime(Now, T) /\ Knows(Now, t, L, T)
      BY KnownNow
<1>5. \A a, b \in Teams : \A x \in In(net[a][b]) : x \in In(msgs[a][b])
  <2>1. msgs[q][t] # <<>>  BY DEF GetOutdated, Outdated
  <2>2. msgs \in Nets(Messages)  BY <1>1 DEF Types
  <2> QED BY <2>1, <2>2, ReceivedFacts
<1> HIDE DEF L, T, net
<1> QED BY <1>2, <1>3, <1>4, <1>5, LoopLives

LEMMA GetNoticeLives ==
  ASSUME NEW c, Alive(c), Types', GoesOn(c), NEW t \in Teams, NEW q \in Teams, GetNotice(t, q),
         ~ stale'
  PROVE  LiveOn(c)
<1>1. Types /\ SelfNotices /\ execution_counter[t] = c  BY AliveFacts
<1> DEFINE m == Head(msgs[q][t])
           L == [mpi_load[t] EXCEPT ![q] = m.load]
           T == [mpi_load_time[t] EXCEPT ![q] = m.time]
           net == Received(q, t)
<1>2. /\ Loop(t, net, L, T, waiting[t])
      /\ stale' = (stale \/ m.time < mpi_load_time[t][q])
      /\ m \in In(msgs[q][t]) /\ m \in Messages /\ m.code = 4 /\ m.counter = c
      /\ \A a, b \in Teams : \A x \in In(net[a][b]) : x \in In(msgs[a][b])
      BY <1>1, LoopNotice DEF Stale
<1>3. ~ m.time < mpi_load_time[t][q]  BY <1>2
<1>4. /\ \A u \in Teams : mpi_load_time[t][u] <= T[u]
      /\ AllInTime(Now, T) /\ Knows(Now, t, L, T)
  <2> HIDE DEF m
  <2> QED BY <1>2, <1>3, NoticeKnows
<1>5. pc[t] = "get"  BY DEF GetNotice
<1>6. ~ waiting[t] => \A p \in Teams : work[p][t] = <<>>  BY <1>5, NotWaiting
<1> HIDE DEF m, L, T, net
<1> QED BY <1>2, <1>4, <1>6, LoopLives

\* A message that is not older than what it replaces.
LEMMA MergedLater ==
  ASSUME NEW t \in Teams, NEW o \in Teams \ {t}, NEW m, m.times \in Times,
         mpi_load_time[t] \in Times, NEW n \in Nat, ~ n < MergedTimes(t, m)[o]
  PROVE  mpi_load_time[t][o] <= n /\ m.times[o] <= n
<1> DEFINE a == mpi_load_time[t][o]
           b == m.times[o]
           l == MergedTimes(t, m)[o]
<1>1. l = (IF b > a THEN b ELSE a)  BY DEF MergedTimes, Newer
<1>2. a \in Nat /\ b \in Nat /\ ~ n < l  BY DEF Times
<1> HIDE DEF a, b, l
<1>3. a <= n /\ b <= n  BY <1>1, <1>2
<1> QED BY <1>3 DEF a, b

LEMMA GetRefusalLives ==
  ASSUME NEW c, Alive(c), Types', GoesOn(c), NEW t \in Teams, NEW p \in Teams, GetRefusal(t, p),
         ~ stale'
  PROVE  LiveOn(c)
<1>1. /\ Types /\ SelfNotices /\ execution_counter[t] = c /\ mpi_load_time[t] \in Times
      /\ Goes(c, t, msgs) /\ pc[t] # "end"
      BY AliveFacts
<1> DEFINE m == Head(msgs[p][t])
           L == [MergedLoads(t, m) EXCEPT ![p] = m.load]
           T == [MergedTimes(t, m) EXCEPT ![p] = m.time]
           net == Received(p, t)
<1>2. /\ Loop(t, net, L, T, FALSE)
      /\ stale' = (stale \/ m.time < MergedTimes(t, m)[p])
      /\ p # t /\ m \in In(msgs[p][t]) /\ m \in Messages /\ m.code = 3 /\ m.counter = c
      /\ \A a, b \in Teams : \A x \in In(net[a][b]) : x \in In(msgs[a][b])
      BY <1>1, LoopRefusal DEF Stale
<1>3. m.time \in Nat /\ m.load \in {Idle, Some} /\ m.loads \in Loads /\ m.times \in Times
      BY <1>2, MessageFacts
<1>4. /\ Tells(Now, p, t, m.loads, m.times, m.time)
      /\ m.load = Idle => TellsIdle(Now, p, t, m.times, m.time)
  <2>1. TellsRight(Now, p, t, m)  BY <1>2, AliveFacts
  <2> QED BY <1>2, <2>1 DEF TellsRight
<1>5. ~ m.time < MergedTimes(t, m)[p]  BY <1>2
<1> HIDE DEF m
<1>6. mpi_load_time[t][p] <= m.time /\ m.times[p] <= m.time
      BY <1>1, <1>2, <1>3, <1>5, MergedLater
<1>7. LearntFrom(t, p, m, m.time, m.load)  BY <1>2, <1>3, <1>4, <1>6, Merges
<1>8. /\ \A u \in Teams : mpi_load_time[t][u] <= T[u]
      /\ AllInTime(Now, T) /\ Knows(Now, t, L, T)
      BY <1>7 DEF LearntFrom
<1>9. \A u \in Teams : work[u][t] = <<>>
  <2>1. Num(msgs[p][t], c, 3) # 0  BY <1>2, NumIn
  <2>2. /\ Protocol(c, t, pc[t], waiting[t], from[t], msgs, delegated, work)
        /\ from[t] \in Teams /\ pc[t] \in {"busy", "drain", "get", "recv", "end"}
        BY <1>1 DEF Goes, Types
  <2>3. /\ Waits(c, t, p, pc[t], waiting[t], msgs, delegated, work)
        /\ IsRefused(c, t, p, msgs, delegated, work)
        BY <1>1, <2>1, <2>2, Locate
  <2>4. \A u \in Teams \ {p} : work[u][t] = <<>>  BY <2>3 DEF Waits, None, Nothing
  <2>5. work[p][t] = <<>>  BY <2>3 DEF IsRefused
  <2> QED BY <2>4, <2>5
<1> HIDE DEF L, T, net
<1> QED BY <1>2, <1>8, <1>9, LoopLives

LEMMA GetRequestLives ==
  ASSUME NEW c, Alive(c), Types', GoesOn(c), NEW t \in Teams, NEW q \in Teams, GetRequest(t, q),
         ~ stale'
  PROVE  LiveOn(c)
<1>1. /\ Types /\ SelfNotices /\ execution_counter[t] = c /\ mpi_load_time[t] \in Times
      /\ Now \in Moments /\ GiftTimes(Now) /\ time_stamp[t] \in Nat
      BY AliveFacts
<1> DEFINE m == Head(msgs[q][t])
           L == [MergedLoads(t, m) EXCEPT ![q] = Idle]
           T == [MergedTimes(t, m) EXCEPT ![q] = m.time]
           r == Refusal(t, Idle, L, T)
           net == Send(Received(q, t), t, q, r)
<1>2. /\ Loop(t, net, L, T, waiting[t])
      /\ stale' = (stale \/ m.time < MergedTimes(t, m)[q] \/ GiverIdle(t, L, T))
      /\ q # t /\ m \in In(msgs[q][t]) /\ m \in Messages /\ m.code = 1 /\ m.counter = c
      /\ \A a, b \in Teams : \A x \in In(net[a][b]) : x \in In(msgs[a][b]) \/ (a = t /\ b = q /\ x = r)
  <2>1. stale' = (stale \/ m.time < MergedTimes(t, m)[q] \/ GiverIdle(t, L, T))
        BY DEF GetRequest
  <2>2. /\ Loop(t, net, L, T, waiting[t])
        /\ \A a, b \in Teams : \A x \in In(net[a][b]) : x \in In(msgs[a][b]) \/ (a = t /\ b = q /\ x = r)
        BY <1>1, LoopRequest
  <2>3. /\ q # t /\ m \in In(msgs[q][t]) /\ m \in Messages /\ m.code = 1
        /\ m.counter = execution_counter[t]
    <3>1. msgs[q][t] # <<>> /\ m.code = 1 /\ m.counter = execution_counter[t]
          BY DEF GetRequest, Arrived
    <3>2. m.code # 4  BY <3>1
    <3>3. q # t /\ m \in In(msgs[q][t]) /\ m \in Messages  BY <1>1, <3>1, <3>2, ReadFacts, Zenon
    <3> QED BY <3>1, <3>3
  <2> HIDE DEF m, L, T, net, r
  <2> QED BY <1>1, <2>1, <2>2, <2>3
<1>3. m.time \in Nat /\ m.loads \in Loads /\ m.times \in Times
      BY <1>2, MessageFacts
<1>4. /\ Tells(Now, q, t, m.loads, m.times, m.time)
      /\ TellsIdle(Now, q, t, m.times, m.time)
  <2>1. TellsRight(Now, q, t, m)  BY <1>2, AliveFacts
  <2> QED BY <1>2, <2>1 DEF TellsRight
<1>5. ~ m.time < MergedTimes(t, m)[q] /\ ~ GiverIdle(t, L, T)  BY <1>2
<1>6. pc[t] = "get"  BY DEF GetRequest
<1> HIDE DEF m
<1>7. mpi_load_time[t][q] <= m.time /\ m.times[q] <= m.time
      BY <1>1, <1>2, <1>3, <1>5, MergedLater
<1>8. Idle \in {Idle, Some} /\ q \in Teams \ {t}  BY <1>2
<1>9. LearntFrom(t, q, m, m.time, Idle)  BY <1>3, <1>4, <1>7, <1>8, Merges
<1>10. /\ \A u \in Teams : mpi_load_time[t][u] <= T[u]
       /\ L \in Loads /\ T \in Times /\ AllInTime(Now, T) /\ Knows(Now, t, L, T)
       BY <1>9 DEF LearntFrom
<1>11. ~ waiting[t] => \A p \in Teams : work[p][t] = <<>>  BY <1>6, NotWaiting
<1> HIDE DEF L, T
<1>12. \A g \in Now.given : g.to = t /\ L[g.from] = Idle /\ g.at < T[g.from] => g.time < Now.time[t]
  <2>1. ASSUME NEW g \in given, g.to = t, L[g.from] = Idle, g.at < T[g.from]
        PROVE  g.time < time_stamp[t]
    <3>1. g.time # time_stamp[t]  BY <1>5, <2>1 DEF GiverIdle
    <3>2. g.time <= time_stamp[t]  BY <1>1, <2>1, NowFacts DEF GiftTimes
    <3>3. g.time \in Nat  BY <1>1 DEF Types, Gifts
    <3> QED BY <1>1, <3>1, <3>2, <3>3
  <2> QED BY <2>1, NowFacts
<1>13. Tells(Now, t, q, L, T, time_stamp[t])
  <2>1. Tells(Now, t, q, L, T, Now.time[t])  BY <1>1, <1>10, <1>12, CanTell
  <2> QED BY <2>1, NowFacts
<1>14. TellsIdle(Now, t, q, T, time_stamp[t])
  <2>1. Knowing(Now, t, L, T)  BY <1>10, LearntNow
  <2>2. KnowsOwn(Now, t, Now.time[t], t, T) /\ Now.loc[t] \in {"get", "recv"}
        BY <1>6, <2>1, NowFacts DEF Knowing
  <2>3. TellsIdle(Now, t, q, T, Now.time[t])  BY <1>1, <2>2, OwnIdle
  <2> QED BY <2>3, NowFacts
<1>15. r.code # 6 /\ TellsRight(Now, t, q, r)  BY <1>13, <1>14 DEF Refusal, TellsRight
<1> HIDE DEF r, net
<1>16. \A a, b \in Teams : \A x \in In(net[a][b]) :
         x \in In(msgs[a][b]) \/ (x.code # 6 /\ (x.counter = c => TellsRight(Now, a, b, x)))
       BY <1>2, <1>15
<1> QED BY <1>2, <1>10, <1>11, <1>16, LoopLives


\* All steps of a query that is not over.
LEMMA LiveStep ==
  ASSUME NEW c, Alive(c), Types', GoesOn(c), NEW t \in Teams, Step(t), ~ stale'
  PROVE  LiveOn(c)
<1>1. CASE CheckMessages(t)
  <2>1. PICK q \in Teams : \/ Reject(t, q) \/ GiveWork(t, q) \/ Delegate(t, q)
                           \/ LearnNotice(t, q) \/ DropMessage(t, q)
        BY <1>1 DEF CheckMessages
  <2> QED BY <2>1, RejectLives, GiveWorkLives, DelegateLives, LearnNoticeLives, DropMessageLives
<1>2. CASE CheckDelegations(t)
  <2>1. CASE DelegatedStarts(t)
    <3>1. PICK d \in delegated[t] : StartsFor(t, d)  BY <2>1 DEF DelegatedStarts, StartsFor
    <3> QED BY <3>1, StartsLives
  <2>2. CASE DelegatedDone(t)
    <3>1. PICK d \in delegated[t] : DoneFor(t, d)  BY <2>2 DEF DelegatedDone, DoneFor
    <3> QED BY <3>1, DoneLives
  <2>3. CASE DelegatedRefused(t)
    <3>1. PICK d \in delegated[t] : RefusedFor(t, d)  BY <2>3 DEF DelegatedRefused, RefusedFor
    <3> QED BY <3>1, RefusedLives
  <2> QED BY <1>2, <2>1, <2>2, <2>3 DEF CheckDelegations
<1>3. CASE BecomeIdle(t) \/ Drained(t)  BY <1>3, IdleLives
<1>4. CASE Ask(t)  BY <1>4, AskLives
<1>5. CASE Install(t)  BY <1>5, InstallLives
<1>6. ASSUME NEW q \in Teams,
             \/ GetRequest(t, q) \/ GetRefusal(t, q) \/ GetNotice(t, q) \/ GetOutdated(t, q)
      PROVE  LiveOn(c)
      BY <1>6, GetRequestLives, GetRefusalLives, GetNoticeLives, GetOutdatedLives
<1>7. ASSUME NEW q \in Teams, GetAccepted(t, q) PROVE LiveOn(c)  BY <1>7, IdleLives
<1>8. ASSUME NEW q \in Teams PROVE ~ GetEnd(t, q)
  <2>1. Regular(c) /\ ~ SomeEnded  BY DEF Alive
  <2>2. ~ Arrived(t, q, {6})  BY <2>1, EndIsQuiet
  <2> QED BY <2>2 DEF GetEnd
<1> QED BY <1>1, <1>2, <1>3, <1>4, <1>5, <1>6, <1>7, <1>8 DEF Step, GetWork

-----------------------------------------------------------------------------
(***************************************************************************)
(* The invariant.                                                          *)
(***************************************************************************)

\* What is stale stays so.
LEMMA StaleStays ==
  ASSUME NEW t \in Teams, Step(t), stale
  PROVE  stale'
<1>1. CASE CheckMessages(t)
      BY <1>1 DEF CheckMessages, Reject, GiveWork, Delegate, LearnNotice, DropMessage, Stale, known
<1>2. CASE CheckDelegations(t)
      BY <1>2 DEF CheckDelegations, DelegatedStarts, DelegatedDone, DelegatedRefused, known
<1>3. CASE BecomeIdle(t) \/ Drained(t) \/ Ask(t) \/ Install(t)
      BY <1>3 DEF BecomeIdle, Drained, Ask, Install, Stale, known
<1>4. ASSUME NEW q \in Teams,
             \/ GetRequest(t, q) \/ GetRefusal(t, q) \/ GetNotice(t, q) \/ GetOutdated(t, q)
             \/ GetEnd(t, q) \/ GetAccepted(t, q)
      PROVE  stale'
      BY <1>4 DEF GetRequest, GetRefusal, GetNotice, GetOutdated, GetEnd, GetAccepted, Stale, known
<1> QED BY <1>1, <1>2, <1>3, <1>4 DEF Step, GetWork

\* The start of a query: nobody knows anything, and no message is of it.
Begins ==
  /\ Types
  /\ \A t \in Teams : pc[t] \in {"busy", "get"} /\ ~ waiting[t] /\ delegated[t] = {}
  /\ \A p, q \in Teams : work[p][q] = <<>>
  /\ \A p, q, t \in Teams : \A m \in In(msgs[p][q]) : m.counter # execution_counter[t]
  /\ \A t, u \in Teams : mpi_load[t][u] = Some /\ mpi_load_time[t][u] = 0
  /\ given = {}

LEMMA BeginsFresh == Begins => Fresh
<1> SUFFICES ASSUME Begins PROVE Fresh
    OBVIOUS
<1>1. Types /\ given = {}  BY DEF Begins
<1>2. ProtocolInv
  <2>1. ASSUME NEW t \in Teams
        PROVE  Protocol(execution_counter[t], t, pc[t], waiting[t], from[t], msgs, delegated, work)
    <3> DEFINE c == execution_counter[t]
    <3>1. \A a, b \in Teams : \A k : Num(msgs[a][b], c, k) = 0
      <4>1. \A a, b \in Teams : \A m \in In(msgs[a][b]) : m.counter # c  BY DEF Begins
      <4>2. \A a, b \in Teams : msgs[a][b] \in Seq(Messages)  BY <1>1 DEF Types, Nets
      <4> HIDE DEF c
      <4> QED BY <4>1, <4>2, NumZero
    <3> HIDE DEF c
    <3>2. \A p \in Teams : Of(delegated[p], t) = {} /\ work[p][t] = <<>>  BY DEF Begins, Of
    <3>3. \A p \in Teams : None(c, t, p, msgs, delegated, work)
          BY <3>1, <3>2 DEF None, Nothing
    <3>4. pc[t] \in {"busy", "get"} /\ ~ waiting[t] /\ delegated[t] = {}  BY DEF Begins
    <3>5. Protocol(c, t, pc[t], waiting[t], from[t], msgs, delegated, work)
          BY <3>3, <3>4 DEF Protocol
    <3> QED BY <3>5 DEF c
  <2> QED BY <2>1 DEF ProtocolInv
<1>3. RightNet(execution_counter[Team0], Now, msgs)
      BY TeamsAssumption DEF Begins, RightNet
<1>4. ~ SomeEnded  BY DEF Begins, SomeEnded
<1>5. GivenInv
  <2>1. GiftTimes(Now)  BY <1>1, NowFacts DEF GiftTimes
  <2> QED BY <1>1, <2>1 DEF Begins, GivenInv
<1>6. Cuts(Now)  BY <1>1, NowFacts DEF Cuts
<1>7. KnowledgeInv
  <2>1. ASSUME NEW t \in Teams PROVE Knowing(Now, t, mpi_load[t], mpi_load_time[t])
    <3>1. \A u \in Teams : mpi_load[t][u] # Idle /\ mpi_load_time[t][u] = 0
          BY DEF Begins, Some, Idle
    <3>2. \A u \in Teams : Now.time[u] \in Nat  BY <1>1, NowMoment, MomentFacts
    <3>3. AllInTime(Now, mpi_load_time[t])  BY <3>1, <3>2 DEF AllInTime, InTime
    <3>4. Knows(Now, t, mpi_load[t], mpi_load_time[t])  BY <3>1 DEF Knows
    <3>5. KnowsOwn(Now, t, Now.time[t], t, mpi_load_time[t])  BY <1>1, NowFacts DEF KnowsOwn
    <3> QED BY <3>3, <3>4, <3>5 DEF Knowing
  <2>2. \A p, q \in Teams : In(work[p][q]) = {}  BY DEF Begins, In
  <2>3. \A p \in Teams : delegated[p] = {}  BY DEF Begins
  <2> QED BY <2>1, <2>2, <2>3 DEF KnowledgeInv
<1> QED BY <1>2, <1>3, <1>4, <1>5, <1>6, <1>7 DEF Fresh

LEMMA InitInv == Init => Inv
<1> SUFFICES ASSUME Init PROVE Inv
    OBVIOUS
<1>1. Types /\ SelfNotices  BY InitTypes
<1>2. \A p, q \in Teams : msgs[p][q] = <<>> /\ work[p][q] = <<>>  BY DEF Init, NoMessages
<1>3. \A p, q \in Teams : In(msgs[p][q]) = {}  BY <1>2 DEF In
<1>4. CounterInv  BY <1>3 DEF Init, CounterInv
<1>5. Begins  BY <1>1, <1>2, <1>3 DEF Init, Begins
<1> QED BY <1>1, <1>4, <1>5, BeginsFresh DEF Inv

\* The second query counts 0, so that no message of the first one is read.
LEMMA QueryStep ==
  ASSUME Queries <= 2, Inv, NextQuery
  PROVE  Inv'
<1>1. Types /\ SelfNotices /\ CounterInv /\ (stale \/ Fresh)  BY DEF Inv
<1>2. Types' /\ SelfNotices'
  <2>1. Types'  BY <1>1, QueryTypes
  <2>2. \A t \in Teams : \A m \in In(msgs'[t][t]) : m \in In(msgs[t][t])  BY <1>1, QueryFacts
  <2> QED BY <1>1, <2>1, <2>2 DEF SelfNotices
<1>3. queries = 1 /\ queries' = 2
  <2>1. queries \in 1 .. Queries /\ queries < Queries /\ queries' = queries + 1
        BY <1>1 DEF NextQuery, Types
  <2> QED BY <2>1, TeamsAssumption
<1>4. \A t \in Teams : execution_counter'[t] = 0  BY <1>1, <1>3 DEF NextQuery, CounterInv
<1>5. CounterInv'  BY <1>3, <1>4 DEF CounterInv
<1>6. CASE stale
  <2>1. stale'  BY <1>6 DEF NextQuery
  <2> QED BY <1>2, <1>5, <2>1 DEF Inv
<1>7. CASE Fresh
  <2>1. Quiet
    <3>1. SomeEnded  BY TeamsAssumption DEF NextQuery, SomeEnded
    <3> QED BY <1>7, <3>1 DEF Fresh
  <2>2. /\ \A t \in Teams : pc'[t] \in {"busy", "get"} /\ ~ waiting'[t]
        /\ \A t, u \in Teams : mpi_load'[t][u] = Some /\ mpi_load_time'[t][u] = 0
        /\ given' = {} /\ delegated' = delegated /\ work' = work
        BY DEF NextQuery
  <2>3. \A p, q, t \in Teams : \A m \in In(msgs'[p][q]) : m.counter # execution_counter'[t]
    <3>1. \A p, q \in Teams : \A m \in In(msgs'[p][q]) : m \in In(msgs[p][q])
          BY <1>1, QueryFacts
    <3>2. \A p, q \in Teams : \A m \in In(msgs[p][q]) : m.counter = 10
          BY <1>1, <1>3 DEF CounterInv
    <3> QED BY <1>4, <3>1, <3>2
  <2>4. (\A t \in Teams : delegated[t] = {}) /\ \A p, q \in Teams : work[p][q] = <<>>
        BY <2>1 DEF Quiet
  <2>5. Begins'  BY <1>2, <2>2, <2>3, <2>4 DEF Begins
  <2>6. Begins' => Fresh'  BY BeginsFresh, PTL
  <2> QED BY <1>2, <1>5, <2>5, <2>6 DEF Inv
<1> QED BY <1>1, <1>6, <1>7

LEMMA TeamStep ==
  ASSUME Inv, NEW t \in Teams, Step(t)
  PROVE  Inv'
<1>1. Types /\ SelfNotices /\ CounterInv /\ (stale \/ Fresh)  BY DEF Inv
<1>2. /\ Types' /\ Sends(t) /\ execution_counter' = execution_counter /\ queries' = queries
      BY <1>1, SafeStep DEF Safe
<1>3. SelfNotices'
  <2>1. ASSUME NEW u \in Teams, NEW m \in In(msgs'[u][u]) PROVE m.code = 4
        BY <1>1, <1>2, <2>1 DEF Sends, SelfNotices
  <2> QED BY <2>1 DEF SelfNotices
<1>4. CounterInv'
  <2>1. ASSUME queries = 1, NEW p \in Teams, NEW q \in Teams, NEW m \in In(msgs'[p][q])
        PROVE  m.counter = 10
        BY <1>1, <1>2, <2>1 DEF Sends, CounterInv
  <2> QED BY <1>1, <1>2, <2>1 DEF CounterInv
<1>5. CASE stale  BY <1>2, <1>3, <1>4, <1>5, StaleStays DEF Inv
<1>6. CASE stale'  BY <1>2, <1>3, <1>4, <1>6 DEF Inv
<1>7. CASE Fresh /\ ~ stale'
  <2> DEFINE c == execution_counter[Team0]
  <2>1. Uniform(c)  BY <1>1, TeamsAssumption DEF Uniform, CounterInv
  <2>2. execution_counter'[Team0] = c /\ \A x \in Teams : execution_counter'[x] = c
        BY <1>2, <2>1 DEF Uniform
  <2>3. RightNet(c, Now, msgs)  BY <1>7 DEF Fresh
  <2> HIDE DEF c
  <2>4. \A x \in Teams : Goes(c, x, msgs)
        BY <1>7, <2>1 DEF Fresh, ProtocolInv, Goes, Uniform
  <2>5. Regular(c)  BY <1>1, <1>7, <2>1, <2>3, <2>4 DEF Fresh, Regular
  <2>6. GoesOn(c)  BY <2>5, ProtocolStep
  <2>7. ProtocolInv'  BY <2>2, <2>6 DEF ProtocolInv, GoesOn
  <2>8. LiveOn(c)
    <3>1. CASE SomeEnded
      <4>1. EndGoesOn(c)  BY <1>2, <2>5, <2>6, <3>1, EndedStep
      <4> QED BY <4>1 DEF EndGoesOn, LiveOn
    <3>2. CASE ~ SomeEnded
      <4>1. Alive(c)  BY <1>7, <2>5, <3>2 DEF Fresh, Alive
      <4> QED BY <1>2, <1>7, <2>6, <4>1, LiveStep
    <3> QED BY <3>1, <3>2
  <2>9. Fresh'  BY <2>2, <2>7, <2>8 DEF Fresh, LiveOn
  <2> QED BY <1>2, <1>3, <1>4, <2>9 DEF Inv
<1> QED BY <1>1, <1>5, <1>6, <1>7

LEMMA StepInv == Queries <= 2 => (Inv /\ [Next]_vars => Inv')
<1> SUFFICES ASSUME Queries <= 2, Inv, [Next]_vars PROVE Inv'
    OBVIOUS
<1>1. CASE NextQuery  BY <1>1, QueryStep
<1>2. ASSUME NEW t \in Teams, Step(t) PROVE Inv'  BY <1>2, TeamStep
<1>3. CASE UNCHANGED vars
  <2>1. UNCHANGED <<execution_counter, queries, answers, pc, waiting, time_stamp, from, delegated,
                    mpi_load, mpi_load_time, stale, msgs, work, given>>
        BY <1>3 DEF vars, state, known, network, copies, counters
  <2>2. Types' /\ SelfNotices' /\ CounterInv'
        BY <2>1 DEF Inv, Types, SelfNotices, CounterInv
  <2>3. ASSUME Fresh PROVE Fresh'
    <3>1. Now' = Now  BY <2>1 DEF Now
    <3>2. ProtocolInv' /\ RightNet(execution_counter[Team0], Now, msgs)'
          BY <2>1, <2>3, <3>1 DEF Fresh, ProtocolInv
    <3>3. (SomeEnded' = SomeEnded) /\ (Quiet' = Quiet)
          BY <2>1 DEF SomeEnded, Quiet, OnTheWay
    <3>4. (GivenInv' = GivenInv) /\ (KnowledgeInv' = KnowledgeInv)
          BY <2>1, <3>1 DEF GivenInv, KnowledgeInv
    <3> QED BY <2>3, <3>1, <3>2, <3>3, <3>4 DEF Fresh
  <2> QED BY <2>1, <2>2, <2>3 DEF Inv
<1> QED BY <1>1, <1>2, <1>3 DEF Next, Step


(***************************************************************************)
(* What the invariant says of the protocol, in terms of messages.          *)
(***************************************************************************)

\* The messages of these codes between p and q, and how many of each there are.
LEMMA OnTheWayFacts ==
  ASSUME NEW t \in Teams, NEW p \in Teams, NEW q \in Teams, NEW c, c = execution_counter[t]
  PROVE  /\ Num(msgs[p][q], c, 1) = 0 => OnTheWay(t, p, q, {1}) = {}
         /\ Num(msgs[p][q], c, 1) = 1 => \E e : OnTheWay(t, p, q, {1}) = {e}
         /\ Num(msgs[p][q], c, 2) = 0 /\ Num(msgs[p][q], c, 3) = 0 => OnTheWay(t, p, q, {2, 3}) = {}
         /\ \/ Num(msgs[p][q], c, 2) = 1 /\ Num(msgs[p][q], c, 3) = 0
            \/ Num(msgs[p][q], c, 2) = 0 /\ Num(msgs[p][q], c, 3) = 1
            => \E e : OnTheWay(t, p, q, {2, 3}) = {e}
<1> DEFINE P(k) == {i \in DOMAIN msgs[p][q] : msgs[p][q][i].counter = c /\ msgs[p][q][i].code = k}
<1>1. ASSUME NEW k
      PROVE  /\ Num(msgs[p][q], c, k) = 0 => P(k) = {}
             /\ Num(msgs[p][q], c, k) = 1 => \E i : P(k) = {i}
  <2> DEFINE Q == P(k)
  <2>1. Num(msgs[p][q], c, k) = (IF Q = {} THEN 0 ELSE IF \E i \in Q : Q = {i} THEN 1 ELSE 2)
        BY DEF Num
  <2> HIDE DEF Q
  <2>2. /\ Num(msgs[p][q], c, k) = 0 => Q = {}
        /\ Num(msgs[p][q], c, k) = 1 => \E i : Q = {i}
        BY <2>1
  <2> QED BY <2>2 DEF Q
<1>2. /\ OnTheWay(t, p, q, {1}) = {<<p, q, i>> : i \in P(1)}
      /\ OnTheWay(t, p, q, {2, 3}) = {<<p, q, i>> : i \in P(2) \cup P(3)}
      BY DEF OnTheWay
<1> HIDE DEF P
<1>3. \A i : {<<p, q, j>> : j \in {i}} = {<<p, q, i>>}  OBVIOUS
<1>4. ASSUME NEW i, P(2) \cup P(3) = {i} PROVE \E e : OnTheWay(t, p, q, {2, 3}) = {e}
      BY <1>2, <1>3, <1>4
<1>5. ASSUME \/ Num(msgs[p][q], c, 2) = 1 /\ Num(msgs[p][q], c, 3) = 0
             \/ Num(msgs[p][q], c, 2) = 0 /\ Num(msgs[p][q], c, 3) = 1
      PROVE  \E i : P(2) \cup P(3) = {i}
  <2>1. CASE Num(msgs[p][q], c, 2) = 1 /\ Num(msgs[p][q], c, 3) = 0
    <3>1. P(3) = {} /\ \E i : P(2) = {i}  BY <1>1, <2>1
    <3> QED BY <3>1
  <2>2. CASE Num(msgs[p][q], c, 2) = 0 /\ Num(msgs[p][q], c, 3) = 1
    <3>1. P(2) = {} /\ \E i : P(3) = {i}  BY <1>1, <2>2
    <3> QED BY <3>1
  <2> QED BY <1>5, <2>1, <2>2
<1>6. Num(msgs[p][q], c, 2) = 0 /\ Num(msgs[p][q], c, 3) = 0 => OnTheWay(t, p, q, {2, 3}) = {}
      BY <1>1, <1>2
<1>7. /\ Num(msgs[p][q], c, 1) = 0 => OnTheWay(t, p, q, {1}) = {}
      /\ Num(msgs[p][q], c, 1) = 1 => \E e : OnTheWay(t, p, q, {1}) = {e}
  <2>1. Num(msgs[p][q], c, 1) = 0 => P(1) = {}  BY <1>1
  <2>2. Num(msgs[p][q], c, 1) = 1 => \E i : P(1) = {i}  BY <1>1
  <2> QED BY <1>2, <1>3, <2>1, <2>2
<1> QED BY <1>4, <1>5, <1>6, <1>7

\* What there is between t and p, of the requests of t and of work for it.
AskedOf(t, p) ==      OnTheWay(t, t, p, {1})
                 \cup {<<p, d>> : d \in {e \in delegated[p] : e.q = t /\ ~ e.ok}}
                 \cup OnTheWay(t, p, t, {2, 3})
PromisedBy(t, p) ==      {<<p, d>> : d \in {e \in delegated[p] : e.q = t /\ e.ok}}
                    \cup {<<p, t, i>> : i \in DOMAIN work[p][t]}

LEMMA PairFacts ==
  ASSUME Types, NEW t \in Teams, NEW p \in Teams, NEW c, c = execution_counter[t]
  PROVE  /\ None(c, t, p, msgs, delegated, work) => AskedOf(t, p) = {} /\ PromisedBy(t, p) = {}
         /\ Asked(c, t, p, msgs, delegated, work) => \E e : AskedOf(t, p) = {e}
         /\ Promises(c, t, p, msgs, delegated, work) =>
              AskedOf(t, p) = {} /\ \E e : PromisedBy(t, p) = {e}
<1> DEFINE A == OnTheWay(t, t, p, {1})
           D == {<<p, d>> : d \in {e \in delegated[p] : e.q = t /\ ~ e.ok}}
           R == OnTheWay(t, p, t, {2, 3})
           O == {<<p, d>> : d \in {e \in delegated[p] : e.q = t /\ e.ok}}
           W == {<<p, t, i>> : i \in DOMAIN work[p][t]}
<1>1. AskedOf(t, p) = A \cup D \cup R /\ PromisedBy(t, p) = O \cup W
      BY DEF AskedOf, PromisedBy
<1>2. /\ Num(msgs[t][p], c, 1) = 0 => A = {}
      /\ Num(msgs[t][p], c, 1) = 1 => \E e : A = {e}
      /\ Num(msgs[p][t], c, 2) = 0 /\ Num(msgs[p][t], c, 3) = 0 => R = {}
      /\ \/ Num(msgs[p][t], c, 2) = 1 /\ Num(msgs[p][t], c, 3) = 0
         \/ Num(msgs[p][t], c, 2) = 0 /\ Num(msgs[p][t], c, 3) = 1
         => \E e : R = {e}
      BY OnTheWayFacts
<1>3. Of(delegated[p], t) = {} => D = {} /\ O = {}  BY DEF Of
<1>4. ASSUME NEW d, Of(delegated[p], t) = {d}
      PROVE  /\ ~ d.ok => D = {<<p, d>>} /\ O = {}
             /\ d.ok => D = {} /\ O = {<<p, d>>}
  <2>1. d \in delegated[p] /\ d.q = t  BY <1>4 DEF Of
  <2>2. \A e \in delegated[p] : e.q = t => e = d  BY <1>4 DEF Of
  <2>3. ~ d.ok => {e \in delegated[p] : e.q = t /\ ~ e.ok} = {d}
                  /\ {e \in delegated[p] : e.q = t /\ e.ok} = {}
        BY <2>1, <2>2
  <2>4. d.ok => {e \in delegated[p] : e.q = t /\ ~ e.ok} = {}
                /\ {e \in delegated[p] : e.q = t /\ e.ok} = {d}
        BY <2>1, <2>2
  <2> QED BY <2>3, <2>4
<1>5. work[p][t] = <<>> => W = {}  OBVIOUS
<1>6. Len(work[p][t]) = 1 => W = {<<p, t, 1>>}
  <2>1. work[p][t] \in Seq(Copies)  BY DEF Types, Nets
  <2>2. Len(work[p][t]) = 1 => DOMAIN work[p][t] = {1}  BY <2>1
  <2> QED BY <2>2
<1> HIDE DEF A, D, R, O, W
<1>7. None(c, t, p, msgs, delegated, work) => AskedOf(t, p) = {} /\ PromisedBy(t, p) = {}
      BY <1>1, <1>2, <1>3, <1>5 DEF None, Nothing
<1>8. Coming(t, delegated[p], work[p][t]) => D = {} /\ \E e : PromisedBy(t, p) = {e}
  <2>1. ASSUME NEW d, Of(delegated[p], t) = {d}, d.ok, work[p][t] = <<>>
        PROVE  D = {} /\ PromisedBy(t, p) = {<<p, d>>}
        BY <1>1, <1>4, <1>5, <2>1
  <2>2. ASSUME Of(delegated[p], t) = {}, Len(work[p][t]) = 1
        PROVE  D = {} /\ PromisedBy(t, p) = {<<p, t, 1>>}
        BY <1>1, <1>3, <1>6, <2>2
  <2> QED BY <2>1, <2>2 DEF Coming
<1>9. ASSUME Asked(c, t, p, msgs, delegated, work) PROVE \E e : AskedOf(t, p) = {e}
  <2>1. CASE IsSent(c, t, p, msgs, delegated, work)  BY <1>1, <1>2, <1>3, <2>1 DEF IsSent
  <2>2. ASSUME NEW d, IsDelegated(c, t, p, msgs, delegated, work, d), ~ d.ok
        PROVE  AskedOf(t, p) = {<<p, d>>}
        BY <1>1, <1>2, <1>4, <2>2 DEF IsDelegated
  <2>3. CASE IsRefused(c, t, p, msgs, delegated, work)  BY <1>1, <1>2, <1>3, <2>3 DEF IsRefused
  <2>4. CASE IsAccepted(c, t, p, msgs, delegated, work)  BY <1>1, <1>2, <1>8, <2>4 DEF IsAccepted
  <2> QED BY <1>9, <2>1, <2>2, <2>3, <2>4, Stages
<1>10. Promises(c, t, p, msgs, delegated, work) =>
         AskedOf(t, p) = {} /\ \E e : PromisedBy(t, p) = {e}
       BY <1>1, <1>2, <1>8 DEF Promises, Accepts
<1> QED BY <1>7, <1>9, <1>10


(***************************************************************************)
(* Every request is answered exactly once, and with work if it is          *)
(* accepted, for any number of teams, in two successive queries.           *)
(***************************************************************************)
LEMMA FreshAnswers ==
  ASSUME Types, Fresh
  PROVE  OneAnswer
<1> DEFINE c(t) == execution_counter[t]
<1>1. ASSUME NEW t \in Teams
      PROVE  /\ pc[t] = "get" => Cardinality(Unanswered(t)) = (IF waiting[t] THEN 1 ELSE 0)
             /\ pc[t] = "recv" => Unanswered(t) = {} /\ Cardinality(Promised(t)) = 1
             /\ pc[t] \in {"busy", "drain"} => Unanswered(t) \cup Promised(t) = {}
  <2>1. /\ Unanswered(t) = UNION {AskedOf(t, p) : p \in Teams}
        /\ Promised(t) = UNION {PromisedBy(t, p) : p \in Teams}
        BY DEF Unanswered, Promised, AskedOf, PromisedBy
  <2>2. Protocol(c(t), t, pc[t], waiting[t], from[t], msgs, delegated, work)
        BY DEF Fresh, ProtocolInv
  <2>3. ASSUME NEW p \in Teams
        PROVE  /\ None(c(t), t, p, msgs, delegated, work) => AskedOf(t, p) = {} /\ PromisedBy(t, p) = {}
               /\ Asked(c(t), t, p, msgs, delegated, work) => \E e : AskedOf(t, p) = {e}
               /\ Promises(c(t), t, p, msgs, delegated, work) =>
                    AskedOf(t, p) = {} /\ \E e : PromisedBy(t, p) = {e}
        BY PairFacts
  <2> HIDE DEF c
  <2>4. Cardinality({}) = 0 /\ \A e : Cardinality({e}) = 1  BY FS_EmptySet, FS_Singleton
  <2>5. CASE pc[t] \in {"busy", "drain"} \/ (pc[t] = "get" /\ ~ waiting[t])
    <3>1. \A p \in Teams : AskedOf(t, p) = {} /\ PromisedBy(t, p) = {}
          BY <2>2, <2>3, <2>5 DEF Protocol
    <3>2. Unanswered(t) = {} /\ Promised(t) = {}  BY <2>1, <3>1
    <3> QED BY <2>4, <2>5, <3>2
  <2>6. CASE pc[t] = "get" /\ waiting[t]
    <3>1. PICK p \in Teams \ {t} : /\ Asked(c(t), t, p, msgs, delegated, work)
                                   /\ \A u \in Teams \ {p} : None(c(t), t, u, msgs, delegated, work)
          BY <2>2, <2>6 DEF Protocol
    <3>2. \A u \in Teams \ {p} : AskedOf(t, u) = {}  BY <2>3, <3>1
    <3>3. PICK e : AskedOf(t, p) = {e}  BY <2>3, <3>1
    <3>4. Unanswered(t) = {e}  BY <2>1, <3>2, <3>3
    <3> QED BY <2>4, <2>6, <3>4
  <2>7. CASE pc[t] = "recv"
    <3>1. /\ Promises(c(t), t, from[t], msgs, delegated, work)
          /\ \A u \in Teams \ {from[t]} : None(c(t), t, u, msgs, delegated, work)
          BY <2>2, <2>7 DEF Protocol
    <3>2. from[t] \in Teams  BY DEF Types
    <3>3. \A u \in Teams \ {from[t]} : AskedOf(t, u) = {} /\ PromisedBy(t, u) = {}  BY <2>3, <3>1
    <3>4. AskedOf(t, from[t]) = {} /\ \E e : PromisedBy(t, from[t]) = {e}  BY <2>3, <3>1, <3>2
    <3>5. PICK e : PromisedBy(t, from[t]) = {e}  BY <3>4
    <3>6. Unanswered(t) = {} /\ Promised(t) = {e}  BY <2>1, <3>2, <3>3, <3>4, <3>5
    <3> QED BY <2>4, <2>7, <3>6
  <2> QED BY <2>5, <2>6, <2>7
<1> QED BY <1>1 DEF OneAnswer

THEOREM AnswersOnce == Queries <= 2 => (Spec => []OneAnswer)
<1> SUFFICES ASSUME Queries <= 2 PROVE Spec => []OneAnswer
    OBVIOUS
<1>1. Init => Inv  BY InitInv
<1>2. Inv /\ [Next]_vars => Inv'  BY StepInv
<1>3. Inv => OneAnswer  BY FreshAnswers DEF Inv, OneAnswer
<1> QED BY <1>1, <1>2, <1>3, PTL DEF Spec

(***************************************************************************)
(* A team leaves mpi_team_get_work only when no team has work, waits for   *)
(* it or is about to get it, unless what a team knew has been replaced by  *)
(* something older: for any number of teams, in two successive queries.    *)
(***************************************************************************)
THEOREM EndsQuiet == Queries <= 2 => (Spec => []EndsQuietUnlessStale)
<1> SUFFICES ASSUME Queries <= 2 PROVE Spec => []EndsQuietUnlessStale
    OBVIOUS
<1>1. Init => Inv  BY InitInv
<1>2. Inv /\ [Next]_vars => Inv'  BY StepInv
<1>3. Inv => EndsQuietUnlessStale
      BY DEF Inv, Fresh, SomeEnded, EndsQuietUnlessStale, EndsOnlyWhenQuiet
<1> QED BY <1>1, <1>2, <1>3, PTL DEF Spec
=============================================================================
