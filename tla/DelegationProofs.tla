-------------------------- MODULE DelegationProofs --------------------------
(***************************************************************************)
(* Proofs about Delegation, for any team, any number of areas and any      *)
(* number of teams that ask: type correctness, that the buffers of the     *)
(* areas have one writer, that no delegation is forgotten, and that the    *)
(* count of free areas is right.                                           *)
(***************************************************************************)
EXTENDS Delegation, FiniteSetTheorems, SequenceTheorems, TLAPS

(***************************************************************************)
(* The inductive invariant.                                                *)
(***************************************************************************)

\* TypeOK without the range of n_free, which follows from FreeAreasCounted,
\* and the replies, which are part of Requests.
Types ==
  /\ zero \in {"run", "scan", "probe", "own", "delegate", "drain", "get", "recv"}
  /\ at \in Area
  /\ chosen \in [q : Team \cup {Nobody}, p : Worker \cup {Nobody}, area : Area \cup {Nobody}]
  /\ pc \in [Others -> {"run", "copy", "copied", "refuse", "check", "idle"}]
  /\ aux_area \in [Others -> Area \cup {Nobody}]
  /\ share_area \in [Worker -> Area \cup {Nobody}]
  /\ idle \subseteq Worker /\ delegated \subseteq Others
  /\ is_free \in [Area -> BOOLEAN]
  /\ worker_q \in [Area -> Team \cup {Nobody}]
  /\ worker_p \in [Area -> Others \cup {Nobody}]
  /\ messages \in [Area -> 0 .. 3]
  /\ msg_ok \in [Area -> BOOLEAN]
  /\ n_free \in Int
  /\ asking \subseteq Team /\ inbox \subseteq Team

\* Area a is worker p's to answer, and p has got so far.
Holds(p, a) ==
  \/ pc[p] \in {"run", "check"} /\ share_area[p] = a /\ messages[a] = 0
  \/ pc[p] = "copy" /\ share_area[p] = a /\ aux_area[p] = a /\ messages[a] = 3
  \/ pc[p] = "copied" /\ share_area[p] = Nobody /\ aux_area[p] = a /\ messages[a] = 3
  \/ pc[p] = "refuse" /\ share_area[p] = Nobody /\ aux_area[p] = a /\ messages[a] = 0

\* The area is taken, by p, which has not answered.
Has(p, a) == a \in Area /\ ~ is_free[a] /\ worker_p[a] = p /\ Holds(p, a)

Areas ==
  /\ \A a \in Area : is_free[a] => messages[a] = 0
  /\ \A a \in Area : ~ is_free[a] =>
       /\ worker_p[a] \in delegated /\ worker_q[a] \in Team
       /\ messages[a] \in {1, 2} \/ Holds(worker_p[a], a)
  /\ \A a \in Area : ~ is_free[a] /\ msg_ok[a] => messages[a] \in {1, 3}
  /\ \A a, b \in Area : ~ is_free[a] /\ ~ is_free[b] /\ worker_p[a] = worker_p[b] => a = b

Workers ==
  \A p \in Others :
    /\ share_area[p] # Nobody => Has(p, share_area[p])
    /\ pc[p] \in {"copy", "copied", "refuse"} => Has(p, aux_area[p])
    /\ pc[p] \in {"check", "idle"} => p \in idle

\* What worker 0 has chosen stays as it was: only worker 0 takes areas.
Choice ==
  /\ zero = "delegate" =>
       /\ chosen.q \in Team /\ chosen.p \in Others /\ chosen.area \in Area
       /\ is_free[chosen.area] /\ chosen.p \notin delegated
  /\ zero = "own" =>
       /\ chosen.q \in Team /\ chosen.area \in Area
       /\ is_free[chosen.area] /\ share_area[Zero] = chosen.area

\* Worker 0 looks for work elsewhere only when all areas are free.
Getting ==
  /\ zero \in {"get", "recv"} => n_free >= NArenas
  /\ zero = "recv" => share_area[Zero] = 0

\* What a team has received in answer to its request.
Silent == <<>>
Promised == <<2>>
Denied == <<3>>
Granted == <<2, 7>>

\* A request waits in one place, and has been answered so far.
Requests ==
  /\ replies \in [Team -> {Silent, Promised, Denied, Granted}]
  /\ \A q \in Team : replies[q] # Silent => q \in asking
  /\ \A q \in inbox : q \in asking /\ replies[q] = Silent
  /\ \A a \in Area : ~ is_free[a] =>
       /\ worker_q[a] \in asking \ inbox
       /\ replies[worker_q[a]] = IF msg_ok[a] THEN Promised ELSE Silent
  /\ \A a, b \in Area : ~ is_free[a] /\ ~ is_free[b] /\ worker_q[a] = worker_q[b] => a = b
  /\ zero \in {"own", "delegate"} =>
       /\ chosen.q \in asking \ inbox
       /\ replies[chosen.q] = IF zero = "own" THEN Promised ELSE Silent
       /\ \A a \in Area : ~ is_free[a] => worker_q[a] # chosen.q

IInv == Types /\ FreeAreasCounted /\ Areas /\ Workers /\ Choice /\ Getting /\ Requests

-----------------------------------------------------------------------------

\* There are finitely many areas, NArenas of them.
LEMMA AreasFinite == IsFiniteSet(Area) /\ Cardinality(Area) = NArenas
<1>1. 0 \in Int /\ NArenas - 1 \in Int /\ ~ 0 > NArenas - 1
  BY DelegationAssumption
<1>2. IsFiniteSet(Area) /\ Cardinality(Area) = (NArenas - 1) - 0 + 1
  BY <1>1, FS_Interval DEF Area
<1> QED
  BY <1>2, DelegationAssumption

\* So there are finitely many free ones, and no more than NArenas.
LEMMA FreeFinite ==
  LET F == {a \in Area : is_free[a]} IN
  IsFiniteSet(F) /\ Cardinality(F) \in 0 .. NArenas
<1> DEFINE F == {a \in Area : is_free[a]}
<1>1. F \in SUBSET Area
  OBVIOUS
<1>2. IsFiniteSet(F) /\ Cardinality(F) <= NArenas
  BY <1>1, AreasFinite, FS_Subset
<1>3. Cardinality(F) \in Nat
  BY <1>2, FS_CardinalityType
<1> QED
  BY <1>2, <1>3, DelegationAssumption

\* What the answers to a request add up to.
LEMMA Codes ==
  /\ Silent \o <<2>> = Promised /\ Silent \o <<3>> = Denied
  /\ Silent \o <<2, 7>> = Granted /\ Promised \o <<7>> = Granted
<1> USE DEF Silent, Promised, Denied, Granted
<1>1. <<>> \o <<2>> = <<2>>
  OBVIOUS
<1>2. <<>> \o <<3>> = <<3>>
  OBVIOUS
<1>3. <<>> \o <<2, 7>> = <<2, 7>>
  OBVIOUS
<1>4. <<2>> \o <<7>> = <<2, 7>>
  <2> DEFINE s == <<2>>  t == <<7>>
  <2>1. s \in Seq(Nat) /\ t \in Seq(Nat) /\ <<2, 7>> \in Seq(Nat)
    OBVIOUS
  <2>2. Len(s) = 1 /\ Len(t) = 1 /\ s[1] = 2 /\ t[1] = 7
    OBVIOUS
  <2> HIDE DEF s, t
  <2>3. /\ s \o t \in Seq(Nat) /\ Len(s \o t) = 2
        /\ (s \o t)[1] = 2 /\ (s \o t)[2] = 7
    <3>1. /\ s \o t \in Seq(Nat) /\ Len(s \o t) = Len(s) + Len(t)
          /\ \A i \in 1 .. Len(s) + Len(t) :
                (s \o t)[i] = IF i <= Len(s) THEN s[i] ELSE t[i - Len(s)]
      BY <2>1, ConcatProperties
    <3> QED
      BY <2>2, <3>1
  <2>4. s \o t = <<2, 7>>
    <3> DEFINE r == <<2, 7>>
    <3>1. r \in Seq(Nat) /\ Len(r) = 2 /\ r[1] = 2 /\ r[2] = 7
      OBVIOUS
    <3> HIDE DEF r
    <3>2. \A i \in 1 .. Len(s \o t) : (s \o t)[i] = r[i]
      BY <2>3, <3>1, SMTT(30)
    <3>3. s \o t = r
      BY <2>3, <3>1, <3>2, SeqEqual
    <3> QED
      BY <3>3 DEF r
  <2> QED
    BY <2>4 DEF s, t
<1> QED
  BY <1>1, <1>2, <1>3, <1>4

\* They can be told apart.
LEMMA CodesDiffer ==
  /\ Silent # Promised /\ Silent # Denied /\ Silent # Granted
  /\ Promised # Denied /\ Promised # Granted /\ Denied # Granted
<1>1. Len(Silent) = 0 /\ Len(Promised) = 1 /\ Len(Denied) = 1 /\ Len(Granted) = 2
  BY DEF Silent, Promised, Denied, Granted
<1>2. Promised[1] = 2 /\ Denied[1] = 3
  BY DEF Promised, Denied
<1> QED
  BY <1>1, <1>2

\* Every action keeps the types.
LEMMA TypesStep == Types /\ Areas /\ Workers /\ Choice /\ [Next]_vars => Types'
<1> SUFFICES ASSUME Types /\ Areas /\ Workers /\ Choice, [Next]_vars PROVE Types'
  OBVIOUS
<1> USE DelegationAssumption DEF Area, Others, worker0, workers, areas, network, To0, NextArea, NoChoice, Reply, FirstFree
<1>1. ASSUME NEW p \in Others, StartCopy(p) PROVE Types'
  BY <1>1 DEF StartCopy, Types, Areas, Choice
<1>2. ASSUME NEW p \in Others, EndCopy(p) PROVE Types'
  BY <1>2 DEF EndCopy, Types, Areas, Choice
<1>3. ASSUME NEW p \in Others, Copied(p) PROVE Types'
  <2>1. messages' \in [Area -> 0 .. 3]
    BY <1>3 DEF Copied, Types, Workers, Has
  <2> QED
    BY <1>3, <2>1 DEF Copied, Types, Workers, Has
<1>4. ASSUME NEW p \in Others, TooLittle(p) PROVE Types'
  BY <1>4 DEF TooLittle, Types, Areas, Choice
<1>5. ASSUME NEW p \in Others, Refused(p) PROVE Types'
  <2>1. messages' \in [Area -> 0 .. 3]
    BY <1>5 DEF Refused, Types, Workers, Has
  <2> QED
    BY <1>5, <2>1 DEF Refused, Types, Workers, Has
<1>6. ASSUME NEW p \in Others, PutIdle(p) PROVE Types'
  BY <1>6 DEF PutIdle, Types, Areas, Choice
<1>7. ASSUME NEW p \in Others, NothingDelegated(p) PROVE Types'
  BY <1>7 DEF NothingDelegated, Types, Areas, Choice
<1>8. ASSUME NEW p \in Others, PutBusy(p) PROVE Types'
  BY <1>8 DEF PutBusy, Types, Areas, Choice
<1>9. ASSUME NEW q \in Team, Request(q) PROVE Types'
  BY <1>9 DEF Request, Types, Areas, Choice
<1>10. ASSUME NEW q \in Team, Receive(q) PROVE Types'
  BY <1>10 DEF Receive, Types, Areas, Choice
<1>11. ASSUME NEW q \in Team, Reject(q) PROVE Types'
  BY <1>11 DEF Reject, Types, Areas, Choice
<1>12. ASSUME NEW q \in Team, Promise(q) PROVE Types'
  BY <1>12 DEF Promise, Types, Areas, Choice
<1>13. ASSUME NEW q \in Team, ChooseWorker(q) PROVE Types'
  BY <1>13 DEF ChooseWorker, Types, Areas, Choice
<1>14. ASSUME NEW q \in Team, GetRequest(q) PROVE Types'
  BY <1>14 DEF GetRequest, Types, Areas, Choice
<1>15. ASSUME CheckMessages PROVE Types'
  BY <1>15 DEF CheckMessages, Types, Areas, Choice
<1>16. ASSUME LookPast PROVE Types'
  BY <1>16 DEF LookPast, Types, Areas, Choice
<1>17. ASSUME LookCopying PROVE Types'
  BY <1>17 DEF LookCopying, Types, Areas, Choice
<1>18. ASSUME LookCopied PROVE Types'
  BY <1>18 DEF LookCopied, Types, Areas, Choice, FreeArea
<1>19. ASSUME LookRefused PROVE Types'
  BY <1>19 DEF LookRefused, Types, Areas, Choice, FreeArea
<1>20. ASSUME NoMessage PROVE Types'
  BY <1>20 DEF NoMessage, Types, Areas, Choice
<1>21. ASSUME SendOwn PROVE Types'
  BY <1>21 DEF SendOwn, Types, Areas, Choice
<1>22. ASSUME Delegate PROVE Types'
  BY <1>22 DEF Delegate, Types, Areas, Choice
<1>23. ASSUME DoNotDelegate PROVE Types'
  BY <1>23 DEF DoNotDelegate, Types, Areas, Choice
<1>24. ASSUME Install PROVE Types'
  BY <1>24 DEF Install, Types, Areas, Choice
<1>25. ASSUME PutIdle0 PROVE Types'
  BY <1>25 DEF PutIdle0, Types, Areas, Choice
<1>26. ASSUME PutBusy0 PROVE Types'
  BY <1>26 DEF PutBusy0, Types, Areas, Choice
<1>27. ASSUME GetWork PROVE Types'
  BY <1>27 DEF GetWork, Types, Areas, Choice
<1>28. ASSUME GetAccepted PROVE Types'
  BY <1>28 DEF GetAccepted, Types, Areas, Choice
<1>29. CASE UNCHANGED vars
  BY <1>29 DEF vars, Types, Areas, Choice
<1> QED
  BY <1>1, <1>2, <1>3, <1>4, <1>5, <1>6, <1>7, <1>8, <1>9, <1>10, <1>11, <1>12, <1>13, <1>14, <1>15, <1>16, <1>17, <1>18, <1>19, <1>20, <1>21, <1>22, <1>23, <1>24, <1>25, <1>26, <1>27, <1>28, <1>29
     DEF Next, Work, CheckDelegateShare, Scan, ReadRequest, Answer0

\* The count of free areas follows them.
LEMMA CountStep == Types /\ FreeAreasCounted /\ Choice /\ [Next]_vars => FreeAreasCounted'
<1> SUFFICES ASSUME Types /\ FreeAreasCounted /\ Choice, [Next]_vars PROVE FreeAreasCounted'
  OBVIOUS
<1> USE DelegationAssumption DEF Area, Others, worker0, workers, areas, network, To0, NextArea, NoChoice, Reply, FirstFree
<1>1. ASSUME NEW p \in Others, StartCopy(p) PROVE FreeAreasCounted'
  BY <1>1 DEF StartCopy, Types, FreeAreasCounted, Choice
<1>2. ASSUME NEW p \in Others, EndCopy(p) PROVE FreeAreasCounted'
  BY <1>2 DEF EndCopy, Types, FreeAreasCounted, Choice
<1>3. ASSUME NEW p \in Others, Copied(p) PROVE FreeAreasCounted'
  BY <1>3 DEF Copied, Types, FreeAreasCounted, Choice
<1>4. ASSUME NEW p \in Others, TooLittle(p) PROVE FreeAreasCounted'
  BY <1>4 DEF TooLittle, Types, FreeAreasCounted, Choice
<1>5. ASSUME NEW p \in Others, Refused(p) PROVE FreeAreasCounted'
  BY <1>5 DEF Refused, Types, FreeAreasCounted, Choice
<1>6. ASSUME NEW p \in Others, PutIdle(p) PROVE FreeAreasCounted'
  BY <1>6 DEF PutIdle, Types, FreeAreasCounted, Choice
<1>7. ASSUME NEW p \in Others, NothingDelegated(p) PROVE FreeAreasCounted'
  BY <1>7 DEF NothingDelegated, Types, FreeAreasCounted, Choice
<1>8. ASSUME NEW p \in Others, PutBusy(p) PROVE FreeAreasCounted'
  BY <1>8 DEF PutBusy, Types, FreeAreasCounted, Choice
<1>9. ASSUME NEW q \in Team, Request(q) PROVE FreeAreasCounted'
  BY <1>9 DEF Request, Types, FreeAreasCounted, Choice
<1>10. ASSUME NEW q \in Team, Receive(q) PROVE FreeAreasCounted'
  BY <1>10 DEF Receive, Types, FreeAreasCounted, Choice
<1>11. ASSUME NEW q \in Team, Reject(q) PROVE FreeAreasCounted'
  BY <1>11 DEF Reject, Types, FreeAreasCounted, Choice
<1>12. ASSUME NEW q \in Team, Promise(q) PROVE FreeAreasCounted'
  BY <1>12 DEF Promise, Types, FreeAreasCounted, Choice
<1>13. ASSUME NEW q \in Team, ChooseWorker(q) PROVE FreeAreasCounted'
  BY <1>13 DEF ChooseWorker, Types, FreeAreasCounted, Choice
<1>14. ASSUME NEW q \in Team, GetRequest(q) PROVE FreeAreasCounted'
  BY <1>14 DEF GetRequest, Types, FreeAreasCounted, Choice
<1>15. ASSUME CheckMessages PROVE FreeAreasCounted'
  BY <1>15 DEF CheckMessages, Types, FreeAreasCounted, Choice
<1>16. ASSUME LookPast PROVE FreeAreasCounted'
  BY <1>16 DEF LookPast, Types, FreeAreasCounted, Choice
<1>17. ASSUME LookCopying PROVE FreeAreasCounted'
  BY <1>17 DEF LookCopying, Types, FreeAreasCounted, Choice
<1>18. ASSUME LookCopied PROVE FreeAreasCounted'
  <2> DEFINE F == {a \in Area : is_free[a]}
  <2>1. n_free' = n_free + 1 /\ at \in Area /\ at \notin F
    BY <1>18 DEF LookCopied, Types, FreeArea
  <2>2. {a \in Area : is_free'[a]} = F \cup {at}
    BY <1>18, <2>1 DEF LookCopied, Types, FreeArea
  <2>3. IsFiniteSet(F) /\ Cardinality(F \cup {at}) = Cardinality(F) + 1
    BY <2>1, FreeFinite, FS_AddElement
  <2> QED
    BY <2>1, <2>2, <2>3 DEF FreeAreasCounted, Types
<1>19. ASSUME LookRefused PROVE FreeAreasCounted'
  <2> DEFINE F == {a \in Area : is_free[a]}
  <2>1. n_free' = n_free + 1 /\ at \in Area /\ at \notin F
    BY <1>19 DEF LookRefused, Types, FreeArea
  <2>2. {a \in Area : is_free'[a]} = F \cup {at}
    BY <1>19, <2>1 DEF LookRefused, Types, FreeArea
  <2>3. IsFiniteSet(F) /\ Cardinality(F \cup {at}) = Cardinality(F) + 1
    BY <2>1, FreeFinite, FS_AddElement
  <2> QED
    BY <2>1, <2>2, <2>3 DEF FreeAreasCounted, Types
<1>20. ASSUME NoMessage PROVE FreeAreasCounted'
  BY <1>20 DEF NoMessage, Types, FreeAreasCounted, Choice
<1>21. ASSUME SendOwn PROVE FreeAreasCounted'
  BY <1>21 DEF SendOwn, Types, FreeAreasCounted, Choice
<1>22. ASSUME Delegate PROVE FreeAreasCounted'
  <2> DEFINE F == {a \in Area : is_free[a]}
  <2>1. n_free' = n_free - 1 /\ chosen.area \in F
    BY <1>22 DEF Delegate, Types, Choice
  <2>2. {a \in Area : is_free'[a]} = F \ {chosen.area}
    BY <1>22, <2>1 DEF Delegate, Types
  <2>3. Cardinality(F \ {chosen.area}) = Cardinality(F) - 1
    <3>1. IsFiniteSet(F)
      BY FreeFinite
    <3>2. Cardinality(F \ {chosen.area}) = IF chosen.area \in F THEN Cardinality(F) - 1 ELSE Cardinality(F)
      BY <3>1, FS_RemoveElement
    <3> QED
      BY <2>1, <3>2
  <2> QED
    BY <2>1, <2>2, <2>3 DEF FreeAreasCounted, Types
<1>23. ASSUME DoNotDelegate PROVE FreeAreasCounted'
  BY <1>23 DEF DoNotDelegate, Types, FreeAreasCounted, Choice
<1>24. ASSUME Install PROVE FreeAreasCounted'
  BY <1>24 DEF Install, Types, FreeAreasCounted, Choice
<1>25. ASSUME PutIdle0 PROVE FreeAreasCounted'
  BY <1>25 DEF PutIdle0, Types, FreeAreasCounted, Choice
<1>26. ASSUME PutBusy0 PROVE FreeAreasCounted'
  BY <1>26 DEF PutBusy0, Types, FreeAreasCounted, Choice
<1>27. ASSUME GetWork PROVE FreeAreasCounted'
  BY <1>27 DEF GetWork, Types, FreeAreasCounted, Choice
<1>28. ASSUME GetAccepted PROVE FreeAreasCounted'
  BY <1>28 DEF GetAccepted, Types, FreeAreasCounted, Choice
<1>29. CASE UNCHANGED vars
  BY <1>29 DEF vars, Types, FreeAreasCounted, Choice
<1> QED
  BY <1>1, <1>2, <1>3, <1>4, <1>5, <1>6, <1>7, <1>8, <1>9, <1>10, <1>11, <1>12, <1>13, <1>14, <1>15, <1>16, <1>17, <1>18, <1>19, <1>20, <1>21, <1>22, <1>23, <1>24, <1>25, <1>26, <1>27, <1>28, <1>29
     DEF Next, Work, CheckDelegateShare, Scan, ReadRequest, Answer0

\* What is known of the areas that are taken is kept.
LEMMA AreasStep == Types /\ Areas /\ Workers /\ Choice /\ [Next]_vars => Areas'
<1> SUFFICES ASSUME Types /\ Areas /\ Workers /\ Choice, [Next]_vars PROVE Areas'
  OBVIOUS
<1> USE DelegationAssumption DEF Area, Others, worker0, workers, areas, network, To0, NextArea, NoChoice, Reply, FirstFree
<1>1. ASSUME NEW p \in Others, StartCopy(p) PROVE Areas'
  BY <1>1 DEF StartCopy, Types, Areas, Workers, Choice, Has, Holds
<1>2. ASSUME NEW p \in Others, EndCopy(p) PROVE Areas'
  BY <1>2 DEF EndCopy, Types, Areas, Workers, Choice, Has, Holds
<1>3. ASSUME NEW p \in Others, Copied(p) PROVE Areas'
  BY <1>3 DEF Copied, Types, Areas, Workers, Choice, Has, Holds
<1>4. ASSUME NEW p \in Others, TooLittle(p) PROVE Areas'
  BY <1>4 DEF TooLittle, Types, Areas, Workers, Choice, Has, Holds
<1>5. ASSUME NEW p \in Others, Refused(p) PROVE Areas'
  BY <1>5, SMTT(30) DEF Refused, Types, Areas, Workers, Choice, Has, Holds
<1>6. ASSUME NEW p \in Others, PutIdle(p) PROVE Areas'
  BY <1>6 DEF PutIdle, Types, Areas, Workers, Choice, Has, Holds
<1>7. ASSUME NEW p \in Others, NothingDelegated(p) PROVE Areas'
  BY <1>7 DEF NothingDelegated, Types, Areas, Workers, Choice, Has, Holds
<1>8. ASSUME NEW p \in Others, PutBusy(p) PROVE Areas'
  BY <1>8 DEF PutBusy, Types, Areas, Workers, Choice, Has, Holds
<1>9. ASSUME NEW q \in Team, Request(q) PROVE Areas'
  BY <1>9 DEF Request, Types, Areas, Workers, Choice, Has, Holds
<1>10. ASSUME NEW q \in Team, Receive(q) PROVE Areas'
  BY <1>10 DEF Receive, Types, Areas, Workers, Choice, Has, Holds
<1>11. ASSUME NEW q \in Team, Reject(q) PROVE Areas'
  BY <1>11 DEF Reject, Types, Areas, Workers, Choice, Has, Holds
<1>12. ASSUME NEW q \in Team, Promise(q) PROVE Areas'
  BY <1>12 DEF Promise, Types, Areas, Workers, Choice, Has, Holds
<1>13. ASSUME NEW q \in Team, ChooseWorker(q) PROVE Areas'
  BY <1>13 DEF ChooseWorker, Types, Areas, Workers, Choice, Has, Holds
<1>14. ASSUME NEW q \in Team, GetRequest(q) PROVE Areas'
  BY <1>14 DEF GetRequest, Types, Areas, Workers, Choice, Has, Holds
<1>15. ASSUME CheckMessages PROVE Areas'
  BY <1>15 DEF CheckMessages, Types, Areas, Workers, Choice, Has, Holds
<1>16. ASSUME LookPast PROVE Areas'
  BY <1>16 DEF LookPast, Types, Areas, Workers, Choice, Has, Holds
<1>17. ASSUME LookCopying PROVE Areas'
  BY <1>17 DEF LookCopying, Types, Areas, Workers, Choice, Has, Holds
<1>18. ASSUME LookCopied PROVE Areas'
  BY <1>18 DEF LookCopied, Types, Areas, Workers, Choice, Has, Holds, FreeArea
<1>19. ASSUME LookRefused PROVE Areas'
  BY <1>19 DEF LookRefused, Types, Areas, Workers, Choice, Has, Holds, FreeArea
<1>20. ASSUME NoMessage PROVE Areas'
  BY <1>20 DEF NoMessage, Types, Areas, Workers, Choice, Has, Holds
<1>21. ASSUME SendOwn PROVE Areas'
  BY <1>21 DEF SendOwn, Types, Areas, Workers, Choice, Has, Holds
<1>22. ASSUME Delegate PROVE Areas'
  BY <1>22 DEF Delegate, Types, Areas, Workers, Choice, Has, Holds
<1>23. ASSUME DoNotDelegate PROVE Areas'
  BY <1>23 DEF DoNotDelegate, Types, Areas, Workers, Choice, Has, Holds
<1>24. ASSUME Install PROVE Areas'
  BY <1>24 DEF Install, Types, Areas, Workers, Choice, Has, Holds
<1>25. ASSUME PutIdle0 PROVE Areas'
  BY <1>25 DEF PutIdle0, Types, Areas, Workers, Choice, Has, Holds
<1>26. ASSUME PutBusy0 PROVE Areas'
  BY <1>26 DEF PutBusy0, Types, Areas, Workers, Choice, Has, Holds
<1>27. ASSUME GetWork PROVE Areas'
  BY <1>27 DEF GetWork, Types, Areas, Workers, Choice, Has, Holds
<1>28. ASSUME GetAccepted PROVE Areas'
  BY <1>28 DEF GetAccepted, Types, Areas, Workers, Choice, Has, Holds
<1>29. CASE UNCHANGED vars
  BY <1>29 DEF vars, Types, Areas, Workers, Choice, Has, Holds
<1> QED
  BY <1>1, <1>2, <1>3, <1>4, <1>5, <1>6, <1>7, <1>8, <1>9, <1>10, <1>11, <1>12, <1>13, <1>14, <1>15, <1>16, <1>17, <1>18, <1>19, <1>20, <1>21, <1>22, <1>23, <1>24, <1>25, <1>26, <1>27, <1>28, <1>29
     DEF Next, Work, CheckDelegateShare, Scan, ReadRequest, Answer0

\* What a worker has to answer is kept.
LEMMA WorkersStep == Types /\ Areas /\ Workers /\ Choice /\ [Next]_vars => Workers'
<1> SUFFICES ASSUME Types /\ Areas /\ Workers /\ Choice, [Next]_vars PROVE Workers'
  OBVIOUS
<1> USE DelegationAssumption DEF Area, Others, worker0, workers, areas, network, To0, NextArea, NoChoice, Reply, FirstFree
<1>1. ASSUME NEW p \in Others, StartCopy(p) PROVE Workers'
  BY <1>1 DEF StartCopy, Types, Areas, Workers, Choice, Has, Holds
<1>2. ASSUME NEW p \in Others, EndCopy(p) PROVE Workers'
  BY <1>2 DEF EndCopy, Types, Areas, Workers, Choice, Has, Holds
<1>3. ASSUME NEW p \in Others, Copied(p) PROVE Workers'
  BY <1>3 DEF Copied, Types, Areas, Workers, Choice, Has, Holds
<1>4. ASSUME NEW p \in Others, TooLittle(p) PROVE Workers'
  BY <1>4 DEF TooLittle, Types, Areas, Workers, Choice, Has, Holds
<1>5. ASSUME NEW p \in Others, Refused(p) PROVE Workers'
  BY <1>5 DEF Refused, Types, Areas, Workers, Choice, Has, Holds
<1>6. ASSUME NEW p \in Others, PutIdle(p) PROVE Workers'
  BY <1>6 DEF PutIdle, Types, Areas, Workers, Choice, Has, Holds
<1>7. ASSUME NEW p \in Others, NothingDelegated(p) PROVE Workers'
  BY <1>7 DEF NothingDelegated, Types, Areas, Workers, Choice, Has, Holds
<1>8. ASSUME NEW p \in Others, PutBusy(p) PROVE Workers'
  BY <1>8 DEF PutBusy, Types, Areas, Workers, Choice, Has, Holds
<1>9. ASSUME NEW q \in Team, Request(q) PROVE Workers'
  BY <1>9 DEF Request, Types, Areas, Workers, Choice, Has, Holds
<1>10. ASSUME NEW q \in Team, Receive(q) PROVE Workers'
  BY <1>10 DEF Receive, Types, Areas, Workers, Choice, Has, Holds
<1>11. ASSUME NEW q \in Team, Reject(q) PROVE Workers'
  BY <1>11 DEF Reject, Types, Areas, Workers, Choice, Has, Holds
<1>12. ASSUME NEW q \in Team, Promise(q) PROVE Workers'
  BY <1>12 DEF Promise, Types, Areas, Workers, Choice, Has, Holds
<1>13. ASSUME NEW q \in Team, ChooseWorker(q) PROVE Workers'
  BY <1>13 DEF ChooseWorker, Types, Areas, Workers, Choice, Has, Holds
<1>14. ASSUME NEW q \in Team, GetRequest(q) PROVE Workers'
  BY <1>14 DEF GetRequest, Types, Areas, Workers, Choice, Has, Holds
<1>15. ASSUME CheckMessages PROVE Workers'
  BY <1>15 DEF CheckMessages, Types, Areas, Workers, Choice, Has, Holds
<1>16. ASSUME LookPast PROVE Workers'
  BY <1>16 DEF LookPast, Types, Areas, Workers, Choice, Has, Holds
<1>17. ASSUME LookCopying PROVE Workers'
  BY <1>17 DEF LookCopying, Types, Areas, Workers, Choice, Has, Holds
<1>18. ASSUME LookCopied PROVE Workers'
  BY <1>18 DEF LookCopied, Types, Areas, Workers, Choice, Has, Holds, FreeArea
<1>19. ASSUME LookRefused PROVE Workers'
  BY <1>19 DEF LookRefused, Types, Areas, Workers, Choice, Has, Holds, FreeArea
<1>20. ASSUME NoMessage PROVE Workers'
  BY <1>20 DEF NoMessage, Types, Areas, Workers, Choice, Has, Holds
<1>21. ASSUME SendOwn PROVE Workers'
  BY <1>21 DEF SendOwn, Types, Areas, Workers, Choice, Has, Holds
<1>22. ASSUME Delegate PROVE Workers'
  BY <1>22 DEF Delegate, Types, Areas, Workers, Choice, Has, Holds
<1>23. ASSUME DoNotDelegate PROVE Workers'
  BY <1>23 DEF DoNotDelegate, Types, Areas, Workers, Choice, Has, Holds
<1>24. ASSUME Install PROVE Workers'
  BY <1>24 DEF Install, Types, Areas, Workers, Choice, Has, Holds
<1>25. ASSUME PutIdle0 PROVE Workers'
  BY <1>25 DEF PutIdle0, Types, Areas, Workers, Choice, Has, Holds
<1>26. ASSUME PutBusy0 PROVE Workers'
  BY <1>26 DEF PutBusy0, Types, Areas, Workers, Choice, Has, Holds
<1>27. ASSUME GetWork PROVE Workers'
  BY <1>27 DEF GetWork, Types, Areas, Workers, Choice, Has, Holds
<1>28. ASSUME GetAccepted PROVE Workers'
  BY <1>28 DEF GetAccepted, Types, Areas, Workers, Choice, Has, Holds
<1>29. CASE UNCHANGED vars
  BY <1>29 DEF vars, Types, Areas, Workers, Choice, Has, Holds
<1> QED
  BY <1>1, <1>2, <1>3, <1>4, <1>5, <1>6, <1>7, <1>8, <1>9, <1>10, <1>11, <1>12, <1>13, <1>14, <1>15, <1>16, <1>17, <1>18, <1>19, <1>20, <1>21, <1>22, <1>23, <1>24, <1>25, <1>26, <1>27, <1>28, <1>29
     DEF Next, Work, CheckDelegateShare, Scan, ReadRequest, Answer0

\* The choice of worker 0 stays right until it acts on it.
LEMMA ChoiceStep == Types /\ Choice /\ [Next]_vars => Choice'
<1> SUFFICES ASSUME Types /\ Choice, [Next]_vars PROVE Choice'
  OBVIOUS
<1> USE DelegationAssumption DEF Area, Others, worker0, workers, areas, network, To0, NextArea, NoChoice, Reply, FirstFree
<1>1. ASSUME NEW p \in Others, StartCopy(p) PROVE Choice'
  BY <1>1 DEF StartCopy, Types, Choice
<1>2. ASSUME NEW p \in Others, EndCopy(p) PROVE Choice'
  BY <1>2 DEF EndCopy, Types, Choice
<1>3. ASSUME NEW p \in Others, Copied(p) PROVE Choice'
  BY <1>3 DEF Copied, Types, Choice
<1>4. ASSUME NEW p \in Others, TooLittle(p) PROVE Choice'
  BY <1>4 DEF TooLittle, Types, Choice
<1>5. ASSUME NEW p \in Others, Refused(p) PROVE Choice'
  BY <1>5 DEF Refused, Types, Choice
<1>6. ASSUME NEW p \in Others, PutIdle(p) PROVE Choice'
  BY <1>6 DEF PutIdle, Types, Choice
<1>7. ASSUME NEW p \in Others, NothingDelegated(p) PROVE Choice'
  BY <1>7 DEF NothingDelegated, Types, Choice
<1>8. ASSUME NEW p \in Others, PutBusy(p) PROVE Choice'
  BY <1>8 DEF PutBusy, Types, Choice
<1>9. ASSUME NEW q \in Team, Request(q) PROVE Choice'
  BY <1>9 DEF Request, Types, Choice
<1>10. ASSUME NEW q \in Team, Receive(q) PROVE Choice'
  BY <1>10 DEF Receive, Types, Choice
<1>11. ASSUME NEW q \in Team, Reject(q) PROVE Choice'
  BY <1>11 DEF Reject, Types, Choice
<1>12. ASSUME NEW q \in Team, Promise(q) PROVE Choice'
  BY <1>12 DEF Promise, Types, Choice
<1>13. ASSUME NEW q \in Team, ChooseWorker(q) PROVE Choice'
  BY <1>13 DEF ChooseWorker, Types, Choice
<1>14. ASSUME NEW q \in Team, GetRequest(q) PROVE Choice'
  BY <1>14 DEF GetRequest, Types, Choice
<1>15. ASSUME CheckMessages PROVE Choice'
  BY <1>15 DEF CheckMessages, Types, Choice
<1>16. ASSUME LookPast PROVE Choice'
  BY <1>16 DEF LookPast, Types, Choice
<1>17. ASSUME LookCopying PROVE Choice'
  BY <1>17 DEF LookCopying, Types, Choice
<1>18. ASSUME LookCopied PROVE Choice'
  BY <1>18 DEF LookCopied, Types, Choice, FreeArea
<1>19. ASSUME LookRefused PROVE Choice'
  BY <1>19 DEF LookRefused, Types, Choice, FreeArea
<1>20. ASSUME NoMessage PROVE Choice'
  BY <1>20 DEF NoMessage, Types, Choice
<1>21. ASSUME SendOwn PROVE Choice'
  BY <1>21 DEF SendOwn, Types, Choice
<1>22. ASSUME Delegate PROVE Choice'
  BY <1>22 DEF Delegate, Types, Choice
<1>23. ASSUME DoNotDelegate PROVE Choice'
  BY <1>23 DEF DoNotDelegate, Types, Choice
<1>24. ASSUME Install PROVE Choice'
  BY <1>24 DEF Install, Types, Choice
<1>25. ASSUME PutIdle0 PROVE Choice'
  BY <1>25 DEF PutIdle0, Types, Choice
<1>26. ASSUME PutBusy0 PROVE Choice'
  BY <1>26 DEF PutBusy0, Types, Choice
<1>27. ASSUME GetWork PROVE Choice'
  BY <1>27 DEF GetWork, Types, Choice
<1>28. ASSUME GetAccepted PROVE Choice'
  BY <1>28 DEF GetAccepted, Types, Choice
<1>29. CASE UNCHANGED vars
  BY <1>29 DEF vars, Types, Choice
<1> QED
  BY <1>1, <1>2, <1>3, <1>4, <1>5, <1>6, <1>7, <1>8, <1>9, <1>10, <1>11, <1>12, <1>13, <1>14, <1>15, <1>16, <1>17, <1>18, <1>19, <1>20, <1>21, <1>22, <1>23, <1>24, <1>25, <1>26, <1>27, <1>28, <1>29
     DEF Next, Work, CheckDelegateShare, Scan, ReadRequest, Answer0

\* All areas stay free while worker 0 looks for work elsewhere.
LEMMA GettingStep == Types /\ Getting /\ [Next]_vars => Getting'
<1> SUFFICES ASSUME Types /\ Getting, [Next]_vars PROVE Getting'
  OBVIOUS
<1> USE DelegationAssumption DEF Area, Others, worker0, workers, areas, network, To0, NextArea, NoChoice, Reply, FirstFree
<1>1. ASSUME NEW p \in Others, StartCopy(p) PROVE Getting'
  BY <1>1 DEF StartCopy, Types, Getting
<1>2. ASSUME NEW p \in Others, EndCopy(p) PROVE Getting'
  BY <1>2 DEF EndCopy, Types, Getting
<1>3. ASSUME NEW p \in Others, Copied(p) PROVE Getting'
  BY <1>3 DEF Copied, Types, Getting
<1>4. ASSUME NEW p \in Others, TooLittle(p) PROVE Getting'
  BY <1>4 DEF TooLittle, Types, Getting
<1>5. ASSUME NEW p \in Others, Refused(p) PROVE Getting'
  BY <1>5 DEF Refused, Types, Getting
<1>6. ASSUME NEW p \in Others, PutIdle(p) PROVE Getting'
  BY <1>6 DEF PutIdle, Types, Getting
<1>7. ASSUME NEW p \in Others, NothingDelegated(p) PROVE Getting'
  BY <1>7 DEF NothingDelegated, Types, Getting
<1>8. ASSUME NEW p \in Others, PutBusy(p) PROVE Getting'
  BY <1>8 DEF PutBusy, Types, Getting
<1>9. ASSUME NEW q \in Team, Request(q) PROVE Getting'
  BY <1>9 DEF Request, Types, Getting
<1>10. ASSUME NEW q \in Team, Receive(q) PROVE Getting'
  BY <1>10 DEF Receive, Types, Getting
<1>11. ASSUME NEW q \in Team, Reject(q) PROVE Getting'
  BY <1>11 DEF Reject, Types, Getting
<1>12. ASSUME NEW q \in Team, Promise(q) PROVE Getting'
  BY <1>12 DEF Promise, Types, Getting
<1>13. ASSUME NEW q \in Team, ChooseWorker(q) PROVE Getting'
  BY <1>13 DEF ChooseWorker, Types, Getting
<1>14. ASSUME NEW q \in Team, GetRequest(q) PROVE Getting'
  BY <1>14 DEF GetRequest, Types, Getting
<1>15. ASSUME CheckMessages PROVE Getting'
  BY <1>15 DEF CheckMessages, Types, Getting
<1>16. ASSUME LookPast PROVE Getting'
  BY <1>16 DEF LookPast, Types, Getting
<1>17. ASSUME LookCopying PROVE Getting'
  BY <1>17 DEF LookCopying, Types, Getting
<1>18. ASSUME LookCopied PROVE Getting'
  BY <1>18 DEF LookCopied, Types, Getting, FreeArea
<1>19. ASSUME LookRefused PROVE Getting'
  BY <1>19 DEF LookRefused, Types, Getting, FreeArea
<1>20. ASSUME NoMessage PROVE Getting'
  BY <1>20 DEF NoMessage, Types, Getting
<1>21. ASSUME SendOwn PROVE Getting'
  BY <1>21 DEF SendOwn, Types, Getting
<1>22. ASSUME Delegate PROVE Getting'
  BY <1>22 DEF Delegate, Types, Getting
<1>23. ASSUME DoNotDelegate PROVE Getting'
  BY <1>23 DEF DoNotDelegate, Types, Getting
<1>24. ASSUME Install PROVE Getting'
  BY <1>24 DEF Install, Types, Getting
<1>25. ASSUME PutIdle0 PROVE Getting'
  BY <1>25 DEF PutIdle0, Types, Getting
<1>26. ASSUME PutBusy0 PROVE Getting'
  BY <1>26 DEF PutBusy0, Types, Getting
<1>27. ASSUME GetWork PROVE Getting'
  BY <1>27 DEF GetWork, Types, Getting
<1>28. ASSUME GetAccepted PROVE Getting'
  BY <1>28 DEF GetAccepted, Types, Getting
<1>29. CASE UNCHANGED vars
  BY <1>29 DEF vars, Types, Getting
<1> QED
  BY <1>1, <1>2, <1>3, <1>4, <1>5, <1>6, <1>7, <1>8, <1>9, <1>10, <1>11, <1>12, <1>13, <1>14, <1>15, <1>16, <1>17, <1>18, <1>19, <1>20, <1>21, <1>22, <1>23, <1>24, <1>25, <1>26, <1>27, <1>28, <1>29
     DEF Next, Work, CheckDelegateShare, Scan, ReadRequest, Answer0

\* Requests stay in one place each, and are answered in order.
LEMMA RequestsStep == Types /\ Areas /\ Choice /\ Requests /\ [Next]_vars => Requests'
<1> SUFFICES ASSUME Types /\ Areas /\ Choice /\ Requests, [Next]_vars PROVE Requests'
  OBVIOUS
<1> USE DelegationAssumption, CodesDiffer DEF Area, Others, worker0, workers, areas, network, To0, NextArea, NoChoice, Reply, FirstFree
<1>1. ASSUME NEW p \in Others, StartCopy(p) PROVE Requests'
  BY <1>1 DEF StartCopy, Types, Areas, Choice, Requests
<1>2. ASSUME NEW p \in Others, EndCopy(p) PROVE Requests'
  BY <1>2 DEF EndCopy, Types, Areas, Choice, Requests
<1>3. ASSUME NEW p \in Others, Copied(p) PROVE Requests'
  BY <1>3 DEF Copied, Types, Areas, Choice, Requests
<1>4. ASSUME NEW p \in Others, TooLittle(p) PROVE Requests'
  BY <1>4 DEF TooLittle, Types, Areas, Choice, Requests
<1>5. ASSUME NEW p \in Others, Refused(p) PROVE Requests'
  BY <1>5 DEF Refused, Types, Areas, Choice, Requests
<1>6. ASSUME NEW p \in Others, PutIdle(p) PROVE Requests'
  BY <1>6 DEF PutIdle, Types, Areas, Choice, Requests
<1>7. ASSUME NEW p \in Others, NothingDelegated(p) PROVE Requests'
  BY <1>7 DEF NothingDelegated, Types, Areas, Choice, Requests
<1>8. ASSUME NEW p \in Others, PutBusy(p) PROVE Requests'
  BY <1>8 DEF PutBusy, Types, Areas, Choice, Requests
<1>9. ASSUME NEW q \in Team, Request(q) PROVE Requests'
  BY <1>9 DEF Request, Types, Areas, Choice, Requests
<1>10. ASSUME NEW q \in Team, Receive(q) PROVE Requests'
  <2>1. replies[q] \in {Denied, Granted} /\ replies' = [replies EXCEPT ![q] = Silent]
    BY <1>10 DEF Receive, Denied, Granted, Silent
  <2> QED
    BY <1>10, <2>1 DEF Receive, Types, Areas, Choice, Requests
<1>11. ASSUME NEW q \in Team, Reject(q) PROVE Requests'
  <2>1. replies' = [replies EXCEPT ![q] = Denied]
    BY <1>11, Codes DEF Reject, Choice, Requests, Types, Areas
  <2> QED
    BY <1>11, <2>1 DEF Reject, Types, Areas, Choice, Requests
<1>12. ASSUME NEW q \in Team, Promise(q) PROVE Requests'
  <2>1. replies' = [replies EXCEPT ![q] = Promised]
    BY <1>12, Codes DEF Promise, Choice, Requests, Types, Areas
  <2> QED
    BY <1>12, <2>1 DEF Promise, Types, Areas, Choice, Requests
<1>13. ASSUME NEW q \in Team, ChooseWorker(q) PROVE Requests'
  BY <1>13 DEF ChooseWorker, Types, Areas, Choice, Requests
<1>14. ASSUME NEW q \in Team, GetRequest(q) PROVE Requests'
  <2>1. replies' = [replies EXCEPT ![q] = Denied]
    BY <1>14, Codes DEF GetRequest, Choice, Requests, Types, Areas
  <2> QED
    BY <1>14, <2>1 DEF GetRequest, Types, Areas, Choice, Requests
<1>15. ASSUME CheckMessages PROVE Requests'
  BY <1>15 DEF CheckMessages, Types, Areas, Choice, Requests
<1>16. ASSUME LookPast PROVE Requests'
  BY <1>16 DEF LookPast, Types, Areas, Choice, Requests
<1>17. ASSUME LookCopying PROVE Requests'
  <2>1. CASE msg_ok[at]
    BY <1>17, <2>1 DEF LookCopying, Types, Areas, Choice, Requests
  <2>2. CASE ~ msg_ok[at]
    <3>1. replies' = [replies EXCEPT ![worker_q[at]] = Promised]
      BY <1>17, <2>2, Codes DEF LookCopying, Requests, Types, Areas
    <3> QED
      BY <1>17, <2>2, <3>1 DEF LookCopying, Types, Areas, Choice, Requests
  <2> QED
    BY <2>1, <2>2
<1>18. ASSUME LookCopied PROVE Requests'
  <2>1. replies' = [replies EXCEPT ![worker_q[at]] = Granted]
    BY <1>18, Codes DEF LookCopied, Choice, Requests, Types, Areas
  <2>2. at \in Area /\ ~ is_free[at] /\ worker_q[at] \in Team
    BY <1>18 DEF LookCopied, Types, Areas
  <2>3. zero' \notin {"own", "delegate"}
    BY <1>18 DEF LookCopied, Types
  <2>4. /\ UNCHANGED <<asking, inbox>>
        /\ is_free' = [is_free EXCEPT ![at] = TRUE]
        /\ \A a \in Area \ {at} : worker_q'[a] = worker_q[a] /\ msg_ok'[a] = msg_ok[a]
    BY <1>18 DEF LookCopied, FreeArea, Types
  <2> QED
    BY <2>1, <2>2, <2>3, <2>4 DEF Types, Requests
<1>19. ASSUME LookRefused PROVE Requests'
  <2>1. replies' = [replies EXCEPT ![worker_q[at]] = Denied]
    BY <1>19, Codes DEF LookRefused, Choice, Requests, Types, Areas
  <2> QED
    BY <1>19, <2>1 DEF LookRefused, Types, Areas, Choice, Requests, FreeArea
<1>20. ASSUME NoMessage PROVE Requests'
  BY <1>20 DEF NoMessage, Types, Areas, Choice, Requests
<1>21. ASSUME SendOwn PROVE Requests'
  <2>1. replies' = [replies EXCEPT ![chosen.q] = Granted]
    BY <1>21, Codes DEF SendOwn, Choice, Requests, Types, Areas
  <2> QED
    BY <1>21, <2>1 DEF SendOwn, Types, Areas, Choice, Requests
<1>22. ASSUME Delegate PROVE Requests'
  BY <1>22 DEF Delegate, Types, Areas, Choice, Requests
<1>23. ASSUME DoNotDelegate PROVE Requests'
  <2>1. replies' = [replies EXCEPT ![chosen.q] = Denied]
    BY <1>23, Codes DEF DoNotDelegate, Choice, Requests, Types, Areas
  <2> QED
    BY <1>23, <2>1 DEF DoNotDelegate, Types, Areas, Choice, Requests
<1>24. ASSUME Install PROVE Requests'
  BY <1>24 DEF Install, Types, Areas, Choice, Requests
<1>25. ASSUME PutIdle0 PROVE Requests'
  BY <1>25 DEF PutIdle0, Types, Areas, Choice, Requests
<1>26. ASSUME PutBusy0 PROVE Requests'
  BY <1>26 DEF PutBusy0, Types, Areas, Choice, Requests
<1>27. ASSUME GetWork PROVE Requests'
  BY <1>27 DEF GetWork, Types, Areas, Choice, Requests
<1>28. ASSUME GetAccepted PROVE Requests'
  BY <1>28 DEF GetAccepted, Types, Areas, Choice, Requests
<1>29. CASE UNCHANGED vars
  BY <1>29 DEF vars, Types, Areas, Choice, Requests
<1> QED
  BY <1>1, <1>2, <1>3, <1>4, <1>5, <1>6, <1>7, <1>8, <1>9, <1>10, <1>11, <1>12, <1>13, <1>14, <1>15, <1>16, <1>17, <1>18, <1>19, <1>20, <1>21, <1>22, <1>23, <1>24, <1>25, <1>26, <1>27, <1>28, <1>29
     DEF Next, Work, CheckDelegateShare, Scan, ReadRequest, Answer0

-----------------------------------------------------------------------------
\* The invariant holds at first.
LEMMA InitInvariant == Init => IInv
<1> SUFFICES ASSUME Init PROVE IInv
  OBVIOUS
<1>1. Types
  BY DelegationAssumption DEF Init, Types, Area, Others, NoChoice
<1>2. FreeAreasCounted
  <2>1. {a \in Area : is_free[a]} = Area
    BY DEF Init
  <2> QED
    BY <2>1, AreasFinite DEF Init, FreeAreasCounted
<1>3. Areas
  BY DEF Init, Areas
<1>4. Workers
  BY DEF Init, Workers, Others
<1>5. Choice /\ Getting
  BY DEF Init, Choice, Getting
<1>6. Requests
  BY DEF Init, Requests, Silent
<1> QED
  BY <1>1, <1>2, <1>3, <1>4, <1>5, <1>6 DEF IInv

\* The invariant holds always.
THEOREM Invariant == Spec => []IInv
<1>1. IInv /\ [Next]_vars => IInv'
  BY TypesStep, CountStep, AreasStep, WorkersStep, ChoiceStep, GettingStep, RequestsStep DEF IInv
<1> QED
  BY InitInvariant, <1>1, PTL DEF Spec

\* Of any team and any number of areas the state keeps its types; in
\* particular GLOBAL_mpi_n_free_arenas stays within its bounds.
THEOREM TypeCorrect == Spec => []TypeOK
<1>1. IInv => TypeOK
  <2> SUFFICES ASSUME IInv PROVE TypeOK
    OBVIOUS
  <2>1. n_free \in 0 .. NArenas
    BY FreeFinite DEF IInv, FreeAreasCounted
  <2>2. inbox \subseteq asking
    BY DEF IInv, Requests
  <2>3. replies \in [Team -> Seq({2, 3, 7})]
    <3>1. {Silent, Promised, Denied, Granted} \subseteq Seq({2, 3, 7})
      BY DEF Silent, Promised, Denied, Granted
    <3> QED
      BY <3>1 DEF IInv, Requests
  <2> QED
    BY <2>1, <2>2, <2>3 DEF IInv, Types, TypeOK
<1> QED
  BY Invariant, <1>1, PTL

\* The count by which worker 0 skips the scan of the areas and leaves the
\* wait of mpi_team_get_work is right.
THEOREM CountCorrect == Spec => []FreeAreasCounted
<1>1. IInv => FreeAreasCounted
  BY DEF IInv
<1> QED
  BY Invariant, <1>1, PTL

\* No two workers write into the buffer of one area, and worker 0 only
\* into the buffer of a free one: the first free area stays free until
\* worker 0 has sent its own work, and it receives work into area 0 only
\* when it has counted all areas free.
THEOREM BuffersCorrect == Spec => []BuffersExclusive
<1>1. IInv => BuffersExclusive
  <2> SUFFICES ASSUME IInv, NEW a \in Area, NEW w \in Writers(a)
               PROVE  w = IF is_free[a] THEN Zero ELSE worker_p[a]
    BY DEF BuffersExclusive
  <2> USE DelegationAssumption DEF IInv, Types
  <2>1. CASE w \in Others
    BY <2>1 DEF Writers, Workers, Has, Others
  <2>2. CASE w = Zero /\ zero = "own"
    BY <2>2 DEF Writers, Choice
  <2>3. CASE w = Zero /\ zero = "recv"
    <3>1. a = 0
      BY <2>3 DEF Writers, Getting, Others
    <3>2. {b \in Area : is_free[b]} = Area
      <4>1. Cardinality({b \in Area : is_free[b]}) = Cardinality(Area)
        BY <2>3, FreeFinite, AreasFinite DEF Getting, FreeAreasCounted
      <4> QED
        BY <4>1, AreasFinite, FS_Subset
    <3> QED
      BY <2>3, <3>2
  <2> QED
    BY <2>1, <2>2, <2>3 DEF Writers
<1> QED
  BY Invariant, <1>1, PTL

\* A worker to whom a request has been delegated knows it until it has left
\* its answer, although it may become idle meanwhile: it puts itself among
\* the idle workers first and looks at delegate_share_area once more, and
\* worker 0 delegates only to workers that are not there.
THEOREM NothingForgotten == Spec => []NoneForgotten
<1>1. IInv => NoneForgotten
  BY DEF IInv, Areas, Holds, NoneForgotten, Knows
<1> QED
  BY Invariant, <1>1, PTL

-----------------------------------------------------------------------------
(***************************************************************************)
(* Delegation implements the safety part of RequestService.                *)
(***************************************************************************)

\* The abstract state of a request.
LEMMA StateNow ==
  ASSUME NEW q \in Team
  PROVE  /\ q \notin asking /\ replies[q] = Silent => State(q) = "none"
         /\ q \in asking /\ replies[q] = Silent => State(q) = "asked"
         /\ q \in asking /\ replies[q] = Promised => State(q) = "promised"
         /\ q \in asking /\ replies[q] = Granted => State(q) = "served"
         /\ q \in asking /\ replies[q] = Denied => State(q) = "refused"
<1>1. State(q) = CASE q \notin asking /\ replies[q] = Silent -> "none"
                   [] q \in asking /\ replies[q] = Silent -> "asked"
                   [] q \in asking /\ replies[q] = Promised -> "promised"
                   [] q \in asking /\ replies[q] = Granted -> "served"
                   [] q \in asking /\ replies[q] = Denied -> "refused"
                   [] OTHER -> "wrong"
  BY DEF State, Silent, Promised, Denied, Granted
<1> QED
  BY <1>1, CodesDiffer

\* The same of the state after a step.
LEMMA StateNext ==
  ASSUME NEW q \in Team
  PROVE  /\ q \notin asking' /\ replies'[q] = Silent => State(q)' = "none"
         /\ q \in asking' /\ replies'[q] = Silent => State(q)' = "asked"
         /\ q \in asking' /\ replies'[q] = Promised => State(q)' = "promised"
         /\ q \in asking' /\ replies'[q] = Granted => State(q)' = "served"
         /\ q \in asking' /\ replies'[q] = Denied => State(q)' = "refused"
<1>1. State(q)' = CASE q \notin asking' /\ replies'[q] = Silent -> "none"
                    [] q \in asking' /\ replies'[q] = Silent -> "asked"
                    [] q \in asking' /\ replies'[q] = Promised -> "promised"
                    [] q \in asking' /\ replies'[q] = Granted -> "served"
                    [] q \in asking' /\ replies'[q] = Denied -> "refused"
                    [] OTHER -> "wrong"
  BY DEF State, Silent, Promised, Denied, Granted
<1> QED
  BY <1>1, CodesDiffer

\* A step that concerns one team moves its request only.
LEMMA OneMove ==
  ASSUME NEW q \in Team, NEW s, State(q)' = s,
         \A r \in Team \ {q} : (r \in asking' <=> r \in asking) /\ replies'[r] = replies[r]
  PROVE  Service!To(q, s)
<1>1. \A r \in Team \ {q} : State(r)' = State(r)
  BY DEF State
<1>2. [r \in Team |-> State(r)]' = [[r \in Team |-> State(r)] EXCEPT ![q] = s]
  BY <1>1
<1> QED
  BY <1>2 DEF Service!To

\* Every step answers, asks or ends one request, or none.
LEMMA Refinement == IInv /\ [Next]_vars => [Service!Next]_(Service!vars)
<1> SUFFICES ASSUME IInv, [Next]_vars PROVE [Service!Next]_(Service!vars)
  OBVIOUS
<1>0. ASSUME UNCHANGED <<asking, replies>> PROVE [Service!Next]_(Service!vars)
  <2>1. \A q \in Team : State(q)' = State(q)
    BY <1>0 DEF State
  <2> QED
    BY <2>1 DEF Service!vars
<1>1. ASSUME NEW q \in Team, Request(q) PROVE Service!Next
  <2>1. /\ replies[q] = Silent /\ replies' = replies
        /\ q \notin asking /\ asking' = asking \cup {q}
    BY <1>1 DEF Request, IInv, Requests
  <2>2. State(q) = "none"
    BY <2>1, StateNow
  <2>3. State(q)' = "asked"
    BY <2>1, StateNext
  <2>4. Service!To(q, "asked")
    BY <2>1, <2>3, OneMove
  <2> QED
    BY <2>2, <2>4 DEF Service!Next, Service!Ask
<1>2. ASSUME NEW q \in Team, Receive(q) PROVE Service!Next
  <2>1. /\ replies[q] \in {Denied, Granted}
        /\ replies' = [replies EXCEPT ![q] = Silent]
    BY <1>2 DEF Receive, Silent, Denied, Granted
  <2>2. q \in asking /\ asking' = asking \ {q} /\ replies'[q] = Silent
    BY <1>2, <2>1, CodesDiffer DEF Receive, IInv, Requests
  <2>3. State(q) \in {"refused", "served"}
    BY <2>1, <2>2, StateNow
  <2>4. State(q)' = "none"
    BY <2>2, StateNext
  <2>5. \A r \in Team \ {q} : (r \in asking' <=> r \in asking) /\ replies'[r] = replies[r]
    BY <2>1, <2>2 DEF IInv, Requests
  <2>6. Service!To(q, "none")
    BY <2>4, <2>5, OneMove
  <2> QED
    BY <2>3, <2>6 DEF Service!Next, Service!Receive, State
<1>3. ASSUME NEW q \in Team, Reject(q) PROVE Service!Next
  <2>1. /\ q \in asking /\ asking' = asking
        /\ replies[q] = Silent /\ replies' = [replies EXCEPT ![q] = Denied]
    BY <1>3, Codes DEF Reject, Reply, IInv, Types, Choice, Areas, Requests
  <2>2. State(q) = "asked"
    BY <2>1, StateNow
  <2>3. /\ replies'[q] = Denied
        /\ \A r \in Team \ {q} : (r \in asking' <=> r \in asking) /\ replies'[r] = replies[r]
    BY <2>1 DEF IInv, Requests
  <2>4. State(q)' = "refused"
    BY <2>1, <2>3, StateNext
  <2>5. Service!To(q, "refused")
    BY <2>3, <2>4, OneMove
  <2> QED
    BY <2>2, <2>5 DEF Service!Next, Service!Answer, Service!Refuse
<1>4. ASSUME NEW q \in Team, Promise(q) PROVE Service!Next
  <2>1. /\ q \in asking /\ asking' = asking
        /\ replies[q] = Silent /\ replies' = [replies EXCEPT ![q] = Promised]
    BY <1>4, Codes DEF Promise, Reply, IInv, Types, Choice, Areas, Requests
  <2>2. State(q) = "asked"
    BY <2>1, StateNow
  <2>3. /\ replies'[q] = Promised
        /\ \A r \in Team \ {q} : (r \in asking' <=> r \in asking) /\ replies'[r] = replies[r]
    BY <2>1 DEF IInv, Requests
  <2>4. State(q)' = "promised"
    BY <2>1, <2>3, StateNext
  <2>5. Service!To(q, "promised")
    BY <2>3, <2>4, OneMove
  <2> QED
    BY <2>2, <2>5 DEF Service!Next, Service!Answer, Service!Promise
<1>5. ASSUME NEW q \in Team, GetRequest(q) PROVE Service!Next
  <2>1. /\ q \in asking /\ asking' = asking
        /\ replies[q] = Silent /\ replies' = [replies EXCEPT ![q] = Denied]
    BY <1>5, Codes DEF GetRequest, Reply, IInv, Types, Choice, Areas, Requests
  <2>2. State(q) = "asked"
    BY <2>1, StateNow
  <2>3. /\ replies'[q] = Denied
        /\ \A r \in Team \ {q} : (r \in asking' <=> r \in asking) /\ replies'[r] = replies[r]
    BY <2>1 DEF IInv, Requests
  <2>4. State(q)' = "refused"
    BY <2>1, <2>3, StateNext
  <2>5. Service!To(q, "refused")
    BY <2>3, <2>4, OneMove
  <2> QED
    BY <2>2, <2>5 DEF Service!Next, Service!Answer, Service!Refuse
<1>6. ASSUME SendOwn PROVE Service!Next
  <2>0. PICK q \in Team : q = chosen.q
    BY <1>6 DEF SendOwn, IInv, Types, Choice, Areas
  <2>1. /\ q \in asking /\ asking' = asking
        /\ replies[q] = Promised /\ replies' = [replies EXCEPT ![q] = Granted]
    BY <1>6, <2>0, Codes DEF SendOwn, Reply, IInv, Types, Choice, Areas, Requests
  <2>2. State(q) = "promised"
    BY <2>1, StateNow
  <2>3. /\ replies'[q] = Granted
        /\ \A r \in Team \ {q} : (r \in asking' <=> r \in asking) /\ replies'[r] = replies[r]
    BY <2>1 DEF IInv, Requests
  <2>4. State(q)' = "served"
    BY <2>1, <2>3, StateNext
  <2>5. Service!To(q, "served")
    BY <2>3, <2>4, OneMove
  <2> QED
    BY <2>2, <2>5 DEF Service!Next, Service!Answer, Service!Serve
<1>7. ASSUME DoNotDelegate PROVE Service!Next
  <2>0. PICK q \in Team : q = chosen.q
    BY <1>7 DEF DoNotDelegate, IInv, Types, Choice, Areas
  <2>1. /\ q \in asking /\ asking' = asking
        /\ replies[q] = Silent /\ replies' = [replies EXCEPT ![q] = Denied]
    BY <1>7, <2>0, Codes DEF DoNotDelegate, Reply, IInv, Types, Choice, Areas, Requests
  <2>2. State(q) = "asked"
    BY <2>1, StateNow
  <2>3. /\ replies'[q] = Denied
        /\ \A r \in Team \ {q} : (r \in asking' <=> r \in asking) /\ replies'[r] = replies[r]
    BY <2>1 DEF IInv, Requests
  <2>4. State(q)' = "refused"
    BY <2>1, <2>3, StateNext
  <2>5. Service!To(q, "refused")
    BY <2>3, <2>4, OneMove
  <2> QED
    BY <2>2, <2>5 DEF Service!Next, Service!Answer, Service!Refuse
<1>8. ASSUME LookRefused PROVE Service!Next
  <2>0. PICK q \in Team : q = worker_q[at]
    BY <1>8 DEF LookRefused, IInv, Types, Choice, Areas
  <2>1. /\ q \in asking /\ asking' = asking
        /\ replies[q] = Silent /\ replies' = [replies EXCEPT ![q] = Denied]
    <3>1. ~ msg_ok[at]
      BY <1>8 DEF LookRefused, IInv, Types, Areas
    <3>2. q \in asking /\ replies[q] = Silent
      BY <1>8, <2>0, <3>1 DEF LookRefused, IInv, Types, Requests
    <3>3. asking' = asking /\ replies' = [replies EXCEPT ![q] = replies[q] \o <<3>>]
      BY <1>8, <2>0 DEF LookRefused, Reply
    <3> QED
      BY <3>2, <3>3, Codes
  <2>2. State(q) = "asked"
    BY <2>1, StateNow
  <2>3. /\ replies'[q] = Denied
        /\ \A r \in Team \ {q} : (r \in asking' <=> r \in asking) /\ replies'[r] = replies[r]
    BY <2>1 DEF IInv, Requests
  <2>4. State(q)' = "refused"
    BY <2>1, <2>3, StateNext
  <2>5. Service!To(q, "refused")
    BY <2>3, <2>4, OneMove
  <2> QED
    BY <2>2, <2>5 DEF Service!Next, Service!Answer, Service!Refuse
<1>9. ASSUME LookCopying PROVE [Service!Next]_(Service!vars)
  <2>1. CASE msg_ok[at]
    BY <1>0, <1>9, <2>1 DEF LookCopying, network
  <2>2. CASE ~ msg_ok[at]
    <3>0. PICK q \in Team : q = worker_q[at]
      BY <1>9, <2>2 DEF LookCopying, IInv, Types, Choice, Areas
    <3>1. /\ q \in asking /\ asking' = asking
          /\ replies[q] = Silent /\ replies' = [replies EXCEPT ![q] = Promised]
      BY <1>9, <2>2, <3>0, Codes DEF LookCopying, Reply, IInv, Types, Choice, Areas, Requests
    <3>2. State(q) = "asked"
      BY <3>1, StateNow
    <3>3. /\ replies'[q] = Promised
          /\ \A r \in Team \ {q} : (r \in asking' <=> r \in asking) /\ replies'[r] = replies[r]
      BY <3>1 DEF IInv, Requests
    <3>4. State(q)' = "promised"
      BY <3>1, <3>3, StateNext
    <3>5. Service!To(q, "promised")
      BY <3>3, <3>4, OneMove
    <3> QED
      BY <3>2, <3>5 DEF Service!Next, Service!Answer, Service!Promise
  <2> QED
    BY <2>1, <2>2
<1>10. ASSUME LookCopied PROVE Service!Next
  <2>0. PICK q \in Team : q = worker_q[at]
    BY <1>10 DEF LookCopied, IInv, Types, Choice, Areas
  <2>1. /\ q \in asking /\ asking' = asking
        /\ replies[q] \in {Silent, Promised} /\ replies' = [replies EXCEPT ![q] = Granted]
    BY <1>10, <2>0, Codes DEF LookCopied, Reply, IInv, Types, Choice, Areas, Requests
  <2>2. State(q) \in {"asked", "promised"}
    BY <2>1, StateNow
  <2>3. /\ replies'[q] = Granted
        /\ \A r \in Team \ {q} : (r \in asking' <=> r \in asking) /\ replies'[r] = replies[r]
    BY <2>1 DEF IInv, Requests
  <2>4. State(q)' = "served"
    BY <2>1, <2>3, StateNext
  <2>5. Service!To(q, "served")
    BY <2>3, <2>4, OneMove
  <2> QED
    BY <2>2, <2>5 DEF Service!Next, Service!Answer, Service!Serve
<1>11. ASSUME NEW p \in Others, Work(p) PROVE UNCHANGED <<asking, replies>>
  BY <1>11 DEF Work, CheckDelegateShare, StartCopy, EndCopy, Copied, TooLittle, Refused,
               PutIdle, NothingDelegated, PutBusy, network
<1>12. ASSUME NEW q \in Team, ChooseWorker(q) PROVE UNCHANGED <<asking, replies>>
  BY <1>12 DEF ChooseWorker
<1>13. ASSUME \/ CheckMessages \/ LookPast \/ NoMessage \/ Delegate \/ Install
              \/ PutIdle0 \/ PutBusy0 \/ GetWork \/ GetAccepted
       PROVE  UNCHANGED <<asking, replies>>
  BY <1>13 DEF CheckMessages, LookPast, NoMessage, Delegate, Install, PutIdle0, PutBusy0,
               GetWork, GetAccepted, network
<1>14. ASSUME UNCHANGED vars PROVE UNCHANGED <<asking, replies>>
  BY <1>14 DEF vars, network
<1> QED
  BY <1>0, <1>1, <1>2, <1>3, <1>4, <1>5, <1>6, <1>7, <1>8, <1>9, <1>10, <1>11, <1>12, <1>13,
     <1>14 DEF Next, ReadRequest, Scan, Answer0

\* Every request is answered once: it is refused, or its team is promised
\* work and then gets it, whoever of the team has the work and whatever
\* becomes of that worker meanwhile.  This is the safety part of
\* ServesRequests.
THEOREM AnswersOnce == Spec => Service!Spec
<1>1. Init => Service!Init
  <2> SUFFICES ASSUME Init PROVE Service!Init
    OBVIOUS
  <2>1. \A q \in Team : q \notin asking /\ replies[q] = Silent
    BY DEF Init, Silent
  <2>2. \A q \in Team : State(q) = "none"
    BY <2>1, StateNow
  <2> QED
    BY <2>2 DEF Service!Init
<1> QED
  BY Invariant, Refinement, <1>1, PTL DEF Spec, Service!Spec
=============================================================================
