--------------------------- MODULE RequestService ---------------------------
(***************************************************************************)
(* What a team promises the others that ask it for work: every request is  *)
(* answered once, by a refusal or by a promise that is followed by the     *)
(* work, and it is answered at last.                                       *)
(***************************************************************************)
CONSTANT Team       \* the other teams
VARIABLE request    \* the state of each team's request

vars == <<request>>

To(q, s) == request' = [request EXCEPT ![q] = s]

Ask(q)     == request[q] = "none" /\ To(q, "asked")
Promise(q) == request[q] = "asked" /\ To(q, "promised")
Serve(q)   == request[q] \in {"asked", "promised"} /\ To(q, "served")
Refuse(q)  == request[q] = "asked" /\ To(q, "refused")
Receive(q) == request[q] \in {"served", "refused"} /\ To(q, "none")

Answer(q) == Promise(q) \/ Serve(q) \/ Refuse(q)

Init == request = [q \in Team |-> "none"]

Next == \E q \in Team : Ask(q) \/ Answer(q) \/ Receive(q)

Spec == Init /\ [][Next]_vars

FairSpec == Spec /\ \A q \in Team : WF_vars(Answer(q))
=============================================================================
