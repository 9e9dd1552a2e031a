------------------------------ MODULE RemoteCall ------------------------------
(***************************************************************************)
(* What a VSOA client promises of its requests: a request that was sent is *)
(* ended once, by the answer to it or by the news that there is none, and  *)
(* a fetch returns only afterwards.  VsoaClient implements it.             *)
(***************************************************************************)
CONSTANT Requests

VARIABLES outcome,   \* of a request: "new", "open", "answered" or "missed"
          returned   \* the fetches that have returned

promised == <<outcome, returned>>

Init == /\ outcome = [q \in Requests |-> "new"]
        /\ returned = {}

Ask(q) == /\ outcome[q] = "new"
          /\ outcome' = [outcome EXCEPT ![q] = "open"]
          /\ UNCHANGED returned

Answer(q) == /\ outcome[q] = "open"
             /\ outcome' = [outcome EXCEPT ![q] = "answered"]
             /\ UNCHANGED returned

\* Requests are given up together when a connection ends.
Miss(S) == /\ \A q \in S : outcome[q] = "open"
           /\ outcome' = [q \in Requests |-> IF q \in S THEN "missed" ELSE outcome[q]]
           /\ UNCHANGED returned

Return(q) == /\ outcome[q] \in {"answered", "missed"} /\ q \notin returned
             /\ returned' = returned \cup {q}
             /\ UNCHANGED outcome

Next == \/ \E q \in Requests : Ask(q) \/ Answer(q) \/ Return(q)
        \/ \E S \in SUBSET Requests : Miss(S)

Spec == Init /\ [][Next]_promised
=============================================================================
