--------------------------- MODULE WebhookOutcome ----------------------------
(***************************************************************************)
(* What sender and receiver promise together: a delivery gets at most one  *)
(* outcome, which never changes, and it is "accepted" only when the        *)
(* receiver has stored the delivery. The converse does not hold: a stored  *)
(* delivery may end unknown, or failed, or without an outcome.             *)
(***************************************************************************)
CONSTANTS Deliveries, Open, Accepted, Outcomes

VARIABLES stored, outcome

Init ==
    /\ stored = {}
    /\ outcome = [d \in Deliveries |-> Open]

Store(d) ==
    /\ stored' = stored \cup {d}
    /\ UNCHANGED outcome

Settle(d) ==
    /\ outcome[d] = Open
    /\ \E o \in Outcomes :
          /\ o = Accepted => d \in stored
          /\ outcome' = [outcome EXCEPT ![d] = o]
    /\ UNCHANGED stored

Next == \E d \in Deliveries : Store(d) \/ Settle(d)

Spec == Init /\ [][Next]_<<stored, outcome>>
=============================================================================
