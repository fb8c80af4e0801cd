----------------------------- MODULE MCWebhooks -----------------------------
(* Instances of Webhooks for TLC. *)
EXTENDS Webhooks, FiniteSets

CONSTANT MaxFaults      \* how many things may be going wrong at a time

MCDelays == [n \in 1..(MaxAttempts - 1) |-> 1]
MCGateway == {[status |-> 429, hint |-> 2], [status |-> 600, hint |-> None]}

Faults ==
    profile + Cardinality({a \in Attempts : withdrawn[a] # None})
    + (IF crashes > 0 \/ late # {} THEN 1 ELSE 0)
    + Cardinality(lateAccepts) + (IF draining THEN 1 ELSE 0)

MCNext == Next /\ Faults' <= MaxFaults

MCSpec == Init /\ [][MCNext]_vars /\ Fairness
=============================================================================
