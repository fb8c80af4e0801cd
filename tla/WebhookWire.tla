----------------------------- MODULE WebhookWire -----------------------------
(***************************************************************************)
(* What the sender and the receiver of a webhook share: the requests on    *)
(* their way and the answers to them. The network may keep either for      *)
(* ever, which is how it loses them.                                       *)
(***************************************************************************)
EXTENDS WebhookPlan

CONSTANTS Deliveries

\* An attempt is known by its delivery, which every retry keeps, and by its
\* sequence number within it.
Attempts == Deliveries \X (1..MaxAttempts)

DeliveryOf(a) == a[1]
Previous(a) == <<a[1], a[2] - 1>>

Answers == [status : Nat, hint : Times]

ASSUME NoAnswerAssumption == None \notin Answers

VARIABLES wire,     \* the attempts whose request is on its way
          answer    \* per attempt, what its endpoint answered, or None

WireInit ==
    /\ wire = {}
    /\ answer = [a \in Attempts |-> None]

WireTypeOK ==
    /\ wire \subseteq Attempts
    /\ answer \in [Attempts -> Answers \cup {None}]
=============================================================================
