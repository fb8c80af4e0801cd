-------------------------- MODULE CallbackDelivery --------------------------
(***************************************************************************)
(* What the ingress and the consumers behind it promise for a callback,    *)
(* with no requests, slots, repetitions, moves, late appends or offsets in *)
(* sight: its events become durable in their order; the provider is told   *)
(* of it only when all of them are; and an event has its effect once in a  *)
(* cell, after those it follows there.                                     *)
(***************************************************************************)
EXTENDS Naturals, Sequences

CONSTANTS Events,       \* the events of the callback, in their order
          Cells

VARIABLES kept,         \* cell -> the events durable in it
          effects,      \* cell -> the events that have had their effect in it
          told          \* the provider knows that the callback is durable

vars == <<kept, effects, told>>

Init ==
    /\ kept = [c \in Cells |-> {}]
    /\ effects = [c \in Cells |-> {}]
    /\ told = FALSE

Durable(e) == \E c \in Cells : e \in kept[c]

Keep(c, k) ==
    /\ \A i \in 1..(k - 1) : Durable(Events[i])
    /\ kept' = [kept EXCEPT ![c] = @ \cup {Events[k]}]
    /\ UNCHANGED <<effects, told>>

\* An earlier event of the callback has had its effect, or is another cell's.
Effect(c, k) ==
    /\ Events[k] \in kept[c]
    /\ \A i \in 1..(k - 1) :
          \/ Events[i] \in effects[c]
          \/ \E d \in Cells \ {c} : Events[i] \in kept[d]
    /\ effects' = [effects EXCEPT ![c] = @ \cup {Events[k]}]
    /\ UNCHANGED <<kept, told>>

Acknowledge ==
    /\ \A k \in 1..Len(Events) : Durable(Events[k])
    /\ told' = TRUE
    /\ UNCHANGED <<kept, effects>>

Next ==
    \/ \E c \in Cells, k \in 1..Len(Events) : Keep(c, k) \/ Effect(c, k)
    \/ Acknowledge

Spec == Init /\ [][Next]_vars
=============================================================================
