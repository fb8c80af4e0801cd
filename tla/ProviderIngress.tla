--------------------------- MODULE ProviderIngress ---------------------------
(***************************************************************************)
(* A provider callback from its arrival to its effects.                    *)
(***************************************************************************)
EXTENDS EventDurability

vars == <<ingressVars, durabilityVars>>

Init == IngressInit /\ DurabilityInit

Next ==
    \/ IngressNext /\ UNCHANGED durabilityVars
    \/ DurabilityNext

Spec == Init /\ [][Next]_vars

\* The host calls Consume again until it succeeds, and in the end the offset
\* store does (strong fairness).
Fairness ==
    \A c \in Cells :
        /\ WF_vars(Apply(c)) /\ SF_vars(CommitOffset(c))

FairSpec == Spec /\ Fairness

-----------------------------------------------------------------------------

InJournal(e, c) == \E n \in 1..Len(journal[c]) : journal[c][n] = e

\* The variables stay in their types.
TypeOK ==
    /\ home \in Placements
    /\ stage \in [Requests -> RequestStages]
    /\ slices \in [Requests -> Seq(Slices)]
    /\ appended \in [Requests -> Nat]
    /\ busy \in Nat
    /\ journal \in [Cells -> Seq(EventSet)]
    /\ lateAppends \subseteq Slices
    /\ acknowledged \in BOOLEAN
    /\ offset \in [Cells -> Nat]
    /\ consuming \in [Cells -> ConsumeStages]
    /\ applied \in [Cells -> SUBSET EventSet]

\* A provider that has its 200 will not repeat: by then every event is in the
\* journal of some cell, whatever moved, failed or crashed in between.
AcknowledgedIsDurable ==
    acknowledged => \A e \in EventSet : \E c \in Cells : InJournal(e, c)

\* An event never overtakes an earlier one of its callback, except where the
\* earlier one went to another cell.
EventsInOrder ==
    \A c \in Cells : \A n \in 1..Len(journal[c]) : \A i, j \in 1..Len(Events) :
        i < j /\ journal[c][n] = Events[j] =>
            \/ \E m \in 1..(n - 1) : journal[c][m] = Events[i]
            \/ \E d \in Cells \ {c} : InJournal(Events[i], d)

\* What a committed offset has passed has its effect: no crash of the
\* consumer loses an event.
NothingIsSkipped ==
    \A c \in Cells : \A n \in 1..offset[c] : journal[c][n] \in applied[c]

\* The promise of a callback. Repeated requests, late appends and consumers that
\* fail bring no step of their own.
InJournalOf(c) == {journal[c][n] : n \in 1..Len(journal[c])}

Delivery == INSTANCE CallbackDelivery WITH
    kept <- [c \in Cells |-> InJournalOf(c)],
    effects <- applied, told <- acknowledged

ImplementsDelivery == Delivery!Spec

\* What the provider was told is durable has its effect in the end.
AcknowledgedIsApplied ==
    acknowledged ~> \A e \in EventSet : \E c \in Cells : e \in applied[c]
=============================================================================
