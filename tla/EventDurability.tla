--------------------------- MODULE EventDurability ---------------------------
(***************************************************************************)
(* Consume (internal/events/durability.go) applies a record before it      *)
(* commits its offset. The projection is a port: as its comment asks, an   *)
(* effect is stored in one transaction with the marker of its record. Each *)
(* cell has one consumer of its topic, which may crash between the two.    *)
(***************************************************************************)
EXTENDS IngressHandler

VARIABLES offset,       \* per cell: the records whose offset is committed
          consuming,    \* per cell: the stage of Consume
          applied       \* per cell: the events with an effect

durabilityVars == <<offset, consuming, applied>>

ConsumeStages == {"idle", "applied"}

DurabilityInit ==
    /\ offset = [c \in Cells |-> 0]
    /\ consuming = [c \in Cells |-> "idle"]
    /\ applied = [c \in Cells |-> {}]

\* The host reads the record after the committed offset. A record whose marker
\* is there has no second effect.
Apply(c) ==
    /\ consuming[c] = "idle"
    /\ offset[c] < Len(journal[c])
    /\ applied' = [applied EXCEPT ![c] = @ \cup {journal[c][offset[c] + 1]}]
    /\ consuming' = [consuming EXCEPT ![c] = "applied"]
    /\ UNCHANGED <<offset, ingressVars>>

\* Mutant: the offset is committed before the effect.
CommitOffsetFirst(c) ==
    /\ consuming[c] = "idle"
    /\ offset[c] < Len(journal[c])
    /\ offset' = [offset EXCEPT ![c] = @ + 1]
    /\ UNCHANGED <<consuming, applied, ingressVars>>

CommitOffset(c) ==
    /\ consuming[c] = "applied"
    /\ offset' = [offset EXCEPT ![c] = @ + 1]
    /\ consuming' = [consuming EXCEPT ![c] = "idle"]
    /\ UNCHANGED <<applied, ingressVars>>

\* The offset is not committed, or the process is gone: the record comes again.
ConsumeFail(c) ==
    /\ consuming[c] = "applied"
    /\ consuming' = [consuming EXCEPT ![c] = "idle"]
    /\ UNCHANGED <<offset, applied, ingressVars>>

DurabilityNext ==
    \E c \in Cells : Apply(c) \/ CommitOffset(c) \/ ConsumeFail(c)
=============================================================================
