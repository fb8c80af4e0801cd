--------------------------- MODULE PlacementChain ---------------------------
(***************************************************************************)
(* What a set of placement directories over one checkpoint store promises: *)
(* the accepted snapshots form one history in which no asset is forgotten  *)
(* and no epoch is reused, and each directory answers from that history    *)
(* and never goes back in it, whatever fails or restarts.                  *)
(***************************************************************************)
EXTENDS PlacementSnapshot

CONSTANT Directories

VARIABLES accepted,   \* documents that became durable
          answer      \* directory -> the binding it returned last, or None

vars == <<accepted, answer>>

Bindings == [asset : Assets, document : Documents]

Init ==
  /\ accepted = {}
  /\ answer = [p \in Directories |-> None]

Accept(d) ==
  /\ \A e \in accepted : e.version < d.version /\ Extends(e.entries, d.entries)
  /\ accepted' = accepted \cup {d}
  /\ UNCHANGED answer

Answer(p, a, d) ==
  /\ d \in accepted
  /\ a \in DOMAIN d.entries
  /\ d.entries[a].state = "active"
  /\ answer[p] # None => answer[p].document.version <= d.version
  /\ answer' = [answer EXCEPT ![p] = [asset |-> a, document |-> d]]
  /\ UNCHANGED accepted

Next ==
  \E d \in Documents :
    \/ Accept(d)
    \/ \E p \in Directories, a \in Assets : Answer(p, a, d)

Spec == Init /\ [][Next]_vars
=============================================================================
