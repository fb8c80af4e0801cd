----------------------------- MODULE StatusFeed -----------------------------
(***************************************************************************)
(* What the outbox relay promises, with no workers, pages, cursors, grants *)
(* or transactions in sight: an at-least-once feed.  A fact may be         *)
(* delivered any number of times, but only with content it really had; it  *)
(* is acknowledged only when the content it has now was delivered; and it  *)
(* is reported as published only when it was acknowledged.                 *)
(***************************************************************************)
EXTENDS Naturals

CONSTANTS Facts,        \* the recorded changes a consumer should hear of
          MaxRevision   \* how often the history of a fact may be written

VARIABLES revision,      \* fact -> how often its history was written
          delivered,     \* <<fact, revision>> pairs the broker stored durably
          acknowledged,  \* facts marked as published
          reported       \* facts some caller was told are published

vars == <<revision, delivered, acknowledged, reported>>

Init == /\ revision = [f \in Facts |-> 0]
        /\ delivered = {}
        /\ acknowledged = {}
        /\ reported = {}

\* The history of a fact is written or amended.
Write(f) ==
  /\ revision[f] < MaxRevision
  /\ revision' = [revision EXCEPT ![f] = @ + 1]
  /\ UNCHANGED <<delivered, acknowledged, reported>>

Deliver(f, r) ==
  /\ r \in 1 .. revision[f]
  /\ delivered' = delivered \cup {<<f, r>>}
  /\ UNCHANGED <<revision, acknowledged, reported>>

Acknowledge(f) ==
  /\ <<f, revision[f]>> \in delivered
  /\ acknowledged' = acknowledged \cup {f}
  /\ UNCHANGED <<revision, delivered, reported>>

Report(f) ==
  /\ f \in acknowledged
  /\ reported' = reported \cup {f}
  /\ UNCHANGED <<revision, delivered, acknowledged>>

Next == \E f \in Facts : \/ Write(f) \/ Acknowledge(f) \/ Report(f)
                         \/ \E r \in 1 .. MaxRevision : Deliver(f, r)

Spec == Init /\ [][Next]_vars
=============================================================================
