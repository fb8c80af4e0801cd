---------------------------- MODULE StatusLedger ----------------------------
(***************************************************************************)
(* What StatusService.change promises its callers, with no transactions,   *)
(* locks or failures in sight: a change is recorded once, atomically, on   *)
(* top of exactly the version it names, and a receipt is only ever handed  *)
(* out for a change that has been recorded.                                *)
(***************************************************************************)
EXTENDS DeliveryStatus

VARIABLES head,      \* package -> its current status and version
          recorded,  \* the events of all recorded changes
          answered   \* the pairs <<request, event>> callers hold receipts for

vars == <<head, recorded, answered>>

Init == /\ head = [p \in Packages |-> [status |-> "Not started", version |-> 1]]
        /\ recorded = {}
        /\ answered = {}

\* The change e is legal on the current state of its package.
Legal(e) ==
  /\ e.version = head[e.package].version + 1
  /\ e.intent.expected = head[e.package].version
  /\ e.from = head[e.package].status
  /\ e.intent.status \in Transitions[e.from]
  /\ e.intent.status \in Started => \A q \in Preds[e.package] : head[q].status = "Done"

\* A change whose idempotency key was never used is recorded.
Record(e) ==
  /\ Legal(e)
  /\ \A d \in recorded : d.keyHash # e.keyHash /\ d.eventId # e.eventId
  /\ recorded' = recorded \cup {e}
  /\ head' = [head EXCEPT ![e.package] = [status |-> e.intent.status, version |-> e.version]]
  /\ UNCHANGED answered

\* A caller is told about a recorded change that carries its key and intent.
Answer(r, e) ==
  /\ e \in recorded
  /\ e.keyHash = <<r.actor, r.key>>
  /\ e.package = <<r.baseline, r.id>>
  /\ e.intent.status = r.status /\ e.intent.expected = r.expected
  /\ e.intent.evidence = r.evidence
  /\ answered' = answered \cup {<<r, e>>}
  /\ UNCHANGED <<head, recorded>>

\* Quantifying over what a step adds, not over all events, lets TLC evaluate Next.
Next == \/ \E e \in recorded' \ recorded : Record(e)
        \/ \E a \in answered' \ answered : Answer(a[1], a[2])

Spec == Init /\ [][Next]_vars
=============================================================================
