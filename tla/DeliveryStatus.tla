--------------------------- MODULE DeliveryStatus ---------------------------
(***************************************************************************)
(* Vocabulary of the delivery-status domain: work packages of an immutable *)
(* baseline, their statuses, the transition table and the events that      *)
(* record a change.  Shared by the abstract ledger (StatusLedger) and the  *)
(* service with its PostgreSQL repository (StatusChange).                  *)
(***************************************************************************)
EXTENDS Naturals

CONSTANTS Baselines,   \* imported plan baselines
          Ids,         \* work package identifiers
          Packages,    \* the rows of delivery.work_packages: <<baseline, id>>
          Preds,       \* delivery.dependencies: package -> its predecessors
          Actors,      \* authenticated identities
          Keys,        \* idempotency keys the actors choose
          Evidence,    \* non-blank evidence references
          EventIds,    \* the identifiers crypto.randomUUID can return
          MaxVersion,  \* Number.MAX_SAFE_INTEGER
          None

Statuses == {"Not started", "In progress", "Blocked", "Review", "Done"}

\* The statuses that may be entered only when every predecessor is Done.
Started == {"In progress", "Review", "Done"}

Moves ==
  {<<"Not started", "In progress">>, <<"Not started", "Blocked">>,
   <<"In progress", "Review">>, <<"In progress", "Blocked">>,
   <<"Blocked", "In progress">>, <<"Blocked", "Not started">>,
   <<"Review", "Done">>, <<"Review", "In progress">>, <<"Review", "Blocked">>}

Transitions == [s \in Statuses |-> {t \in Statuses : <<s, t>> \in Moves}]

Versions == 1 .. MaxVersion

Intents == [id: Ids, status: Statuses, expected: Versions, evidence: Evidence \cup {None}]

\* A row of delivery.status_events, which is also the receipt read back from it.
Events == [eventId: EventIds, package: Packages, keyHash: Actors \X Keys,
           intent: Intents, from: Statuses, version: Versions]

\* Foreign keys: a predecessor is a package of the same baseline, never itself.
ASSUME PackageAssumption == Packages \subseteq Baselines \X Ids

ASSUME PredsAssumption ==
  /\ Preds \in [Packages -> SUBSET Packages]
  /\ \A p \in Packages : \A q \in Preds[p] : q # p /\ q[1] = p[1]

ASSUME MaxVersionAssumption == MaxVersion \in Nat \ {0}

ASSUME NoneAssumption == None \notin Evidence
=============================================================================
