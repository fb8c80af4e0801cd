---------------------------- MODULE StatusChange ----------------------------
(***************************************************************************)
(* StatusService.change over PostgresStatusRepository: concurrent callers, *)
(* each running the whole method, against one scope of the database.       *)
(*                                                                         *)
(* The read-only receipt lookup is one snapshot and so one action.  The    *)
(* write transaction is one action per statement: its reads see the        *)
(* snapshot taken by its first statement, FOR SHARE and FOR UPDATE locks   *)
(* are held until it ends, its writes stay private until COMMIT is applied *)
(* by the server.  Only snapshot isolation and row locks are assumed of    *)
(* the database, which is less than the SERIALIZABLE level it is asked     *)
(* for; a serialization failure is a Fail step.                            *)
(***************************************************************************)
EXTENDS DeliveryStatus, FiniteSets

CONSTANTS Clients,     \* concurrent invocations of change()
          Requests,    \* what callers may ask for
          MaxEpoch,    \* bound on placement moves
          MaxOrphans   \* bound on transactions committing behind a gone caller

ASSUME RequestAssumption ==
  Requests \subseteq [actor: Actors, key: Keys, baseline: Baselines, id: Ids,
                      status: Statuses, expected: Versions, evidence: Evidence \cup {None}]

ASSUME BoundAssumption == MaxEpoch \in Nat \ {0} /\ MaxOrphans \in Nat

VARIABLES
  placement,  \* platform.tenants: placement epoch and whether the scope is active
  row,        \* delivery.work_packages
  history,    \* delivery.status_events
  outbox,     \* event ids in platform.outbox
  stage,      \* client -> the statement it is about to execute
  req,        \* client -> its request
  bind,       \* client -> the placement epoch its host bound at entry
  snap,       \* client -> snapshot of its write transaction
  draft,      \* client -> the event its transaction writes and the tables written
  sent,       \* transactions whose COMMIT is on its way to the server
  verified,   \* <<id, version, evidence>> the verifier passed on all six gates
  answered,   \* <<request, event>> receipts handed out
  refused     \* requests told VERSION_CONFLICT because their version is past

db == <<placement, row, history, outbox>>
session == <<stage, req, bind, snap, draft>>
ghosts == <<verified, answered, refused>>
vars == <<db, session, sent, ghosts>>

Rows == [status: Statuses, version: Versions, evidence: Evidence \cup {None}]
Tables == {"work_packages", "status_events", "outbox"}
Drafts == [event: Events, writes: SUBSET Tables]
Commits == [client: Clients, event: Events, writes: SUBSET Tables, epoch: 1 .. MaxEpoch]

Snapshots == [row: [Packages -> Rows], history: SUBSET Events]

ASSUME SentinelAssumption == None \notin Requests \cup Drafts \cup Snapshots

BeforeTransaction == {"authorize", "lookup", "verify", "begin"}
BeforeLock == {"receipt", "lock"}
BeforeWrite == {"predecessors", "status_write"}
AfterWrite == {"history_write", "outbox_write", "commit"}
InTransaction == BeforeLock \cup BeforeWrite \cup AfterWrite
Stages == {"idle", "committing", "committed"} \cup BeforeTransaction \cup InTransaction

KeyHash(r) == <<r.actor, r.key>>
Package(r) == <<r.baseline, r.id>>
Intent(r) == [id |-> r.id, status |-> r.status, expected |-> r.expected, evidence |-> r.evidence]

-----------------------------------------------------------------------------
(* The receipt lookup, made before and inside the write transaction        *)

\* Wrong: only events that still are their package's latest are looked at.
ReceiptsForLatestOnly(r, H) ==
  {e \in H : e.keyHash = KeyHash(r) /\ e.version = row[e.package].version}

\* The lookup is scope-wide: it is not restricted to the caller's baseline.
ReceiptsFor(r, H) == {e \in H : e.keyHash = KeyHash(r)}

\* Wrong: the intent hash is not compared.
ReplaysAnyIntent(e, r) == e.package[1] = r.baseline

\* The stored receipt answers this very request.
Replays(e, r) == e.package[1] = r.baseline /\ e.intent = Intent(r)

\* IDEMPOTENCY_CONFLICT: the key is taken by another intent or baseline.
KeyConflict(r, H) == \E e \in ReceiptsFor(r, H) : ~Replays(e, r)

-----------------------------------------------------------------------------
(* Locks.  They are held by an open transaction or by one being committed  *)

\* Wrong: the placement is read without FOR SHARE.
PlacementNotShared == FALSE

PlacementShared == (\E c \in Clients : stage[c] \in InTransaction) \/ sent # {}

\* Wrong: the row is read without FOR UPDATE.
RowNeverLocked(c, p) == FALSE

RowLockedByOther(c, p) ==
  \/ \E d \in Clients \ {c} : stage[d] \in BeforeWrite \cup AfterWrite /\ Package(req[d]) = p
  \/ \E t \in sent : t.event.package = p

\* Wrong: no unique index over the key hashes.
KeyNeverLocked(c, k) == FALSE

\* Wrong: calls still in front of their own insert are waited for as well.
KeyLockedEarly(c, k) ==
  \/ \E d \in Clients \ {c} : /\ stage[d] \in {"history_write", "outbox_write", "commit"}
                              /\ KeyHash(req[d]) = k
  \/ \E t \in sent : t.event.keyHash = k

\* An index entry another transaction has inserted but not yet resolved.
KeyLockedByOther(c, k) ==
  \/ \E d \in Clients \ {c} : stage[d] \in {"outbox_write", "commit"} /\ KeyHash(req[d]) = k
  \/ \E t \in sent : t.event.keyHash = k

-----------------------------------------------------------------------------
(* Checks of the domain callback                                           *)

\* Wrong: Done needs no proof.
NeedsNoEvidence(r) == FALSE

NeedsEvidence(r) == r.status = "Done"

PredecessorsDone(p, rows) ==
  \A q \in Preds[p] : rows[q].status = "Done" /\ rows[q].evidence # None

\* Wrong: predecessors are only looked at when the package is to be Done.
NeedsPredecessorsWhenDone(r) == r.status = "Done"

NeedsPredecessors(r) == r.status \in Started

PlacementMatches(c) == bind[c] = placement.epoch

\* The SELECT ... FOR UPDATE fails when the row changed after the snapshot.
RowUnchanged(c, p) == row[p] = snap[c].row[p]

-----------------------------------------------------------------------------
Init ==
  /\ placement = [epoch |-> 1, active |-> TRUE]
  /\ row = [p \in Packages |-> [status |-> "Not started", version |-> 1, evidence |-> None]]
  /\ history = {}
  /\ outbox = {}
  /\ stage = [c \in Clients |-> "idle"]
  /\ req = [c \in Clients |-> None]
  /\ bind = [c \in Clients |-> 1]
  /\ snap = [c \in Clients |-> None]
  /\ draft = [c \in Clients |-> None]
  /\ sent = {}
  /\ verified = {}
  /\ answered = {}
  /\ refused = {}

Goto(c, s) == stage' = [stage EXCEPT ![c] = s]

\* The call ends; whatever transaction it still had open is rolled back.
Finish(c) == /\ Goto(c, "idle")
             /\ req' = [req EXCEPT ![c] = None]
             /\ snap' = [snap EXCEPT ![c] = None]
             /\ draft' = [draft EXCEPT ![c] = None]
             /\ UNCHANGED bind

\* The call ends with the receipt e.
Answer(c, e) == /\ Finish(c)
                /\ answered' = answered \cup {<<req[c], e>>}
                /\ UNCHANGED <<verified, refused>>

-----------------------------------------------------------------------------
(* The method up to its write transaction                                  *)

\* A validated request arrives; its host binds the placement it verified.  A
\* retry is another Start of the same request.
Start(c, r) ==
  /\ stage[c] = "idle"
  /\ Goto(c, "authorize")
  /\ req' = [req EXCEPT ![c] = r]
  /\ bind' = [bind EXCEPT ![c] = placement.epoch]
  /\ UNCHANGED <<db, snap, draft, sent, ghosts>>

Authorize(c) ==
  /\ stage[c] = "authorize"
  /\ Goto(c, "lookup")
  /\ UNCHANGED <<db, req, bind, snap, draft, sent, ghosts>>

LookupReplay(c) ==
  /\ stage[c] = "lookup"
  /\ PlacementMatches(c)
  /\ ~KeyConflict(req[c], history)
  /\ \E e \in ReceiptsFor(req[c], history) : Answer(c, e)
  /\ UNCHANGED <<db, sent>>

LookupMiss(c) ==
  /\ stage[c] = "lookup"
  /\ PlacementMatches(c)
  /\ ReceiptsFor(req[c], history) = {}
  /\ Goto(c, IF NeedsEvidence(req[c]) THEN "verify" ELSE "begin")
  /\ UNCHANGED <<db, req, bind, snap, draft, sent, ghosts>>

\* Wrong: the blank evidence reference is not refused.
VerifyBlank(c) ==
  /\ stage[c] = "verify"
  /\ verified' = verified \cup {<<req[c].id, req[c].expected, req[c].evidence>>}
  /\ Goto(c, "begin")
  /\ UNCHANGED <<db, req, bind, snap, draft, sent, answered, refused>>

\* The verifier passes all six gates.  Its port is given no baseline.
Verify(c) ==
  /\ stage[c] = "verify"
  /\ req[c].evidence # None
  /\ verified' = verified \cup {<<req[c].id, req[c].expected, req[c].evidence>>}
  /\ Goto(c, "begin")
  /\ UNCHANGED <<db, req, bind, snap, draft, sent, answered, refused>>

-----------------------------------------------------------------------------
(* The write transaction                                                   *)

\* BEGIN, scope, guard and placement: snapshot taken, placement locked.
Begin(c) ==
  /\ stage[c] = "begin"
  /\ PlacementMatches(c)
  /\ placement.active
  /\ snap' = [snap EXCEPT ![c] = [row |-> row, history |-> history]]
  /\ Goto(c, "receipt")
  /\ UNCHANGED <<db, req, bind, draft, sent, ghosts>>

TxReplay(c) ==
  /\ stage[c] = "receipt"
  /\ ~KeyConflict(req[c], snap[c].history)
  /\ \E e \in ReceiptsFor(req[c], snap[c].history) : Answer(c, e)
  /\ UNCHANGED <<db, sent>>

\* Wrong: the receipt lookup is not repeated inside the transaction.
TxMissUnchecked(c) ==
  /\ stage[c] = "receipt"
  /\ Goto(c, "lock")
  /\ UNCHANGED <<db, req, bind, snap, draft, sent, ghosts>>

TxMiss(c) ==
  /\ stage[c] = "receipt"
  /\ ReceiptsFor(req[c], snap[c].history) = {}
  /\ Goto(c, "lock")
  /\ UNCHANGED <<db, req, bind, snap, draft, sent, ghosts>>

\* SELECT ... FOR UPDATE waits for the row lock, then the checks pass.
Lock(c) ==
  LET r == req[c]
      p == Package(r)
  IN /\ stage[c] = "lock"
     /\ p \in Packages
     /\ ~RowLockedByOther(c, p)
     /\ RowUnchanged(c, p)
     /\ row[p].version = r.expected
     /\ r.status \in Transitions[row[p].status]
     /\ Goto(c, IF NeedsPredecessors(r) THEN "predecessors" ELSE "status_write")
     /\ UNCHANGED <<db, req, bind, snap, draft, sent, ghosts>>

VersionConflict(c) ==
  LET r == req[c]
      p == Package(r)
  IN /\ stage[c] = "lock"
     /\ p \in Packages
     /\ ~RowLockedByOther(c, p)
     /\ RowUnchanged(c, p)
     /\ row[p].version # r.expected
     /\ refused' = IF row[p].version > r.expected THEN refused \cup {r} ELSE refused
     /\ Finish(c)
     /\ UNCHANGED <<db, sent, verified, answered>>

PredecessorsVerified(c) ==
  /\ stage[c] = "predecessors"
  /\ PredecessorsDone(Package(req[c]), snap[c].row)
  /\ Goto(c, "status_write")
  /\ UNCHANGED <<db, req, bind, snap, draft, sent, ghosts>>

Writes(c, table) == [draft EXCEPT ![c].writes = @ \cup {table}]

\* crypto.randomUUID never repeats an identifier that is in use.
FreshIds ==
  LET drafted == {draft[d].event : d \in {d \in Clients : draft[d] # None}}
      sending == {t.event : t \in sent}
  IN EventIds \ {e.eventId : e \in history \cup drafted \cup sending}

NewDraft(c, id) ==
  LET p == Package(req[c])
  IN [event |-> [eventId |-> id, package |-> p, keyHash |-> KeyHash(req[c]),
                 intent |-> Intent(req[c]), from |-> row[p].status,
                 version |-> row[p].version + 1],
      writes |-> {"work_packages"}]

\* The receipt is made with a fresh event id and the row is updated.
StatusWrite(c) ==
  /\ stage[c] = "status_write"
  /\ row[Package(req[c])].version < MaxVersion
  /\ \E id \in FreshIds : draft' = [draft EXCEPT ![c] = NewDraft(c, id)]
  /\ Goto(c, "history_write")
  /\ UNCHANGED <<db, req, bind, snap, sent, ghosts>>

\* Wrong: the outbox insert is left out.
HistoryWriteThenCommit(c) ==
  /\ stage[c] = "history_write"
  /\ ~KeyLockedByOther(c, KeyHash(req[c]))
  /\ ReceiptsFor(req[c], history) = {}
  /\ draft' = Writes(c, "status_events")
  /\ Goto(c, "commit")
  /\ UNCHANGED <<db, req, bind, snap, sent, ghosts>>

\* UNIQUE (scope, idempotency_hash): wait for an unresolved duplicate.
HistoryWrite(c) ==
  /\ stage[c] = "history_write"
  /\ ~KeyLockedByOther(c, KeyHash(req[c]))
  /\ ReceiptsFor(req[c], history) = {}
  /\ draft' = Writes(c, "status_events")
  /\ Goto(c, "outbox_write")
  /\ UNCHANGED <<db, req, bind, snap, sent, ghosts>>

OutboxWrite(c) ==
  /\ stage[c] = "outbox_write"
  /\ draft' = Writes(c, "outbox")
  /\ Goto(c, "commit")
  /\ UNCHANGED <<db, req, bind, snap, sent, ghosts>>

\* The transaction of c as the server gets it.
CommitOf(c) == [client |-> c, event |-> draft[c].event,
                writes |-> draft[c].writes, epoch |-> bind[c]]

SendCommit(c) ==
  /\ stage[c] = "commit"
  /\ sent' = sent \cup {CommitOf(c)}
  /\ Goto(c, "committing")
  /\ UNCHANGED <<db, req, bind, snap, draft, ghosts>>

\* The call returns its receipt once COMMIT is acknowledged.
Return(c) ==
  /\ stage[c] = "committed"
  /\ Answer(c, draft[c].event)
  /\ UNCHANGED <<db, sent>>

-----------------------------------------------------------------------------
(* Refusals, failures and what goes on in the server                       *)

\* A check of the stage raises its StatusError (VERSION_CONFLICT apart).
Rejected(c) ==
  LET r == req[c]
      p == Package(r)
  IN \/ stage[c] \in {"lookup", "begin"} /\ ~PlacementMatches(c)   \* PLACEMENT_MISMATCH
     \/ stage[c] = "lookup" /\ KeyConflict(r, history)             \* IDEMPOTENCY_CONFLICT
     \/ stage[c] = "verify" /\ r.evidence = None                   \* EVIDENCE_REQUIRED
     \/ stage[c] = "begin" /\ ~placement.active                    \* SCOPE_INACTIVE
     \/ stage[c] = "receipt" /\ KeyConflict(r, snap[c].history)    \* IDEMPOTENCY_CONFLICT
     \/ stage[c] = "lock" /\ p \notin Packages                     \* NOT_FOUND
     \/ /\ stage[c] = "lock" /\ p \in Packages /\ ~RowLockedByOther(c, p)
        /\ \/ ~RowUnchanged(c, p)                                  \* serialization failure
           \/ /\ row[p].version = r.expected                       \* INVALID_TRANSITION
              /\ r.status \notin Transitions[row[p].status]
     \/ /\ stage[c] = "predecessors"                               \* PREDECESSORS_BLOCKED
        /\ ~PredecessorsDone(p, snap[c].row)
     \/ stage[c] = "status_write" /\ row[p].version = MaxVersion   \* unsafe version
     \/ /\ stage[c] = "history_write"                              \* unique violation
        /\ ~KeyLockedByOther(c, KeyHash(r)) /\ ReceiptsFor(r, history) # {}

Reject(c) ==
  /\ Rejected(c)
  /\ Finish(c)
  /\ UNCHANGED <<db, sent, ghosts>>

\* The commit t belongs to a caller still waiting for its outcome.
Awaited(t) == stage[t.client] = "committing" /\ draft[t.client].event = t.event

Orphans == {t \in sent : ~Awaited(t)}

\* Denial, unmet gates, timeout, cancellation, crash, driver or release error.
\* A COMMIT already sent is not called back by the caller's departure.
Fail(c) ==
  /\ stage[c] # "idle"
  /\ stage[c] = "committing" => Cardinality(Orphans) < MaxOrphans
  /\ Finish(c)
  /\ UNCHANGED <<db, sent, ghosts>>

\* The server makes a transaction durable: all of its writes or none.
CommitDurable(t) ==
  /\ t \in sent
  /\ sent' = sent \ {t}
  /\ row' = IF "work_packages" \in t.writes
            THEN [row EXCEPT ![t.event.package] =
                    [status |-> t.event.intent.status, version |-> t.event.version,
                     evidence |-> t.event.intent.evidence]]
            ELSE row
  /\ history' = history \cup (IF "status_events" \in t.writes THEN {t.event} ELSE {})
  /\ outbox' = outbox \cup (IF "outbox" \in t.writes THEN {t.event.eventId} ELSE {})
  /\ stage' = IF Awaited(t) THEN [stage EXCEPT ![t.client] = "committed"] ELSE stage
  /\ UNCHANGED <<placement, req, bind, snap, draft, ghosts>>

\* The server aborts it instead: serialization failure, restart, lost COMMIT.
CommitRefused(t) ==
  /\ t \in sent
  /\ sent' = sent \ {t}
  /\ IF Awaited(t) THEN Finish(t.client) ELSE UNCHANGED session
  /\ UNCHANGED <<db, ghosts>>

\* Tenant administration needs the row that open transactions share.
MovePlacement ==
  /\ ~PlacementShared
  /\ placement.epoch < MaxEpoch
  /\ placement' = [placement EXCEPT !.epoch = @ + 1]
  /\ UNCHANGED <<row, history, outbox, session, sent, ghosts>>

SetScopeState ==
  /\ ~PlacementShared
  /\ \E active \in BOOLEAN : placement' = [placement EXCEPT !.active = active]
  /\ UNCHANGED <<row, history, outbox, session, sent, ghosts>>

-----------------------------------------------------------------------------
\* The steps that the caller's event loop and the driver keep making.
Proceed(c) ==
  \/ Authorize(c) \/ LookupReplay(c) \/ LookupMiss(c) \/ Verify(c)
  \/ Begin(c) \/ TxReplay(c) \/ TxMiss(c) \/ Lock(c) \/ VersionConflict(c)
  \/ PredecessorsVerified(c) \/ StatusWrite(c) \/ HistoryWrite(c) \/ OutboxWrite(c)
  \/ SendCommit(c) \/ Return(c) \/ Reject(c)

ResolveCommit(id) ==
  \E t \in sent : t.event.eventId = id /\ (CommitDurable(t) \/ CommitRefused(t))

Next ==
  \/ \E c \in Clients : Proceed(c) \/ Fail(c) \/ \E r \in Requests : Start(c, r)
  \/ \E id \in EventIds : ResolveCommit(id)
  \/ MovePlacement \/ SetScopeState

Spec == Init /\ [][Next]_vars

\* The event loop and the driver keep serving every call.  Strong fairness is
\* the lock queue's: a waiter is granted the lock its holders keep releasing.
Fairness == /\ \A c \in Clients : SF_vars(Proceed(c))
            /\ \A id \in EventIds : WF_vars(ResolveCommit(id))

FairSpec == Spec /\ Fairness

\* Callers keep retrying and their attempts do not fail every time.
RetrySpec == /\ FairSpec
             /\ \A c \in Clients, r \in Requests :
                  /\ SF_vars(Start(c, r))
                  /\ SF_vars(Authorize(c) /\ req[c] = r)
                  /\ SF_vars(LookupReplay(c) /\ req[c] = r)

-----------------------------------------------------------------------------
(* Properties                                                              *)

\* Every variable holds values of its type.
TypeOK ==
  /\ placement \in [epoch: 1 .. MaxEpoch, active: BOOLEAN]
  /\ row \in [Packages -> Rows]
  /\ history \subseteq Events
  /\ outbox \subseteq EventIds
  /\ stage \in [Clients -> Stages]
  /\ req \in [Clients -> Requests \cup {None}]
  /\ bind \in [Clients -> 1 .. MaxEpoch]
  /\ snap \in [Clients -> Snapshots \cup {None}]
  /\ draft \in [Clients -> Drafts \cup {None}]
  /\ sent \subseteq Commits
  /\ verified \subseteq Ids \X Versions \X Evidence
  /\ answered \subseteq Requests \X Events
  /\ refused \subseteq Requests

\* A receipt in a caller's hands is a durable event carrying the caller's own
\* key, package and intent: never the result of a transaction that may still
\* abort, and never somebody else's answer.
ReceiptsAreDurable ==
  \A a \in answered :
    /\ a[2] \in history
    /\ a[2].keyHash = KeyHash(a[1]) /\ a[2].package = Package(a[1])
    /\ a[2].intent = Intent(a[1])

\* However often, and however concurrently, a key is sent, one event carries it.
OneEventPerKey ==
  \A d, e \in history : d.keyHash = e.keyHash \/ d.eventId = e.eventId => d = e

\* The statuses that version v of package p was given.
StatusAt(p, v) == IF v = 1 THEN {"Not started"}
                  ELSE {e.intent.status : e \in {d \in history : d.package = p /\ d.version = v}}

\* The history of a package is a gap-free chain of legal transitions from
\* "Not started" at version 1 to exactly the status and version of its row.
HistoryIsChain ==
  \A p \in Packages :
    /\ StatusAt(p, row[p].version) = {row[p].status}
    /\ \A v \in 1 .. row[p].version : StatusAt(p, v) # {}
    /\ \A e \in history : e.package = p =>
         /\ e.version \in 2 .. row[p].version
         /\ StatusAt(p, e.version - 1) = {e.from}
         /\ e.intent.status \in Transitions[e.from]

\* Exactly the recorded events have an outbox row: a change is neither lost to
\* the relay nor announced without having happened.
OutboxMatchesHistory == outbox = {e.eventId : e \in history}

\* A Done package carries evidence that passed all six gates for the very
\* version the change was made on, however long verification took.
DoneIsVerified ==
  \A p \in Packages : row[p].status = "Done" =>
    <<p[2], row[p].version - 1, row[p].evidence>> \in verified

\* No package is under way, in review or done before all its predecessors are.
StartedAfterPredecessors ==
  \A p \in Packages : row[p].status \in Started => PredecessorsDone(p, row)

\* A caller told that the version it named is already past will never see that
\* change recorded: the refusal does not race with its own earlier attempt.
StaleRefusalIsFinal ==
  \A r \in refused : ~\E e \in history : e.keyHash = KeyHash(r) /\ Replays(e, r)

\* No step records an event of a caller bound to another placement epoch, nor
\* while the scope is not active, although both are read long before COMMIT.
WritesUnderPlacement ==
  [][\A t \in sent : (t \notin sent' /\ history' # history /\ t.event \in history') =>
       t.epoch = placement.epoch /\ placement.active]_vars

\* Every call returns: the waits for rows, keys and COMMIT never form a cycle.
CallsReturn == \A c \in Clients : stage[c] # "idle" ~> stage[c] = "idle"

\* Whoever lost the answer to a recorded change gets it by retrying the request.
LostReceiptIsRecovered ==
  \A r \in Requests :
    (\E e \in history : e.keyHash = KeyHash(r) /\ Replays(e, r))
      ~> (\E a \in answered : a[1] = r)

\* The abstract ledger, with the rows' statuses and versions as its heads.
Ledger == INSTANCE StatusLedger WITH
  head <- [p \in Packages |-> [status |-> row[p].status, version |-> row[p].version]],
  recorded <- history

ImplementsLedger == Ledger!Spec

-----------------------------------------------------------------------------
(* The inductive invariant behind the safety properties                    *)

HoldsRow(c) == stage[c] \in BeforeWrite \cup AfterWrite
HoldsKey(c) == stage[c] \in {"outbox_write", "commit"}
HasDraft(c) == stage[c] \in AfterWrite \cup {"committing", "committed"}

\* What the stage of a call says of its private state.
SessionOK(c) ==
  /\ stage[c] # "idle" => req[c] \in Requests
  /\ stage[c] \in InTransaction =>
       snap[c] # None /\ bind[c] = placement.epoch /\ placement.active
  /\ HasDraft(c) =>
       /\ draft[c] # None
       /\ draft[c].event.package = Package(req[c])
       /\ draft[c].event.keyHash = KeyHash(req[c])
       /\ draft[c].event.intent = Intent(req[c])
  /\ ~HasDraft(c) => draft[c] = None
  /\ stage[c] = "history_write" => draft[c].writes = {"work_packages"}
  /\ stage[c] = "outbox_write" => draft[c].writes = {"work_packages", "status_events"}
  /\ stage[c] = "commit" => draft[c].writes = Tables
  /\ stage[c] = "committed" => draft[c].event \in history

SessionInv == \A c \in Clients : SessionOK(c)

\* The checks a call has passed still hold when it writes.
ChecksOK(c) ==
  /\ stage[c] \in {"begin"} \cup InTransaction /\ NeedsEvidence(req[c]) =>
       <<req[c].id, req[c].expected, req[c].evidence>> \in verified
  /\ stage[c] = "lock" => ReceiptsFor(req[c], snap[c].history) = {}
  /\ HoldsRow(c) =>
       /\ Package(req[c]) \in Packages
       /\ row[Package(req[c])].version = req[c].expected
       /\ req[c].status \in Transitions[row[Package(req[c])].status]
  /\ stage[c] \in {"status_write"} \cup AfterWrite /\ NeedsPredecessors(req[c]) =>
       PredecessorsDone(Package(req[c]), row)
  /\ stage[c] \in AfterWrite =>
       /\ draft[c].event.from = row[Package(req[c])].status
       /\ draft[c].event.version = req[c].expected + 1

ChecksInv == \A c \in Clients : ChecksOK(c)

\* A transaction being committed writes all three tables and is still legal.
SentOK(t) ==
  LET e == t.event
      r == row[e.package]
  IN /\ t.writes = Tables
     /\ t.epoch = placement.epoch /\ placement.active
     /\ e.from = r.status /\ e.version = r.version + 1
     /\ e.intent.expected = r.version /\ e.intent.id = e.package[2]
     /\ e.intent.status \in Transitions[e.from]
     /\ e.intent.status \in Started => PredecessorsDone(e.package, row)
     /\ e.intent.status = "Done" => <<e.intent.id, r.version, e.intent.evidence>> \in verified

SentInv == \A t \in sent : SentOK(t)

\* Rows and keys are held by one transaction at a time, event ids are fresh.
ExclusiveInv ==
  /\ \A c, d \in Clients : c # d /\ HoldsRow(c) /\ HoldsRow(d) => Package(req[c]) # Package(req[d])
  /\ \A c \in Clients, t \in sent : HoldsRow(c) => Package(req[c]) # t.event.package
  /\ \A t, u \in sent : t # u => t.event.package # u.event.package
  /\ \A c, d \in Clients : c # d /\ HoldsKey(c) /\ HoldsKey(d) => KeyHash(req[c]) # KeyHash(req[d])
  /\ \A c \in Clients, t \in sent : HoldsKey(c) => KeyHash(req[c]) # t.event.keyHash
  /\ \A t, u \in sent : t # u => t.event.keyHash # u.event.keyHash
  /\ \A e \in history :
       /\ \A c \in Clients : HoldsKey(c) => KeyHash(req[c]) # e.keyHash
       /\ \A t \in sent : t.event.keyHash # e.keyHash

FreshInv ==
  /\ \A c, d \in Clients : c # d /\ stage[c] \in AfterWrite /\ HasDraft(d) =>
       draft[c].event.eventId # draft[d].event.eventId
  /\ \A c \in Clients, t \in sent : stage[c] \in AfterWrite =>
       draft[c].event.eventId # t.event.eventId
  /\ \A t, u \in sent : t # u => t.event.eventId # u.event.eventId
  /\ \A e \in history :
       /\ \A c \in Clients : stage[c] \in AfterWrite => draft[c].event.eventId # e.eventId
       /\ \A t \in sent : t.event.eventId # e.eventId

\* A snapshot is an earlier state: rows only grow, Done rows never change and
\* events recorded since carry later versions than the snapshot's rows.
SnapshotOK(c) ==
  /\ snap[c].history \subseteq history
  /\ \A p \in Packages :
       /\ snap[c].row[p].version <= row[p].version
       /\ snap[c].row[p].status = "Done" => row[p] = snap[c].row[p]
  /\ \A e \in history \ snap[c].history : snap[c].row[e.package].version < e.version

SnapshotInv == \A c \in Clients : stage[c] \in InTransaction => SnapshotOK(c)

\* HistoryIsChain, event by event.
ChainInv ==
  /\ \A e \in history :
       /\ e.intent.id = e.package[2]
       /\ e.version \in 2 .. row[e.package].version
       /\ e.intent.status \in Transitions[e.from]
       /\ e.version = row[e.package].version => e.intent.status = row[e.package].status
       /\ e.version = 2 => e.from = "Not started"
  /\ \A d, e \in history : d.package = e.package =>
       /\ d.version = e.version => d = e
       /\ d.version + 1 = e.version => e.from = d.intent.status
  /\ \A p \in Packages :
       /\ row[p].version = 1 => row[p].status = "Not started"
       /\ \A v \in 2 .. row[p].version : \E e \in history : e.package = p /\ e.version = v

\* A refused version is past and nothing on its way to commit carries it.
RefusedInv ==
  \A r \in refused :
    /\ Package(r) \in Packages /\ row[Package(r)].version > r.expected
    /\ ~\E e \in history : e.keyHash = KeyHash(r) /\ Replays(e, r)

IInv ==
  /\ TypeOK
  /\ SessionInv /\ ChecksInv /\ SentInv
  /\ ExclusiveInv /\ FreshInv /\ SnapshotInv
  /\ ChainInv /\ RefusedInv
  /\ ReceiptsAreDurable /\ OneEventPerKey /\ OutboxMatchesHistory
  /\ DoneIsVerified /\ StartedAfterPredecessors
=============================================================================
