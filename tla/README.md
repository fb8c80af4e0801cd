# TLA+ models of Greeto

This directory holds a formal model of the parts of the repository that carry
its own logic: who may change the delivery status of a work package, how the
change is made durable exactly once and how it is announced; how a browser page
collects the fragments of a provider signup and a server records them; which
placement of an asset is believed; what a 200 to a provider's callback stands for;
when a webhook may be repeated and what its receipt is worth; and the workflow
editor, with its undo history and its overlapping saves. It contains TLA+ modules,
TLC configurations, and proofs for TLAPS. Paths below are relative to `src/`.

    tlc -config StatusChange.cfg MCStatusChange    # model-check one run
    tlapm StatusChangeProofs.tla                   # check the proofs of a module

`PROJECT.json` lists the runs, the source lines every definition translates,
the hazards, and for every property a mutation of the model that breaks it.
Operators whose comment says "Wrong" or "Mutant" are those mutations; no
specification uses them.

## 1. The system

Most of the repository is a React front end over fixture data and over a server
that is not in it. Its own logic is in `backend/` (Go and TypeScript, ports
without adapters) and in a few modules of the front end. Every backend component is
a class or handler over ports (interfaces) whose adapters are injected, and
most of what can go wrong is in what happens between two calls of a port.

| Component | State it keeps | Operations | Hard behaviour | Module |
|---|---|---|---|---|
| Status service (`services/core/src/status-service.ts`) | none | `change` | everything is read before it is used; concurrent requests with one key | `StatusChange` |
| Status store (`delivery/postgres-status-repository.ts`, `db/migrations/0001_foundation.sql`) | `work_packages`, `status_events`, `outbox`, placement in `tenants` | `findReceipt`, `withTransaction` | locks, snapshot, COMMIT of unknown outcome, a caller that leaves | `StatusChange` |
| Outbox relay (`delivery/status-outbox-relay.ts`, `postgres-status-outbox.ts`) | busy flag; the outbox rows; the broker | `runPage`, `relayOne` | publish, acknowledge, mark: a crash between each; rows that appear behind the cursor; several relays | `StatusRelay` |
| Status event contract (`status-outbox-contract.ts`) | none | encode, digest, decode acknowledgement | pure | digests in `StatusRelay` |
| Tenant scope (`platform/tenant-scope.ts`, `postgres-scope-reader.ts`) | none between calls | resolve a scope | state read, then re-checked | - |
| Signup attempts (`channels/meta/signup-attempt.ts`) | attempt record in a compare-and-set store, sealed codes in a vault | `begin`, `receive`, `inspect`, `close` | fragments in either order, expiry while the vault is awaited, a write applied after the caller gave up | `SignupAttempts` |
| Signup configuration (`signup-configuration.ts`) | none | validate a profile | pure | `Prepared` |
| Callback bridge (front end, `signup-callback-bridge.mjs`) | two slots, a queue, pump and cancel flags | SDK callback, message listener, `retryPending`, `cancel`, `dispose` | re-entrant callbacks, timed-out calls that still run | `CallbackBridge`, `SignupBrowser` |
| Callback parsing and view (`signup-callback.mjs`, `signup-attempt-model.mjs`) | none | parse, inspect | pure | - |
| Placement directory (`internal/placement/directory.go`) | active snapshot, revoked keys, last clock; a checkpoint shared by processes | `Install`, `Resolve`, `RevokeKey` | uncertain checkpoint writes, rollback, revocation during I/O | `PlacementDirectory` |
| Ingress handler and binder (`services/ingress/handler.go`, `placement.go`) | capacity slots | `ServeHTTP`, `Bind` | several appends behind one acknowledgement | `IngressHandler` |
| Event durability (`internal/events/durability.go`) | offsets | `PublishPending`, `Consume` | crash between effect and bookkeeping | `EventDurability` |
| Webhook lifecycle (`services/webhook-dispatcher/lifecycle`) | attempt ledger | `Plan`, `Record` | repeated observations, deadlines, lost receipts | `WebhookPlan`, `WebhookDispatch` |
| Webhook egress (`egress`) | slots | `Send` | authority withdrawn on the way, outcome unknown after hand-over | `WebhookDispatch` |
| Webhook receiver (`receiverhttp`) | admission, inbox | `ServeHTTP`, `Drain` | draining while requests are admitted, a lost 204 | `WebhookReceiver` |
| Signing, event body, SDKs, envelope encryption, ingress proof, placement JSON | none | verify, parse | pure | - |
| Health and recovery gates, stage logger, ingress process | small counters, a bounded queue | probe, evaluate, record, close | dropped stages | - |
| Workflow editor (front end, `features/automation/WorkflowBuilder.jsx`) | graph, undo history, insertion menu | gestures, save, publish, run | handlers that keep what an earlier render knew | `WorkflowCanvas` |
| Workspace shell, workflow list, API client (`app/GreetoWorkspace.jsx`, `WorkflowsKanban.jsx`, `services/api/legacy.js`) | open workflow, its copy in localStorage, rows read | open, leave, load, the three calls | overlapping saves answered in any order, or after the page is gone | `WorkflowEditor` |
| Drafts (`shared/state/drafts.js`) | session storage | save, restore, discard | refusal of foreign data | - |
| Browser screens | what one call returned | render, send a form | - | - |

How they interact. A caller's host resolves a *tenant scope* and calls
`StatusService.change`, which talks to the *store*. The store's transaction
writes an outbox row; the *relay* (started by change capture or by a sweep)
reads it and publishes an event. A *signup* starts in the browser: the *bridge*
collects two fragments and sends each through its transport, whose host calls
`SignupAttempts.receive`. A provider callback reaches *ingress*, is bound through
the *placement directory* and appended to a journal, then consumed. A *webhook* is
sent by egress and taken in by a receiver; what egress observed is planned and
recorded by the lifecycle, which decides about a retry. The *workflow editor* hands its graph to
the *workspace shell*, which stores it through the *API client*.

The correctness properties, by component:

- status: one event per idempotency key; a receipt is durable and the caller's
  own; history is a legal chain; Done has proof; dependencies are respected; a
  refusal is final; every change has one outbox row; placement is respected;
  calls return; a lost receipt is recovered by a retry.
- relay: only content a fact really had is delivered; what is marked is what the
  broker stored; a finished sweep skipped nothing; no publication on a stale
  grant; every resolvable fact is published in the end.
- signup attempts: at most one code and one session per attempt, version equals
  the facts recorded, a closed attempt never reopens, no fragment recorded after
  expiry, a sealed code is referenced by at most its own attempt.
- bridge: what it shows as acknowledged is recorded and what it shows as cancelled
  is closed; no two transport calls at a time; a cancellation comes to an end.
- directory: versions and epochs never go back on any process, and processes do
  not contradict each other; no snapshot becomes visible that is not checkpointed,
  or under a key revoked or past an end reached while the store was called.
- ingress: acknowledged only if every event is durable; order within a cell;
  no consumer passes over a record.
- webhooks: a retry only after a request that was not accepted for certain, and
  at its time; acceptance and uncertainty are never rewritten; an outcome is
  recorded once, and "accepted" only of what is stored; a drain ends once.
- workflow editor: the history stays within its limit; once the user rests, the
  server has the canvas; no cycles; a run works on the canvas it was started from.

## 2. Modules

| Module | What it is |
|---|---|
| `DeliveryStatus` | vocabulary: statuses, transition table, packages, dependencies, events |
| `StatusLedger` | abstract promise of `change`: changes recorded once, atomically, on the version they name; receipts only for recorded changes |
| `StatusChange` | `StatusService.change` over `PostgresStatusRepository`, by any number of concurrent callers |
| `StatusFeed` | abstract promise of the relay: an at-least-once feed |
| `StatusRelay` | `StatusOutboxRelay` over `PostgresStatusOutbox`, by any number of relays, with broker, authority and administration |
| `SignupRecord` | vocabulary of a signup attempt: fragments, states, what a fragment or an end makes of a record |
| `SignupStore` | abstract promise of the attempts: at most one code and one session, each once, until closed once and for all |
| `SignupAttempts` | `SignupAttempts` over its repository, authority and vault, by any number of concurrent calls |
| `CallbackBridge` | `bindSignupCallbacks` of one page, with its user, observer, clock and transport |
| `SignupBrowser` | composes `CallbackBridge` with `SignupAttempts`: each call of the transport is a call of the server |
| `PlacementSnapshot` | vocabulary of signed snapshots, and when one may follow another |
| `PlacementChain` | abstract promise of the directories: one history of snapshots, answered from without going back |
| `PlacementDirectory` | `placement.Directory` in any number of processes over one checkpoint store |
| `IngressHandler` | `Handler.ServeHTTP` and `PlacementBinder.Bind` for one callback and its repetitions |
| `EventDurability` | extends it by `Consume`, one consumer for each cell's topic |
| `ProviderIngress` | composes both: from the arrival of a callback to its effects |
| `CallbackDelivery` | abstract promise of both: events durable in their order, told when all are, each effect once and in order |
| `WebhookPlan` | `Planner.Plan` as operators of an attempt, an observation and a profile |
| `WebhookWire` | attempts, and the requests and answers on their way |
| `WebhookDispatch` | `Client.Send`, `Recorder.Record` and their host |
| `WebhookReceiver` | `Handler.ServeHTTP`, admission and `Drain` over an inbox |
| `WebhookOutcome` | abstract promise of both: at most one outcome, final, accepted only if stored |
| `Webhooks` | composes `WebhookDispatch` and `WebhookReceiver` |
| `WorkflowCanvas` | graph, undo history, insertion menu and gestures of the editor |
| `WorkflowEditor` | extends it by the workspace, the saves and the server |
| `MCStatusChange`, `MCStatusRelay`, `MCSignupBrowser`, `MCPlacementDirectory`, `MCProviderIngress`, `MCWebhooks`, `MCWorkflowEditor` | instances for TLC |
| `StatusChangeProofs`, `StatusRelayProofs`, `SignupProofs`, `SignupBrowserProofs`, `PlacementProofs`, `IngressProofs`, `WebhookProofs`, `WorkflowProofs` | theorems and their proofs |

### StatusChange

State. `placement`, `row`, `history` and `outbox` are the tables; `stage[c]` is
the statement that call `c` executes next; `req`, `bind`, `snap` and `draft` are
its local variables, the snapshot of its transaction and its private writes;
`sent` are the transactions whose COMMIT is on its way. `verified`, `answered`
and `refused` record what the verifier passed and what callers were told; only
properties read them.

Actions. One per awaited statement, in the order of the code:

| Action | Code |
|---|---|
| `Start`, `Authorize` | validation and authorisation, `status-service.ts` 68-76 |
| `LookupReplay`, `LookupMiss` | receipt lookup before the transaction, 82-86 |
| `Verify` | the evidence verifier, 90-96 |
| `Begin` | BEGIN, scope, guard, placement FOR SHARE, `postgres-status-repository.ts` 169-204 |
| `TxReplay`, `TxMiss` | receipt lookup repeated inside it |
| `Lock`, `VersionConflict` | SELECT FOR UPDATE, version and transition checks |
| `PredecessorsVerified` | the predecessor query |
| `StatusWrite`, `HistoryWrite`, `OutboxWrite` | the three writes |
| `SendCommit`, `Return` | COMMIT, and the receipt |
| `Reject` | every other early return, listed with its error code in `Rejected` |
| `Fail` | time-out, cancellation, crash, driver error, at any await |
| `CommitDurable`, `CommitRefused` | what the server does with a COMMIT, whether or not anybody waits |
| `MovePlacement`, `SetScopeState` | tenant administration (external) |

Abstractions. The service asks for SERIALIZABLE; the model assumes only a
snapshot and row locks, so what it shows does not depend on the database
detecting read-write conflicts, and a serialization failure is a `Reject` or a
`Fail`. The reason code is part of the intent hash and never looked at
otherwise, so it is folded into the intent. `randomUUID` returns an identifier
that is not in use. A retry is another `Start` of the same request; there is no
state of a host across calls. The host binds the placement when the call begins
and does not re-bind.

### StatusRelay

State. `state[f]` is the outbox row of fact `f` (absent, pending, published);
`revision[f]` is how often its history was written, 0 when it has none (an
orphan: `readFact` cannot resolve it); a digest *is* a revision, which is what
comparing digests tells apart. Facts are numbered in the order of the keyset
scan, `(created_at, event_id)`; `created_at` is the start of a transaction, so
`CommitFact` may make them visible in any order. `broker`, `requests`: stored
publications and those on their way. `marks`: marking transactions whose COMMIT
is on its way. `stage`, `fact`, `digest`, `page`, `next` and `cursor`: the local
variables of a relay and of the host that passes its cursor. `granted`,
`served`: the authority's grant, and whether the scope is active on the placement
the relay is bound to. `told`, `backlog`, `missed` and `witnessed` are read by
properties only.

Actions follow `process()`: `PageAuthorize`, `Scan`, `Authorize`, `Load`
(`Unresolved`, `AlreadyPublished`), `PublishAuthorize`, `Publish`, `Acked`
(`NotAcked`), `MarkAuthorize`, `Mark` (`MarkedBefore`, `FactChanged`,
`MarkConflict`), `Report`. `Throw` and `Settle` are the two ways a failure ends:
before the `try` block the page ends with it, inside the block the event has its
result and the page goes on. `RelayOne` is the call made for change capture.
`Fail`, `Interrupt`, `MarkRefused`, `BrokerDrop`, `Revoke` and `Suspend` are what
goes wrong; `MarkDurable`, `BrokerAppend`, `CommitFact`, `AmendHistory`, `Grant`
and `Resume` are the others' steps.

Abstractions. Read-only transactions and the marking transaction up to its
COMMIT are one step each: they read one snapshot, or hold the locks on what they
compared. Two publications of the same content of one fact are one element of
`requests`; a consumer could not tell them apart by content, and the property is
at-least-once. A host repeats its cursor or starts over after a failure (both
are tried), and returns the cursor it was given otherwise.

### SignupAttempts

State. `record` is the repository's row of each attempt, `history` what was ever
written (with each write goes its outbox event, whose id is the attempt and the
version); `vault` is the code sealed for an attempt. `stage[c]` is the port call
that call `c` awaits, `req` and `seen` its local variables; `writes` and `seals`
are the requests on their way to the repository and the vault, `awaited` telling
whether a call still waits for the answer. `time` is the clock of the database;
`Clock` is what the service's clock may return, up to `Skew` away from it.
`told` and `witnessed` are read by properties only; `launched` also restricts
whose secrets a caller can present.

| Action | Code (`signup-attempt.ts`) |
|---|---|
| `Start` | input checks, 296-308 |
| `Insert` | `begin`: authority, configuration, expiry, `insert`, 279-286 |
| `Authorize` | authority and configuration of the other operations |
| `Answer` | `inspect`; a fragment recorded already (317); an attempt closed already (346) |
| `Admit` | `receive` after the read: its checks, then the vault or the authority, 311-326 |
| `Sealed` | the custody receipt is compared, 321-324 |
| `Commit` | `receive` re-authorized: time and configuration again, compare-and-set, 326-330 |
| `Close` | `close`: CANCELLED or EXPIRED by the clock, 344-349 |
| `Return` | the exact acknowledgement, and for `begin` the last look at the clock |
| `Reject` | every other way out, listed with its error in `Rejected` |
| `Fail` | deadline, abort, crash or lost answer, at any await |
| `Apply`, `Refuse`, `Seal` | what repository and vault do with what they were sent (external) |
| `Tick`, `Revoke`, `Grant` | clock and authority (external) |

Abstractions. All calls are in one context (binding): another one is refused by
comparing digests before anything is looked at. State and nonce are unguessable,
so a caller has those of an attempt only when they were launched, and a digest
stands for what it is of. The two looks at the clock in one expression are one,
and so are the configuration check and the next clock read of `Commit`. The
repository is what its interface asks of an adapter: a compare-and-set on the
whole record, and the database's clock for what is not an end. A row has no
`createdAtMs`: it equals the first `updatedAtMs`, and time does not go back from
one write to the next. A stage observer cannot change a result.

### CallbackBridge and SignupBrowser

State. The variables of `bindSignupCallbacks` have their names (`slots`, `hashing`,
`queue`, `pending`, `intent` for `cancelledIntent`, `outstanding` for
`transportOutstanding`, `lastView`); `bridge` is `state`. The code runs on one
thread, so a step is what runs between two awaits, cut once more where `notify()`
calls the observer, which may call the bridge back before the code around it goes
on. `pump` says where `pump()` stands; `assigned` whether `pumpPromise` is already
the promise of the pump that runs; `waits` and `due` count the calls of `cancel()`
that await it, and those whose await is over. `wire` holds the calls of the
transport that have not settled; a call carries what was asked, who of the host works on it
(`at`) and the answer. `watch` is the browser's clock.

| Action | Code (`signup-callback-bridge.mjs`) |
|---|---|
| `Bind`, `Pass`, `Expire` | the checks of the ticket, 44-66; the clock, `stamp()` and the timer, 73-79 |
| `Collect`, `Ignore`, `Enqueue`, `Contradict`, `NoDigest`, `Denied` | `accept()` before and after its digest, 142-155 |
| `RetryPending`, `Cancel`, `Dispose` | 170-187, also from the observer |
| `AskHost`, `GiveUp` | `cancel()` after its await, 180-183 |
| `TurnCancel`, `TurnRecovery`, `TurnIdle`, `TurnNext` | a turn of the pump up to its `notify()`, 121-131 |
| `Submit`, `Unsent` | `call()`, 106-114; the clock throws in it |
| `Deliver` with `Receipt` or `NoReceipt` | the transport settles; `ack()`, 97-104; the catch, 127-137 |
| `TimeOut`, `Told` | the budget of an operation; the last `notify()` of a pump |

`SignupBrowser` gives the transport a host: `Carry` turns a request of the page
into a call of `SignupAttempts` (`receive`, or `close` for a cancellation) with the
correlation secrets of the ticket; `Serve`, `Break` and `PortsAnswer` are the
server's own steps, and those that end a call answer the page, if it asked;
`Rejects` is a transport that rejects while its request may still be at work;
`HostStart` are calls that come from elsewhere.

Abstractions. What `signup-callback.mjs` parses is a fragment; what
`inspectSignupAttempt` accepts is a view. A digest stands for its fragment. The
`diagnostic` and what only words a message are left out. The lifetimes of ticket
and attempt are one; the browser's clock may still differ from the server's, so `watch`
goes over whenever it likes. The guard `cancelSent` is never false where it is read
and has no variable.

What modelling it showed about the code, none of it against a statement of the repository:
a retry asked for inside the observer's notification changes the state to
"waiting" but starts nothing, because the pump still runs; `cancel()` from an
observer in the first synchronous part of a pump finds an older, resolved promise
and may stop the bridge without asking the host; `dispose()` in the observer at
"recording" still submits, with a null body; when the clock throws inside
`call()`, `transportOutstanding` stays true and a retry is refused until a
cancellation or the ticket's timer ends the bridge.

### PlacementDirectory

State. `checkpoint` is the durable record, `accepted` every document it ever held,
`writes` the compare-and-swaps on their way, `awaited` telling whether an Install
still waits. Per process: `stage` and `doc` of the Install that holds the slot,
`active`, `revoked` and `last` (`lastClock`); `answer` is the binding it returned
last, which survives a restart because its caller does.

| Action | Code (`internal/placement/directory.go`) |
|---|---|
| `Verify` | everything before the store, 168-218 |
| `LoadFailsClosed` | corrupt, regressed or altered checkpoint: `active = nil`, 223-247 |
| `LoadRefuses` | rollback, or epochs that do not follow: `active` stays, 231, 248 |
| `LoadSame`, `LoadNewer` | admitted: accepted before, or the compare-and-swap is sent, 251-253 |
| `Activate`, `TooLate` | revocation, clock and expiry looked at again, 261-283 |
| `LoadError`, `Unconfirmed` | the store fails or the caller cancels, before or after the write |
| `Resolve`, `Status`, `RevokeKey`, `Restart` | 290-359, `New` |
| `Swap`, `Refuse` | what the store does with a write, awaited or not (external) |
| `Restore` | the store breaks its contract: it forgets, is altered or corrupt; only in `RestoreSpec` |

Abstractions. `Documents` are the payloads whose signature, schema and scope are
right, so these checks are membership; the checks of validity in time are
actions' guards. Documents that contradict each other are in the set: a
controller may have signed them. A digest is its document. A clock reading may be
any time; one that goes back is refused and changes nothing, except in an Install
that has written (`Unconfirmed`). The read of the checkpoint and the checks on it
are one step: until the slot is free, only a revocation can change what they look
at, and it might as well have come first. A place stands for tenant, workspace,
region and cell.

### IngressHandler, EventDurability and ProviderIngress

One callback of several events, of one asset, is followed through its
repetitions: the provider repeats while it has seen no 200, also while an earlier
request still runs. State: `home` is the placement of the asset; `stage`, `slices`
and `appended` are the local variables of a request, `busy` the slots in use;
`journal` is the topic of each cell, `lateAppends` what the handler gave up on
and Kafka may still store; `acknowledged`: the provider has seen a 200. A consumer has `offset`,
`consuming` and its effects `applied`.

| Action | Code |
|---|---|
| `Enter`, `AtCapacity` | the slot, `services/ingress/handler.go` 119-180 |
| `Bind` | one event against the placement of that moment, `placement.go` 78-105 |
| `Store`, `Confirm` | `Journal.Append` and its acknowledgement, 195-207 |
| `Fail` | proof, schema, placement, append, deadline, crash: everything but a 200 |
| `Answer`, `Receive`, `LoseAnswer` | the 200, which may be lost |
| `LateAppend`, `MoveHome` | Kafka; the directory moves the asset under a later epoch (external) |
| `Apply`, `CommitOffset`, `ConsumeFail` | `Consume`, `internal/events/durability.go` 88-102 |

Abstractions. Proof and schema of a request can only fail it. The directory answers
for an instant; what may become of its answers is `PlacementDirectory`'s part. An
effect is stored with the marker of its record in one transaction, as the comment at
`Projection` asks.

### Webhooks

A delivery is attempted up to `MaxAttempts` times; an attempt is known by its
delivery and its number. `WebhookPlan` is `Plan` without its parsing: `Plannable` are
its refusals, `State` and `NextAttempt` the decision with jitter, hint of the
endpoint, age and deadline in integers, as the code computes them.

State of the sender: `attempt` and `receipt` are the ledger, `late` the commits the
recorder gave up on; `permit` the attempts whose authority stands, `withdrawn` the
stage it was withdrawn in; `send` and `rec` are the stages of `Send` and `Record`;
`posted` the attempts whose connection was handed to HTTP; `result` and `told` what the
host holds. State of the receiver: `serving` and `offered` per request, `active`,
`draining`, `closings` of admission, `inbox` and its `lateAccepts`. They share `wire`
and `answer`; the network loses what it keeps for ever.

| Action | Code |
|---|---|
| `Admit`, `Busy`, `Resolve`, `Connect`, `HandOver` | stages of `Send`, `egress/client.go` 171-295, with the permit asked for at each |
| `Stop`, `Answered` | how it ends: `blocked` before the hand-over, `unknown` after it, or the status |
| `Record` with `RecordRefused`, `RecordFound`, `RecordPlanned` | read, plan, compare, `lifecycle/recorder.go` 91-132 |
| `Commit`, `RecordReturn`, `RecordFail`, `LateCommit` | the ledger's conditional commit, its answer, and losing it |
| `CreateAttempt`, `Crash`, `Upgrade`, `Tick`, `Revoke` | the host, a new policy, time, the authority (external) |
| `Enter`, `TurnAway`, `Refuse`, `Accept`, `Acknowledge`, `StoreFails`, `Answer`, `Release`, `Drain` | `receiverhttp/handler.go` 74-118, 164-329 |
| `Store`, `LateAccept`, `Intercept` | the inbox; a proxy that answers in the handler's place (external) |

The host of the two packages is not in the repository. It is modelled from
what they ask of it: an attempt is durable before it is sent, it is sent once, what
`Send` returned is recorded, a successor is created when the ledger says RETRY_WAIT
and it is due. After a crash the host has no observation of what it sent: unless a commit was
already on its way, nothing is recorded of the attempt and nothing follows it.

Abstractions. The checks of a request at the receiver may refuse it, and the
policy of destinations may block a send; why they do is not told apart. A body
that cannot be read after the headers leaves the outcome as it is. The receiver's 409 for a
delivery that is stored with another body (`handler.go` 312-316) is not told apart: a
delivery keeps its body here. Slots of other
endpoints make `Busy` possible at any time.

`Send` and `Plan` draw the line between statuses in different places: an answer of 101, or of
600 and above, is reported as not accepted, and `Plan` (`planner.go` 213) refuses it
for ever; no document says where the line should be. `Unplannable` is that gap, and
`OutcomesArePlannable` says that it is the only one: every other end of a send,
with every code, in every stage and at any time, is one `Plan` takes. A proxy
that answers 600 is part of both instances. That an observation names its own attempt is up
to the host (`Send` leaves the name out when its slots are taken, 170-183).

### WorkflowCanvas and WorkflowEditor

State. `nodes` and `edges` are the graph, `past` and `future` the snapshots,
`menu` the insertion menu with the edge it was last opened on, `captured` the edges
at the render that built `handleInlineNodeAdd`, whose dependencies leave some
out. `editing` is `editingWorkflow` (with its copy in localStorage), `listed` what the
list has read, `job` the calls of `onSave` with the run or publication behind
them, `stray` the requests whose page is gone, `server` the draft and the
published graph of each workflow.

| Action | Code |
|---|---|
| `Undo`, `Redo`, `Arrange`, `Touch`, `RemoveEdge`, `RemoveNode`, `DeleteNode`, `Connect`, `OpenMenu`, `CloseMenu`, `InsertNode`, `AddNode`, `AddPair`, `AddStep`, `Import` | the gestures, `WorkflowBuilder.jsx` 1876-2045, 2402-2500, 2958-3234, 4029-4124, 9762 |
| `Save`, `Put`, `Saved`, `SaveFails`, `Proceed` | `handleSave`, 3621-3767, and `handleWorkflowSave`, `GreetoWorkspace.jsx` 1242-1263 |
| `Publish`, `Run`, `PostFails` | 3852-3917 |
| `Fetch`, `Open`, `Back`, `Leave`, `Return`, `Load` | the list and the workspace, `GreetoWorkspace.jsx` 256-273, 1457-1486 |
| `Arrive`, `Drop` | a request whose page is gone (external) |

Abstractions. Everything that only decides how a node looks or what it says is one
action, `Touch`, which renders. The server stores a PUT as the draft and a
publication makes the draft the published graph: it is not in the repository, and
modelled from how its answers are used.

`CyclesAreInserted` speaks of every graph there is: the canvas, both histories, the
workflow that is open, the list, the calls, the requests whose page is gone, and
the server. `Acyclic` is what the code's comment promises of the canvas alone, and does
not hold.

`RefreshRestores` states the comment at `GreetoWorkspace.jsx` 1257, "CRITICAL: update local
state so that refreshing the page restores all nodes", and does not hold: open a
workflow that has a draft, add a node, save, load the page again.
`handleWorkflowSave` keeps the `draft_nodes` the workflow was opened with beside
the nodes it saved (1245-1258), and `pickNodes` (`WorkflowBuilder.jsx` 1815-1819) prefers them, so the node is
not shown; the server has it. TLC finds this with the property in `WorkflowRun.cfg` and
`MaxGestures = 4`; no run is spent on it. `Saved` also makes the steps by which
an answer after Back opens the builder again, or renames the canvas of another
workflow, whose next autosave then goes to the wrong place; no document of the
repository speaks about these.

### The six abstract specifications

`StatusChange` implements `StatusLedger` with `head` mapped to the status and
version of the rows, `recorded` to `history`, `answered` to itself: a
`CommitDurable` step is `Record`, the steps that hand out a receipt are
`Answer`, everything else stutters. `StatusRelay` implements `StatusFeed` with
`delivered` mapped to `broker`, `acknowledged` to the published rows, `reported`
to `told`. `SignupAttempts` implements `SignupStore` with `current` and `past`
the views of `record` and `history`: an `Apply` step is `Open`, `Collect` or
`Close`, and `Answer` and `Return` are `Tell`; under the bridge it is checked for the
composition. `PlacementDirectory` implements `PlacementChain` with `accepted` and
`answer` as they are: `Swap` is `Accept`, where the store compares with the last
snapshot only and the promise is about all of them, and `Resolve` is `Answer`.
`Webhooks` implements `WebhookOutcome` with `stored` mapped to `inbox` and `outcome` to
`OutcomeOf`, the state of the one receipt of a delivery that is not RETRY_WAIT: a
`Commit` or `LateCommit` of such a receipt is `Settle`, the inbox's steps are `Store`.
`ProviderIngress` implements `CallbackDelivery` with `kept` mapped to what is in a
cell's journal, `effects` to `applied`, and `told` to `acknowledged`: an append is
`Keep` or, when the record is there already, a stutter; `Apply` is `Effect`;
`Receive` is `Acknowledge`. The mappings are checked by TLC and proved. `SignupBrowser`
implements `SignupAttempts` itself, which is proved.

## 3. Runs

| Run | Instance | Properties | Distinct states |
|---|---|---|---|
| `status_change` | two callers. In "chain" two dependent packages, five requests up to Done and a blocking one, one placement move, one orphaned COMMIT; in "twin" packages of two baselines, seven requests that share keys with other intents and baselines or miss their row or proof, two orphaned COMMITs | `DoneIsVerified`, `StartedAfterPredecessors`, `HistoryIsChain`, `StaleRefusalIsFinal`, `WritesUnderPlacement`, `ImplementsLedger` | 442,555 |
| `status_live` | two independent packages. In "wait" two callers with one shared key; in "retry" one caller that repeats a change across the next one, a placement move and lost answers | `CallsReturn`, `RepeatedReceiptIsRecovered` | 19,538 |
| `status_relay` | in "race" two relays and one fact whose history is amended, two failures; in "sweep" one relay, three facts, pages of two, one failure | `GrantIsFresh`, `SweepsSkipNothing`, `MarksUnderPlacement`, `ImplementsFeed`, `EventuallyPublished` | 159,218 |
| `signup_race` | two callers. In "host" two codes, a session and a cancellation for one attempt, one failure or revocation; in "page" the bridge of one page collects them, and user, clock and provider do two things more | `CodeInCustody`, `ToldIsFinal`, `ShownIsRecorded`, `AuthorityIsFresh`, `ImplementsStore` | 1,155,997 |
| `signup_host` | one caller. In "host" two attempts, all operations, a foreign secret, a changed configuration, evidence that expires, three ticks, clocks a tick apart, one failure; in "page" as above | `RecordsAreReadable`, `AttemptsEnd`, `CancelEnds` | 240,523 |
| `placement` | two processes, one failure or restart, revocations. In "forgets" three snapshots: the second forgets an asset, the third gives it an epoch that has passed; in "rivals" two of one version, and clocks that pass the end of one of them | `AnswersAgree`, `ActivationIsCurrent`, `InstallIsDecisive`, `ImplementsChain`, `RetryRecovers` | 116,214 |
| `webhooks` | a delivery and its retry, three ticks, a deadline before or after the greatest age; one of: a withdrawn permit, a new policy, a crash or late commit, a late inbox, a drain | `NoBlindResend`, `PermitIsFresh`, `RetriesAreSpaced`, `RecordedIsDurable`, `DrainIsFinal`, `OutcomesArePlannable`, `ImplementsOutcome` | 3,069,676 |
| `webhooks_live` | the same with two ticks, and the deadline at the greatest age | `OutcomesAreRecorded` | 392,603 |
| `ingress` | a callback of two events, two requests and one that finds the handler full, two cells, one move of the asset | `EventsInOrder`, `ImplementsDelivery`, `AcknowledgedIsApplied` | 149,192 |
| `workflow_editor` | three gestures. In "canvas" every gesture on a graph of at most three nodes with one snapshot; in "saves" two workflows, two calls at a time, one failed save | `HistoryIsBounded`, `CyclesAreInserted`, `EventuallySaved` | 541,784 |
| `workflow_run` | finds `RunsLatest` violated | `RunsLatest` | |
| `workflow_cycle` | finds `Acyclic` violated | `Acyclic` | |

Two *stories* may share a run: the MC module adds a variable, chosen in the initial
state, that says which part of the instance moves. A story only leaves steps
out, so every behaviour is one of the specification; it keeps two questions from
multiplying each other's states.

Why these bounds are enough. Two callers and two packages give every pair of
conflicting transactions; a third actor is the orphaned COMMIT, which outlives
its caller (one of them is a third writer, two of them a fourth). Four versions
are what a package needs from Not started to Done, so that a successor can
start. Two baselines are the least that share a scope-wide key. In the relay, a
sweep of two pages needs three facts and a page of two; a fact that
is marked with an amended history needs two revisions; two relays race for one
row, and two failures are a lost COMMIT followed by a revocation, or any other
pair. A signup attempt has four versions at most, so two codes, a session and an
end fill it; a call that was given up leaves a second writer behind even when
there is one caller. A page has one call at a time, so a second caller is the one it gave
up on; two acts are a cancellation and a retry, or a code that contradicts the
first and a clock that stops. Three snapshots are the least with which a forgotten asset
can return at a lower epoch, and two processes the least that can disagree; what
a process does about a store that forgets concerns that process alone. An attempt lives one tick in three, so every step can fall
before, at or after its end. A clock that has passed the end of one of two
rival snapshots reads no more than one that has passed both, and a snapshot never ends
after its key, so that no clock need reach the key's end. With deadlines a tick before and a tick
after the greatest age of a delivery, each of them ends its retries in some behaviour. A retry after a retry is like the first: its chain is
`ChainInv`, which is proved. Two requests of a callback are one that was given up and one that
repeats it, and a third only matters to the slots. Three nodes are the least for a
cycle through an inserted node. What does not depend on these bounds is proved (section 4).

Deadlock is checked but for eight configurations, in which the modelled world
may stop: a provider that has its 200 repeats nothing (`ProviderIngress.cfg`),
time is bounded and the network may keep everything (`Webhooks.cfg`,
`WebhookLive.cfg`), gestures are bounded (the three `Workflow*.cfg`), and a page that was
closed does nothing any more (`SignupRace.cfg`, `SignupHost.cfg`). Symmetry is used where only safety is
checked: callers and event ids (`status_change`), callers and codes
(`signup_race`).

What the runs show, beyond the names of the properties:

- `StaleRefusalIsFinal`: a caller that is told its version is past may ask again
  with a new version without fear that the first change is still to be recorded.
  That depends on repeating the receipt lookup inside the transaction, and on
  the row lock outlasting the caller.
- `StartedAfterPredecessors` holds although predecessors are read in a snapshot
  and not locked: it rests on Done having no way out in the transition table.
- `HistoryIsChain` and `ImplementsLedger` (one event per key) hold with orphaned COMMITs, because a
  transaction keeps its row lock and its index entry until the server has
  resolved it.
- `CallsReturn`: a transaction waits for a key only while it holds a row, and one
  that has inserted its key waits for nothing, so waits do not form a cycle.
- `SweepsSkipNothing` is about facts pending when the sweep *began*: a row that
  becomes visible behind the cursor is left to the next sweep, which is what the
  comment in the code asks its host for; `EventuallyPublished` shows that this
  is enough.
- `RecordsAreReadable`: `validatedRecord` insists that a record is EXPIRED exactly
  when its last write is past its expiry. That `receive` and `close` never write
  another kind, even when the clocks they read differ, is what keeps an attempt
  from being locked out by its own row.
- `AuthorityIsFresh` is about the *second* authorization of `receive`: the first
  one may be gone by the time the vault answers. It does not say that the grant
  still stands when the repository applies the write; the code hands that over to
  the repository's writer fencing.
- `CodeInCustody` holds although a code may be sealed and never recorded: the
  orphan stays in the vault, and a different code for the attempt is refused from
  then on.
- `ShownIsRecorded` needs both sides: `ack()` accepts a view because it names the
  fragment's kind, and the server's `receive` answers such a view only when the
  recorded fragment *is* the one it was sent. It holds when a call that timed out goes on, is
  retried, and both answer; and when `dispose()` or `cancel()` come from the observer.
- `CancelEnds` says that the bridge closes, not that the server has: "stopped" is
  the honest end when the host's word is missing.
- `AnswersAgree`: a consumer that has a binding from one process may compare its
  epoch with one from any other. It needs the tombstones: without them a forgotten
  asset returns with an old epoch.
- `ActivationIsCurrent` counts every clock reading of the process, also those of
  lookups that ran while the store was called. A snapshot that ends in the meantime
  is durable all the same, and `RetryRecovers` excepts it.
- `InstallIsDecisive` is the comment at `Install` that uncertain writes invalidate
  the local cache, and `RetryRecovers` the other half of that sentence. It does not
  say that a process never shows a snapshot older than its own write: the write
  may be applied after an older snapshot was installed again.
- `NoBlindResend`: a send that ended unknown, or with the process, is never
  followed by another attempt, so a delivery is repeated only after no byte left
  or after an answer that refused.
  That answer may come from a proxy behind which the inbox stored the delivery all
  the same; the receiver then meets a duplicate.
- `RetriesAreSpaced` bounds the due time by deadline *and* age, and the start of the
  retry by the deadline alone: the age is looked at when a retry is planned, and a
  host that is late may start it after that.
- `OutcomesAreRecorded` holds however often a commit is given up, because the ledger takes
  the first one and the next recording finds it; a commit that is on its way when the
  recorder gives up may arrive later or never.
- `OutcomesArePlannable` is about two packages that share no type: the
  transport's codes and statuses, and the planner's table of those it knows. An
  observation after the deadline is still taken, as its outcome must not be lost.
- `PermitIsFresh` covers every stage at which `Send` asks; between the last question
  and the hand-over a permit may still be withdrawn.
- `EventsInOrder` excepts an event whose predecessor went to another cell: `Bind`
  asks the directory for each event, so a move between two of them splits a callback.
- `ImplementsDelivery` and `AcknowledgedIsApplied` together: the effects of what a
  provider was told is durable happen, each at least once and, by the projection's marker, once.
- `HistoryIsBounded`: `redo` appends to `past` without the cut that `takeSnapshot`
  makes, which is safe because undo and redo only move snapshots.
- `ImplementsDelivery` says in a few lines what the handler, the journal and the
  consumers promise together. An effect waits for those of the events before it
  unless one of these is in another cell: the same exception as in `EventsInOrder`.
- `CyclesAreInserted`: nothing else than the file of `Import` and the insertion menu
  brings a cycle into an editor without one. `redo` after `undo`, an answer that
  replaces the open workflow, a page loaded again and a late request all only
  carry graphs that were there. TLC shows it of the gestures; in "saves" the graphs have no
  edges, so that part rests on `CyclesInserted`.
- `EventuallySaved`: once the user rests, autosave repairs whatever overlapped,
  failed or arrived late before.

The two findings. `workflow_run`: the user edits and runs; the save fails and
`handleWorkflowSave` logs and forgets it (`GreetoWorkspace.jsx` 1261), so the run works
on the graph the server had before, against `WorkflowBuilder.jsx` 3888, "Auto-save before running to
ensure backend has latest version". `workflow_cycle`: connect n2 to n1, remove that edge,
connect n1 to n2, open the insertion menu on this edge, undo twice, insert n3: the handler adds n1 - n3 - n2
beside the edge n2 - n1 that undo has brought back, against
`WorkflowBuilder.jsx` 2485, "Prevent cycles (DAG enforcement)".

### Fairness

`StatusChange!Fairness`: strong fairness of the steps of a call. Weak fairness
would not do for a call that waits for a lock that others take and release
again; the lock manager queues waiters, and strong fairness is the effect of
that queue. The server resolves every COMMIT (weak fairness). `Fail` has none: a
failure is never relied on. In "retry" the caller keeps sending its
request and not all its attempts fail at the same place; this is what
"retry until answered" means, and it is an assumption on the caller and not on
the code.

`StatusRelay`: weak fairness of a relay's steps, of the server, the
broker and the end of a revocation or a suspension; strong fairness of
`RunPage`, because change capture may keep a relay busy with `relayOne` while
the host's sweep timer keeps firing. Failures are bounded by `MaxFailures` in
every run, and so in what the liveness run shows: the code gives a whole page one
deadline (`status-outbox-relay.ts` 110), so an event whose publication hung on *every*
sweep would keep those behind it waiting. No property covers that.

`SignupBrowser!Fairness`: weak fairness of the event loop, of the timer of an
operation, of the server's calls, of the answers of repository and vault, and of
the end of a revocation. A transport need not settle and a user need not act.
`LiveSpec` adds strong fairness of the closing call, because one caller does it
in turn with others: a job keeps closing expired attempts. Time has no fairness:
`AttemptsEnd` speaks of attempts whose time is over on every clock.

`PlacementDirectory`: weak fairness of the code of an Install and of the
store's answer to an awaited write; strong fairness of `Redeliver`, because other
documents may occupy the slot in between: the control plane keeps offering the
accepted snapshot, at a time at which it is valid. Failures are bounded, and a
write nobody waits for may be applied at any time or never.

`Webhooks!Fairness`: a send stops in the end, because `limits.Timeout` ends it
(weak); the host repeats a recording until it has the receipt (weak), and the ledger does
not fail every time (strong fairness of `Commit`). Weak fairness of it would not do: TLC
then finds a recorder that asks for the commit and gives up on it for ever. A commit that was given up is
owed nothing. `ProviderIngress!Fairness`: the host
calls `Consume` again until it succeeds, and the offset store does in the end.
`WorkflowEditor!Fairness`: the autosave timer keeps firing while the builder is
mounted, and calls settle; that a save *succeeds* in the end is the bound
`MaxFaults`.

## 4. Proofs

Eight proof modules prove every safety property of the passing runs for all
values of the constants, from the named assumptions in the modules that declare them: packages are pairs of a baseline and an id and dependencies
stay within a baseline (foreign keys), bounds are naturals, requests are typed,
`None` is not a request, draft, snapshot, record or fragment; facts are numbered,
a page is not empty; codes are not sessions, a lifetime is not zero; documents are
typed, and validity bounds are naturals; the ticket of a page is one of the attempts;
the events of a callback are told apart and there is one at least; a profile is what
`New` accepts; proxies do not answer 2xx; files and the server hold graphs; nodes are
finitely many.

**StatusChange.** The properties are not inductive: that a row is written from
the version it was read at depends on who holds its lock, on the state of the
transaction that holds it, and on the COMMITs nobody waits for. `IInv` adds

- `SessionInv`: what the stage of a call says of its local variables;
- `ChecksInv`: what a call has checked still holds when it writes (evidence
  verified, version and transition, predecessors);
- `SentInv`: the same for a transaction whose COMMIT is on its way, whoever is
  left of its caller;
- `ExclusiveInv`: rows and keys are held by one transaction at a time, sent ones
  included; `FreshInv`: so are event ids;
- `SnapshotInv`: a snapshot is a past of the tables; events since then carry
  later versions than its rows, so a key not found in it and a row unchanged
  since leave no room for an event in between;
- `ChainInv`: `HistoryIsChain`, event by event; `RefusedInv`: a refused version
  is past.

There is a lemma per conjunct, and the key lemmas are `CommitEffect` and
`Frame`: only `CommitDurable` changes the tables, and it writes all three.
`Invariance` is `Spec => []IInv`; `WritesUnderPlacement` and the refinement
`Spec => Ledger!Spec` are proved from it step by step.

**StatusRelay.** `RInv` adds that the event in process was read, stored,
marked as its stage says (`EventInv`), that only content a fact has had is on
its way or stored and that what is being marked is what was stored
(`PublicationInv`), that what a sweep has still to process is on its page or
behind its next cursor (`SweepInv`), and that while the grant stands every
relay has witnessed it (`GrantInv`). The scan is dealt with once, in lemmas
about `Entries`, `More` and `NextCursor` that hold for any page size: everything
that remains is in the page or behind the cursor it returns. `RowLocked`
being the other transaction's lock, an amendment cannot fall between comparing
and marking.

**SignupAttempts.** `SInv` adds that the row extends everything in the history
of its attempt, that all of it is readable and in custody (`HistoryInv`), that
what is on its way to the repository follows the record it is compared with and
belongs to at most one waiting call (`WriteInv`), and what the stage of a call
says of the record it acts on (`CallInv`). `Follows` is one step of an attempt,
`Extends` any number of them; `FollowsExtends` puts them together, and
`ApplyExtends` is the use of the compare-and-set: the record compared with is the
row, the row extends the history, so what replaces it does. `FragmentAdded` and
`AttemptClosed` are about what `receive` and `close` compute: given a readable
record and a clock that is in time, a readable record. The proofs hold for any
`Skew`.

**SignupBrowser.** The page and the server meet in two places, the wire and the history.
`BInv` is `SInv` of the server with, for the page, `PageInv` (what is queued,
pending or taken up has a fragment of its kind, and the pump is about to call only
while no call is outstanding), `WireInv` (there is at most one call; the pump awaits
it with what it has taken up, the host works on it with the ticket's secrets and that fragment,
and its answer, if any, is a view of what the attempt has *been*), `OfferInv` (a call that
records a fragment answers with a record that holds it) and `ShownInv`, which is
`ShownIsRecorded` of the attempt's past. A step of the page leaves the server
alone (`PageFrame`), a step of the server leaves all of the page but the wire alone
(`PageRests`, `ServerWire`), and the past only grows (`PastGrows`); that the record
extends its past (`HistoryInv`) turns `ShownInv` into the property. `OneCall` is
`OneCallAtATime`, which no run checks. `ServerRefined` is the other direction of the
composition: every step of page and server is a step of `SignupAttempts` or leaves
it alone, so the server's theorems hold behind any page (`ServerPromises`), which is
proved without looking at the server again.

**PlacementDirectory.** Two invariants, because two kinds of store are spoken of.
`LInv` is inductive for any store (`RestoreSpec`): at most one write of a process is
awaited, no visible snapshot is under a revoked key, and an Install that was
admitted is not below what is visible (`AdmittedNotBelow`: rollback and regression
checks together). `HInv` adds, for a store that keeps its contract, that the
checkpoint is of the last accepted document and everything accepted comes
`Before` it, that a write extends what it is compared with (`WritesExtend`,
`SwapExtends`), that only accepted documents are shown, and that no answer is above
what is shown or about to be. `BeforeTransitive` takes the comparison with one
predecessor to all of them.

**ProviderIngress.** `IInv` adds what the stage of a request says of its variables
(`LocalInv`), that the slots in use are those of the requests that run
(`CapacityInv`), that what a request counts as confirmed is in a journal
(`ConfirmedInv`), that a late append was asked for after its predecessors were
confirmed (`LateInv`), and that a consumer has applied the record after its offset
(`ConsumeInv`). The one lemma about the journal is `WriteInOrder`: an append keeps the
order if what comes before it is in some cell. In `Refinement`, `WriteDelivers` turns
an append, late ones included, into `Keep`; that everything before the event is in *some* journal
comes from `ConfirmedInv` and `LateInv`, and nothing ever leaves one. For `Effect`,
`EventsInOrder` and `NothingIsSkipped` say that what stands before a record has been applied.

**Webhooks.** What an observation says is `Truthful`: blocked means that no byte left,
not accepted that the endpoint answered so, accepted that the inbox has it. A
receipt is `Planned`: the decision `Plan` makes of a truthful observation, which holds of late
commits as well (`ReceiptInv`). `ChainInv` says of an attempt that *all* its
predecessors are recorded as RETRY_WAIT, which is why the receipt that ends a delivery is its
last; `WireInv` follows a request from the hand-over to the inbox;
`DrainInv` counts those served. `Grows` is the frame: what no step takes back, so that what
was true of an observation stays true. `WaitBound` and `DecisionFacts` are about
the planner's arithmetic, for every delay, jitter, sample and hint. `Plannability` has an
invariant of its own, `PlanInv`: the times of an attempt are in order (a retry inherits
its delivery's), its policy is not later than the planner's, what a send ended with comes after
its start and is `Consistent` or `Unplannable`. `RetriesSpaced` uses it too: that a retry
starts before the deadline of the attempt that planned it.

**WorkflowEditor.** Type correctness with `HistoryIsBounded`, and that an open
insertion menu is open on an edge (without it `InsertNode` could not be typed).
The limit is any natural number, the graphs any graphs.

`CyclesInserted` needs to know what the walk of `isValidConnection` finds. It is
`Reached`, a recursive function of the nodes already seen, and the value of a recursion
is in general out of reach here. This one is not: the sets of nodes that
are not seen yet are finitely many, so that strict inclusion between them is well-founded, and the library's
minimum over a well-founded relation takes a *set*, where its induction takes
an operator. `SetInduction` is the induction that follows for a set of sets,
`WalkExists` gives the recursion its equation, and
`WalkStaysInside`, `WalkIsClosed` and `ReachedIsLeast` say that `Reached` is the least set that holds its
start and is closed under the edges. The rest is about edges: removing some keeps a graph
acyclic (`FewerEdges`), so does one that the check allows (`ValidEdge`), one
to a new node (`NewEnd`), and the replacement of an edge by two through a new
node (`MiddleNode`), which is what `handleInlineNodeAdd` relies on.
`GestureAcyclic`, `UserAcyclic` and `NetworkAcyclic` follow all graphs through all steps.

What stays with TLC: the liveness properties `CallsReturn`,
`RepeatedReceiptIsRecovered`, `EventuallyPublished`, `AttemptsEnd`, `CancelEnds`,
`RetryRecovers`, `OutcomesAreRecorded`, `AcknowledgedIsApplied` and
`EventuallySaved` (liveness and ENABLED are out of the prover's reach). Every invariant and every
action property of the passing runs is proved. The other way round, `TypeOK`,
`ReceiptsAreDurable`, `OutboxMatchesHistory`, `OneEventPerVersion`,
`LaunchesAreDurable`, `NeverBelowLive` and `OneCallAtATime` are proved and in no
run; nor are `OneEventPerKey`, `AcknowledgedIsDurable` and `NothingIsSkipped`, which are the guards of the
abstract `Record` and `Acknowledge` and what `AcknowledgedIsApplied` needs of an offset: the
runs are spent on what is not a consequence of these. That the instances
reach the interesting states is shown by the mutations of their properties.

## 5. Not modelled

Most of the repository's lines, more than four in five, are React screens. They render what one
call returned and send what a form holds, and the server that would answer them
is not in the repository, so there is no protocol between parts to state
properties about; the only server their calls could be checked against would be
an invented one. The workflow editor is modelled because it keeps state of its own
(history, menu, overlapping saves); within its file the panels that edit the
parameters of a node, its pickers and its recorder are forms. For this reason the
definitions cover a small share of all lines, although they cover the backend's
handlers, services and repositories from end to end.

- Cryptography and strict decoding (`security/envelope.go`, `ingress/proof.go`,
  `signing`, the SDKs, placement JSON, callback parsing): functions over text;
  the models let such a check fail at any time.
- HTTP wiring (`cmd/ingress`), health and recovery gates, tenant scope: no state
  between calls.
- Stage logger: a bounded queue that drops diagnostics nothing else reads. Drafts: one draft in one page.
- `PublishPending` (`internal/events/durability.go`): the protocol of `StatusRelay` with
  no caller in the repository.
- The relay's single deadline for a page (`status-outbox-relay.ts` 110), and what a
  planner with a new policy makes of an attempt that an older one half recorded: `Record`
  refuses it (`RecordRefused`), and nobody in the repository takes it from there.
- `StatusChange` with `StatusRelay` over one outbox. `OutboxMatchesHistory` says that
  every change has one row, `EventuallyPublished` that every row is published;
  their composition adds states and no step.
- The adapters of the ports that the repository does not contain (Kafka, the
  verifier, the authorities, the vault) are modelled from how they are used.
