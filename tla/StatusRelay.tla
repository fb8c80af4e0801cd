----------------------------- MODULE StatusRelay -----------------------------
(***************************************************************************)
(* StatusOutboxRelay over PostgresStatusOutbox: relay instances publish    *)
(* the pending rows of platform.outbox to the broker and mark them.        *)
(*                                                                         *)
(* Facts are numbered in the order (created_at, event_id) of the keyset    *)
(* scan; created_at is the time a transaction started, so rows become      *)
(* visible in any order.  A digest stands for the revision of the history  *)
(* it was computed from, 0 for a history that cannot be resolved.  Each    *)
(* awaited port call is a step: the reads and the marking transaction up   *)
(* to its COMMIT are one step each, COMMIT is applied by the server later. *)
(***************************************************************************)
EXTENDS Naturals, FiniteSets

CONSTANTS Workers,      \* relay instances of one scope
          FactCount,    \* bound on the facts ever recorded
          PageSize,     \* options.pageSize
          MaxRevision,  \* bound on the writes of one history
          MaxFailures   \* bound on failures, revocations and suspensions

ASSUME FactAssumption == FactCount \in Nat /\ PageSize \in Nat \ {0}
ASSUME LimitAssumption == MaxRevision \in Nat \ {0} /\ MaxFailures \in Nat

Facts == 1 .. FactCount

VARIABLES
  state,      \* fact -> state of its row in platform.outbox
  revision,   \* fact -> revision of its row in delivery.status_events
  served,     \* the scope is active on the placement the relays are bound to
  granted,    \* the relays' publish grant is in force
  broker,     \* <<fact, digest>> pairs stored by a configured quorum
  requests,   \* publications on their way to the broker
  marks,      \* facts whose marking transaction is being committed, by worker
  stage,      \* worker -> the port call it is about to make or awaits
  fact,       \* worker -> the fact it processes, 0 for none
  digest,     \* worker -> digest of that fact as loaded, then as acknowledged
  page,       \* worker -> facts of its page still to be processed
  next,       \* worker -> cursor to return with the page
  cursor,     \* worker -> cursor its host passes to the next page, 0 for null
  failures,   \* failures so far
  told,       \* facts some caller was told are published
  backlog,    \* worker -> facts pending when its sweep began, not yet processed
  missed,     \* facts a finished sweep did not process although still pending
  witnessed   \* worker -> the grant was in force since the last load or ack

db == <<state, revision, served>>
transport == <<broker, requests>>
sweep == <<page, next, cursor, backlog, missed>>
worker == <<stage, fact, digest, sweep>>
ghosts == <<told, witnessed>>
vars == <<db, granted, transport, marks, worker, failures, ghosts>>

\* Calls made before the try block of process(): their failure ends the page.
BeforeTry == {"page_authorize", "scan", "authorize"}
InTry == {"load", "publish_authorize", "publish", "reply",
          "mark_authorize", "mark", "committing", "marked"}
Stages == {"idle"} \cup BeforeTry \cup InTry

Pending == {f \in Facts : state[f] = "pending"}
Published == {f \in Facts : state[f] = "published"}

\* Wrong: the outbox row alone is enough.
ResolvedByRow(f) == state[f] # "absent"

\* readFact finds the row and exactly one matching history row.
Resolved(f) == state[f] # "absent" /\ revision[f] # 0

-----------------------------------------------------------------------------
(* The keyset scan                                                         *)

Remaining(after) == {f \in Pending : f > after}

\* The first PageSize facts that remain after the cursor.
Entries(after) ==
  {f \in Remaining(after) : Cardinality({g \in Remaining(after) : g <= f}) <= PageSize}

More(after) == Cardinality(Remaining(after)) > PageSize

\* Wrong: the cursor is the row that was read only to see whether more follow.
NextIsFirstUnread(after) ==
  LET unread == Remaining(after) \ Entries(after)
  IN IF More(after) THEN {f \in unread : \A g \in unread : f <= g} ELSE {0}

\* The last entry of the page if more rows follow, else null.
NextCursor(after) ==
  IF More(after) THEN {f \in Entries(after) : \A g \in Entries(after) : g <= f} ELSE {0}

-----------------------------------------------------------------------------
Init ==
  /\ state = [f \in Facts |-> "absent"]
  /\ revision = [f \in Facts |-> 0]
  /\ served = TRUE
  /\ granted = TRUE
  /\ broker = {}
  /\ requests = {}
  /\ marks = {}
  /\ stage = [w \in Workers |-> "idle"]
  /\ fact = [w \in Workers |-> 0]
  /\ digest = [w \in Workers |-> 0]
  /\ page = [w \in Workers |-> {}]
  /\ next = [w \in Workers |-> 0]
  /\ cursor = [w \in Workers |-> 0]
  /\ failures = 0
  /\ told = {}
  /\ backlog = [w \in Workers |-> {}]
  /\ missed = {}
  /\ witnessed = [w \in Workers |-> TRUE]

Goto(w, s) == stage' = [stage EXCEPT ![w] = s]

\* A page or a single relay goes on with its first event, or returns the cursor
\* n, which the host passes on; null ends the sweep.
Process(w, events, n) ==
  /\ next' = [next EXCEPT ![w] = n]
  /\ digest' = [digest EXCEPT ![w] = 0]
  /\ IF events = {}
     THEN /\ Goto(w, "idle")
          /\ fact' = [fact EXCEPT ![w] = 0]
          /\ page' = [page EXCEPT ![w] = {}]
          /\ cursor' = [cursor EXCEPT ![w] = n]
          /\ backlog' = [backlog EXCEPT ![w] = IF n = 0 THEN {} ELSE @]
          /\ missed' = missed \cup (IF n = 0 THEN backlog[w] \cap Pending ELSE {})
     ELSE \E f \in events :
            /\ \A g \in events : f <= g
            /\ Goto(w, "authorize")
            /\ fact' = [fact EXCEPT ![w] = f]
            /\ page' = [page EXCEPT ![w] = events \ {f}]
            /\ UNCHANGED <<cursor, backlog, missed>>

\* The event has its result: the page continues with the next one.
Settle(w) == Process(w, page[w], next[w])

\* runPage or relayOne throws: the host repeats its cursor or starts a sweep.
Throw(w) ==
  /\ Goto(w, "idle")
  /\ fact' = [fact EXCEPT ![w] = 0]
  /\ digest' = [digest EXCEPT ![w] = 0]
  /\ page' = [page EXCEPT ![w] = {}]
  /\ \E c \in {cursor[w], 0} :
       /\ cursor' = [cursor EXCEPT ![w] = c]
       /\ backlog' = [backlog EXCEPT ![w] = IF c = 0 THEN {} ELSE @]
  /\ UNCHANGED <<next, missed>>

-----------------------------------------------------------------------------
(* One relay instance.  busy admits one call at a time                     *)

RunPage(w) ==
  /\ stage[w] = "idle"
  /\ Goto(w, "page_authorize")
  /\ backlog' = [backlog EXCEPT ![w] = IF cursor[w] = 0 THEN Pending ELSE @]
  /\ UNCHANGED <<db, granted, transport, marks, fact, digest, page, next, cursor, missed, failures, ghosts>>

\* CDC names one event, known to the outbox or not.
RelayOne(w, f) ==
  /\ stage[w] = "idle"
  /\ Process(w, {f}, cursor[w])
  /\ UNCHANGED <<db, granted, transport, marks, failures, ghosts>>

PageAuthorize(w) ==
  /\ stage[w] = "page_authorize"
  /\ granted
  /\ Goto(w, "scan")
  /\ UNCHANGED <<db, granted, transport, marks, fact, digest, sweep, failures, ghosts>>

Scan(w) ==
  /\ stage[w] = "scan"
  /\ served
  /\ \E n \in NextCursor(cursor[w]) : Process(w, Entries(cursor[w]), n)
  /\ UNCHANGED <<db, granted, transport, marks, failures, ghosts>>

Authorize(w) ==
  /\ stage[w] = "authorize"
  /\ granted
  /\ Goto(w, "load")
  /\ backlog' = [backlog EXCEPT ![w] = @ \ {fact[w]}]
  /\ UNCHANGED <<db, granted, transport, marks, fact, digest, page, next, cursor, missed, failures, ghosts>>

\* Wrong: one unresolvable event ends the page.
UnresolvedEndsPage(w) ==
  /\ stage[w] = "load"
  /\ served /\ ~Resolved(fact[w])
  /\ Throw(w)
  /\ UNCHANGED <<db, granted, transport, marks, failures, ghosts>>

\* No row, or a row without its history: the event is reported as blocked.
Unresolved(w) ==
  /\ stage[w] = "load"
  /\ served /\ ~Resolved(fact[w])
  /\ Settle(w)
  /\ UNCHANGED <<db, granted, transport, marks, failures, ghosts>>

AlreadyPublished(w) ==
  /\ stage[w] = "load"
  /\ served /\ Resolved(fact[w])
  /\ fact[w] \in Published
  /\ told' = told \cup {fact[w]}
  /\ Settle(w)
  /\ UNCHANGED <<db, granted, transport, marks, failures, witnessed>>

Load(w) ==
  /\ stage[w] = "load"
  /\ served /\ Resolved(fact[w])
  /\ fact[w] \in Pending
  /\ digest' = [digest EXCEPT ![w] = revision[fact[w]]]
  /\ witnessed' = [witnessed EXCEPT ![w] = granted]
  /\ Goto(w, "publish_authorize")
  /\ UNCHANGED <<db, granted, transport, marks, fact, sweep, failures, told>>

\* Wrong: the check made before loading is relied on.
PublishUnauthorized(w) ==
  /\ stage[w] = "publish_authorize"
  /\ Goto(w, "publish")
  /\ UNCHANGED <<db, granted, transport, marks, fact, digest, sweep, failures, ghosts>>

PublishAuthorize(w) ==
  /\ stage[w] = "publish_authorize"
  /\ granted
  /\ Goto(w, "publish")
  /\ UNCHANGED <<db, granted, transport, marks, fact, digest, sweep, failures, ghosts>>

Publish(w) ==
  /\ stage[w] = "publish"
  /\ requests' = requests \cup {<<fact[w], digest[w]>>}
  /\ Goto(w, "reply")
  /\ UNCHANGED <<db, granted, broker, marks, fact, digest, sweep, failures, ghosts>>

\* Only an acknowledgement of this event with this digest counts.
Acked(w) ==
  /\ stage[w] = "reply"
  /\ \E ack \in broker :
       /\ ack = <<fact[w], digest[w]>>
       /\ digest' = [digest EXCEPT ![w] = ack[2]]
  /\ witnessed' = [witnessed EXCEPT ![w] = granted]
  /\ Goto(w, "mark_authorize")
  /\ UNCHANGED <<db, granted, transport, marks, fact, sweep, failures, told>>

\* The publication was dropped: rejected, or unknown when the deadline passes.
NotAcked(w) ==
  /\ stage[w] = "reply"
  /\ <<fact[w], digest[w]>> \notin broker \cup requests
  /\ Settle(w)
  /\ UNCHANGED <<db, granted, transport, marks, failures, ghosts>>

MarkAuthorize(w) ==
  /\ stage[w] = "mark_authorize"
  /\ granted
  /\ Goto(w, "mark")
  /\ UNCHANGED <<db, granted, transport, marks, fact, digest, sweep, failures, ghosts>>

\* The row is locked by a transaction that marks it.
RowLocked(f) == \E m \in marks : m[2] = f

\* Wrong: whatever the history says now, the event is marked.
AckNotCompared(w) == TRUE

\* The digest of the locked row and history is the acknowledged one.
AckMatches(w) == Resolved(fact[w]) /\ revision[fact[w]] = digest[w]

\* confirmPublished: row and history locked, re-read, compared and marked.
Mark(w) ==
  /\ stage[w] = "mark"
  /\ served /\ ~RowLocked(fact[w])
  /\ AckMatches(w)
  /\ fact[w] \in Pending
  /\ marks' = marks \cup {<<w, fact[w]>>}
  /\ Goto(w, "committing")
  /\ UNCHANGED <<db, granted, transport, fact, digest, sweep, failures, ghosts>>

\* Another relay marked it first.
MarkedBefore(w) ==
  /\ stage[w] = "mark"
  /\ served /\ ~RowLocked(fact[w])
  /\ AckMatches(w)
  /\ fact[w] \in Published
  /\ told' = told \cup {fact[w]}
  /\ Settle(w)
  /\ UNCHANGED <<db, granted, transport, marks, failures, witnessed>>

\* FACT_CHANGED: the acknowledgement is for other content than there is now.
FactChanged(w) ==
  /\ stage[w] = "mark"
  /\ served /\ ~RowLocked(fact[w])
  /\ ~AckMatches(w)
  /\ Settle(w)
  /\ UNCHANGED <<db, granted, transport, marks, failures, ghosts>>

\* The lock waited for changed the row after this transaction's snapshot.
MarkConflict(w) ==
  /\ stage[w] = "mark"
  /\ served /\ RowLocked(fact[w])
  /\ Settle(w)
  /\ UNCHANGED <<db, granted, transport, marks, failures, ghosts>>

\* COMMIT is acknowledged: the event is reported as published.
Report(w) ==
  /\ stage[w] = "marked"
  /\ told' = told \cup {fact[w]}
  /\ Settle(w)
  /\ UNCHANGED <<db, granted, transport, marks, failures, witnessed>>

\* The authority refuses: before the try block the page ends, inside it the
\* event is reported as blocked or pending.
Denied(w) ==
  /\ ~granted
  /\ \/ stage[w] \in {"page_authorize", "authorize"} /\ Throw(w)
     \/ stage[w] \in {"publish_authorize", "mark_authorize"} /\ Settle(w)
  /\ UNCHANGED <<db, granted, transport, marks, failures, ghosts>>

\* SCOPE_INACTIVE or PLACEMENT_MISMATCH.
NotServed(w) ==
  /\ ~served
  /\ \/ stage[w] = "scan" /\ Throw(w)
     \/ stage[w] \in {"load", "mark"} /\ Settle(w)
  /\ UNCHANGED <<db, granted, transport, marks, failures, ghosts>>

-----------------------------------------------------------------------------
(* What goes wrong, at most MaxFailures times                              *)

Count == failures < MaxFailures /\ failures' = failures + 1

\* A port call fails, or its answer is lost, late, malformed or a mismatch.
Fail(w) ==
  /\ Count
  /\ \/ stage[w] \in BeforeTry /\ Throw(w)
     \/ stage[w] \in InTry /\ Settle(w)
  /\ UNCHANGED <<db, granted, transport, marks, ghosts>>

\* Deadline or cancellation with events left to process, or a crash.
Interrupt(w) ==
  /\ Count
  /\ stage[w] # "idle"
  /\ Throw(w)
  /\ UNCHANGED <<db, granted, transport, marks, ghosts>>

\* The server does not apply the COMMIT; a worker still waiting reports pending.
MarkRefused(w, f) ==
  /\ Count
  /\ <<w, f>> \in marks
  /\ marks' = marks \ {<<w, f>>}
  /\ IF stage[w] = "committing" /\ fact[w] = f THEN Settle(w) ELSE UNCHANGED worker
  /\ UNCHANGED <<db, granted, transport, ghosts>>

BrokerDrop(r) ==
  /\ Count
  /\ r \in requests
  /\ requests' = requests \ {r}
  /\ UNCHANGED <<db, granted, broker, marks, worker, ghosts>>

Revoke ==
  /\ Count
  /\ granted' = FALSE
  /\ UNCHANGED <<db, transport, marks, worker, ghosts>>

\* Wrong: the placement is read without FOR SHARE.
PlacementNotShared == FALSE

\* A marking transaction shares the placement until it ends.
PlacementShared == marks # {}

Suspend ==
  /\ Count
  /\ ~PlacementShared
  /\ served' = FALSE
  /\ UNCHANGED <<state, revision, granted, transport, marks, worker, ghosts>>

-----------------------------------------------------------------------------
(* The server, the broker and the other writers                            *)

MarkDurable(w, f) ==
  /\ <<w, f>> \in marks
  /\ marks' = marks \ {<<w, f>>}
  /\ state' = [state EXCEPT ![f] = "published"]
  /\ stage' = IF stage[w] = "committing" /\ fact[w] = f
              THEN [stage EXCEPT ![w] = "marked"] ELSE stage
  /\ UNCHANGED <<revision, served, granted, transport, fact, digest, sweep, failures, ghosts>>

BrokerAppend(r) ==
  /\ r \in requests
  /\ requests' = requests \ {r}
  /\ broker' = broker \cup {r}
  /\ UNCHANGED <<db, granted, marks, worker, failures, ghosts>>

\* A status change commits: the row and, unless it is an orphan, its history.
CommitFact(f) ==
  /\ state[f] = "absent"
  /\ state' = [state EXCEPT ![f] = "pending"]
  /\ \E r \in {0, 1} : revision' = [revision EXCEPT ![f] = r]
  /\ UNCHANGED <<served, granted, transport, marks, worker, failures, ghosts>>

\* Repair of a history by its owner; a marking transaction shares its lock.
AmendHistory(f) ==
  /\ state[f] # "absent" /\ ~RowLocked(f)
  /\ revision[f] < MaxRevision
  /\ revision' = [revision EXCEPT ![f] = @ + 1]
  /\ UNCHANGED <<state, served, granted, transport, marks, worker, failures, ghosts>>

Grant ==
  /\ ~granted
  /\ granted' = TRUE
  /\ witnessed' = [w \in Workers |-> TRUE]
  /\ UNCHANGED <<db, transport, marks, worker, failures, told>>

Resume ==
  /\ ~served
  /\ served' = TRUE
  /\ UNCHANGED <<state, revision, granted, transport, marks, worker, failures, ghosts>>

-----------------------------------------------------------------------------
\* The steps a relay call makes by itself.
Proceed(w) ==
  \/ PageAuthorize(w) \/ Scan(w) \/ Authorize(w) \/ Unresolved(w) \/ AlreadyPublished(w)
  \/ Load(w) \/ PublishAuthorize(w) \/ Publish(w) \/ Acked(w) \/ NotAcked(w)
  \/ MarkAuthorize(w) \/ Mark(w) \/ MarkedBefore(w) \/ FactChanged(w) \/ MarkConflict(w)
  \/ Report(w) \/ Denied(w) \/ NotServed(w)

Publications == Facts \X (1 .. MaxRevision)

Next ==
  \/ \E w \in Workers : RunPage(w) \/ Proceed(w) \/ Fail(w) \/ Interrupt(w)
  \/ \E w \in Workers, f \in Facts : RelayOne(w, f) \/ MarkDurable(w, f) \/ MarkRefused(w, f)
  \/ \E f \in Facts : CommitFact(f) \/ AmendHistory(f)
  \/ \E r \in Publications : BrokerAppend(r) \/ BrokerDrop(r)
  \/ Revoke \/ Grant \/ Suspend \/ Resume

Spec == Init /\ [][Next]_vars

\* Port calls settle, broker and server answer, revocations and suspensions do
\* not last, and hosts keep sweeping, whatever CDC makes them relay in between.
Answers == /\ \A w \in Workers, f \in Facts : WF_vars(MarkDurable(w, f))
           /\ \A r \in Publications : WF_vars(BrokerAppend(r))
           /\ WF_vars(Grant) /\ WF_vars(Resume)

FairSpec == /\ Spec
            /\ \A w \in Workers : WF_vars(Proceed(w)) /\ SF_vars(RunPage(w))
            /\ Answers

-----------------------------------------------------------------------------
(* Properties                                                              *)

\* Every variable holds values of its type.
TypeOK ==
  /\ state \in [Facts -> {"absent", "pending", "published"}]
  /\ revision \in [Facts -> 0 .. MaxRevision]
  /\ served \in BOOLEAN /\ granted \in BOOLEAN
  /\ broker \subseteq Publications
  /\ requests \subseteq Publications
  /\ marks \subseteq Workers \X Facts
  /\ stage \in [Workers -> Stages]
  /\ fact \in [Workers -> 0 .. FactCount]
  /\ digest \in [Workers -> 0 .. MaxRevision]
  /\ page \in [Workers -> SUBSET Facts]
  /\ next \in [Workers -> 0 .. FactCount]
  /\ cursor \in [Workers -> 0 .. FactCount]
  /\ failures \in 0 .. MaxFailures
  /\ told \subseteq Facts
  /\ backlog \in [Workers -> SUBSET Facts]
  /\ missed \subseteq Facts
  /\ witnessed \in [Workers -> BOOLEAN]

\* A sweep that has reached the end of the scan has processed every fact that
\* was pending when it began and still is: rows published by another relay in
\* between, full pages and repeated pages never hide one.
SweepsSkipNothing == missed = {}

\* A relay publishes or marks only if the grant was in force at some moment
\* after it read the fact, or got the acknowledgement, that it acts on.
GrantIsFresh == \A w \in Workers : stage[w] \in {"publish", "mark"} => witnessed[w]

\* No step marks a fact while the scope is suspended or moved, although both
\* are read before the marking transaction commits.
MarksUnderPlacement ==
  [][\A f \in Facts : f \in Pending /\ state'[f] = "published" => served]_vars

\* Every fact that has its history is published in the end: neither orphans in
\* front of it, nor rows committed behind the cursor, nor lost acknowledgements
\* or crashes keep it pending for ever.
EventuallyPublished ==
  \A f \in Facts : f \in Pending /\ Resolved(f) ~> f \in Published

\* The at-least-once feed.
Feed == INSTANCE StatusFeed WITH
  delivered <- broker, acknowledged <- Published, reported <- told

ImplementsFeed == Feed!Spec

-----------------------------------------------------------------------------
(* The inductive invariant behind the safety properties                    *)

\* The event in process has been read, stored by the broker, marked.
EventOK(w) ==
  /\ stage[w] \in InTry \cup {"authorize"} => fact[w] \in Facts
  /\ stage[w] \in {"publish_authorize", "publish", "reply"} =>
       digest[w] \in 1 .. revision[fact[w]]
  /\ stage[w] \in {"mark_authorize", "mark"} => <<fact[w], digest[w]>> \in broker
  /\ stage[w] = "marked" => fact[w] \in Published

EventInv == \A w \in Workers : EventOK(w)

\* Only content a fact has had is ever published; what is being marked is what
\* the broker stored, while the scope is served.
PublicationInv ==
  /\ \A f \in Facts : state[f] = "absent" => revision[f] = 0
  /\ \A r \in broker \cup requests : r[2] \in 1 .. revision[r[1]]
  /\ \A m \in marks : served /\ <<m[2], revision[m[2]]>> \in broker

\* What a sweep still has to process is on its page or behind its next cursor.
SweepOK(w) ==
  LET open == backlog[w] \cap Pending
  IN /\ \A f \in backlog[w] : state[f] # "absent"
     /\ \A f \in open : f > cursor[w]
     /\ stage[w] = "idle" /\ cursor[w] = 0 => backlog[w] = {}
     /\ stage[w] \in {"authorize"} \cup InTry =>
          \A f \in open : \/ f \in page[w]
                          \/ stage[w] = "authorize" /\ f = fact[w]
                          \/ next[w] # 0 /\ f > next[w]

SweepInv == \A w \in Workers : SweepOK(w)

GrantInv == granted => \A w \in Workers : witnessed[w]

RInv == /\ TypeOK
        /\ EventInv /\ PublicationInv /\ SweepInv /\ GrantInv
        /\ told \subseteq Published
        /\ SweepsSkipNothing /\ GrantIsFresh
=============================================================================
