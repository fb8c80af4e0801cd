-------------------------- MODULE StatusRelayProofs --------------------------
(***************************************************************************)
(* Safety of StatusRelay for any number of relays, facts, page size and    *)
(* bounds: the invariant RInv is inductive, and the relay implements the   *)
(* at-least-once feed.  A step moves at most one relay; lemmas describe    *)
(* what settling an event and throwing do to it, and that no step disturbs *)
(* a relay that stays where it is.                                         *)
(***************************************************************************)
EXTENDS StatusRelay, FiniteSetTheorems, TLAPS

\* The state the scan works on: a relay's own variables.
WorkerTypes ==
  /\ stage \in [Workers -> Stages]
  /\ fact \in [Workers -> 0 .. FactCount]
  /\ digest \in [Workers -> 0 .. MaxRevision]
  /\ page \in [Workers -> SUBSET Facts]
  /\ next \in [Workers -> 0 .. FactCount]
  /\ cursor \in [Workers -> 0 .. FactCount]
  /\ backlog \in [Workers -> SUBSET Facts]
  /\ missed \subseteq Facts

\* The relay v takes no part in the step.
Stays(v) ==
  /\ stage'[v] = stage[v] /\ fact'[v] = fact[v] /\ digest'[v] = digest[v]
  /\ page'[v] = page[v] /\ next'[v] = next[v]
  /\ cursor'[v] = cursor[v] /\ backlog'[v] = backlog[v]

\* What the database and the broker only ever gain.
Grows ==
  /\ \A f \in Facts : /\ revision[f] <= revision'[f]
                      /\ state[f] = "published" => state'[f] = "published"
                      /\ state[f] # "absent" => state'[f] # "absent"
                      /\ state'[f] = "pending" => state[f] \in {"absent", "pending"}
  /\ revision' \in [Facts -> 0 .. MaxRevision]
  /\ broker \subseteq broker'

\* What a step must establish about a relay that moves.
WorkerOK(w) == EventOK(w)' /\ SweepOK(w)'

-----------------------------------------------------------------------------
(* The keyset scan                                                         *)

\* A page holds facts of the outbox behind the cursor.  What remains and is not
\* on the page lies behind the cursor returned with it, which then is not null.
LEMMA PageIsComplete ==
  ASSUME TypeOK, NEW after \in 0 .. FactCount, NEW n \in NextCursor(after)
  PROVE  /\ Entries(after) \subseteq Remaining(after)
         /\ n \in 0 .. FactCount
         /\ \A f \in Remaining(after) : f \in Entries(after) \/ (n # 0 /\ f > n)
         /\ Entries(after) = {} => n = 0
         /\ n # 0 => n > after
  <1> DEFINE upTo(f) == {g \in Remaining(after) : g <= f}
  <1>1. Remaining(after) \subseteq Facts /\ Facts \subseteq Nat /\ 0 \notin Facts
    BY FactAssumption DEF Remaining, Pending, Facts
  <1>2. IsFiniteSet(Remaining(after))
    <2>1. IsFiniteSet(Facts)
      BY FS_Interval, FactAssumption DEF Facts
    <2> QED
      BY <1>1, <2>1, FS_Subset
  <1>3. Entries(after) = {f \in Remaining(after) : Cardinality(upTo(f)) <= PageSize}
    BY DEF Entries
  <1>4. \A f \in Remaining(after) : /\ upTo(f) \subseteq Remaining(after)
                                    /\ IsFiniteSet(upTo(f))
                                    /\ Cardinality(upTo(f)) \in Nat
                                    /\ Cardinality(upTo(f)) <= Cardinality(Remaining(after))
    <2> SUFFICES ASSUME NEW f \in Remaining(after)
                 PROVE  /\ upTo(f) \subseteq Remaining(after)
                        /\ IsFiniteSet(upTo(f))
                        /\ Cardinality(upTo(f)) \in Nat
                        /\ Cardinality(upTo(f)) <= Cardinality(Remaining(after))
      OBVIOUS
    <2>1. upTo(f) \subseteq Remaining(after)
      OBVIOUS
    <2>2. IsFiniteSet(upTo(f)) /\ Cardinality(upTo(f)) <= Cardinality(Remaining(after))
      BY <1>2, <2>1, FS_Subset
    <2> QED
      BY <2>1, <2>2, FS_CardinalityType
  <1>5. Cardinality(Remaining(after)) \in Nat
    BY <1>2, FS_CardinalityType
  <1>6. CASE More(after)
    <2>1. n \in Entries(after) /\ \A g \in Entries(after) : g <= n
      BY <1>6 DEF NextCursor
    <2>2. n \in Remaining(after) /\ n \in Facts /\ n # 0 /\ n > after
      BY <1>1, <1>3, <2>1 DEF Remaining
    <2>3. ASSUME NEW f \in Remaining(after), f \notin Entries(after), ~(f > n)
          PROVE  FALSE
      <3>1. f \in Nat /\ n \in Nat /\ f <= n
        BY <1>1, <2>2, <2>3
      <3>2. upTo(f) \subseteq upTo(n)
        <4> SUFFICES ASSUME NEW g \in Remaining(after), g <= f
                     PROVE  g <= n
          OBVIOUS
        <4>1. g \in Nat
          BY <1>1
        <4> HIDE DEF upTo
        <4> QED
          BY <3>1, <4>1
      <3>3. Cardinality(upTo(f)) <= Cardinality(upTo(n))
        BY <1>4, <2>2, <3>2, FS_Subset
      <3>4. Cardinality(upTo(n)) <= PageSize
        BY <1>3, <2>1
      <3>5. Cardinality(upTo(f)) <= PageSize
        BY <1>4, <2>2, <3>3, <3>4, FactAssumption
      <3> QED
        BY <1>3, <2>3, <3>5
    <2> QED
      BY <1>3, <2>1, <2>2, <2>3 DEF Facts
  <1>7. CASE ~More(after)
    <2>1. n = 0
      BY <1>7 DEF NextCursor
    <2>2. Cardinality(Remaining(after)) <= PageSize
      BY <1>5, <1>7, FactAssumption DEF More
    <2>3. Entries(after) = Remaining(after)
      <3> SUFFICES ASSUME NEW f \in Remaining(after)
                   PROVE  f \in Entries(after)
        BY <1>3
      <3>1. /\ Cardinality(upTo(f)) \in Nat
            /\ Cardinality(upTo(f)) <= Cardinality(Remaining(after))
        BY <1>4
      <3> HIDE DEF upTo
      <3>2. Cardinality(upTo(f)) <= PageSize
        BY <1>5, <2>2, <3>1, FactAssumption
      <3> QED
        BY <1>3, <3>2
    <2> QED
      BY <2>1, <2>3, FactAssumption
  <1> QED
    BY <1>6, <1>7

-----------------------------------------------------------------------------
(* What a step does to one relay                                           *)

\* Going on with a page keeps the relay's variables typed.
LEMMA ProcessTypes ==
  ASSUME TypeOK, NEW w \in Workers, NEW events \in SUBSET Facts, NEW n \in 0 .. FactCount,
         Process(w, events, n)
  PROVE  WorkerTypes'
  <1>0. 0 \in 0 .. FactCount /\ 0 \in 0 .. MaxRevision
    BY FactAssumption, LimitAssumption
  <1>1. CASE events = {}
    BY <1>0, <1>1 DEF TypeOK, WorkerTypes, Process, Goto, Stages
  <1>2. CASE events # {}
    <2>1. PICK f \in events : /\ Goto(w, "authorize")
                              /\ fact' = [fact EXCEPT ![w] = f]
                              /\ page' = [page EXCEPT ![w] = events \ {f}]
                              /\ UNCHANGED <<cursor, backlog, missed>>
      BY <1>2 DEF Process
    <2>2. f \in 0 .. FactCount
      BY FactAssumption DEF Facts
    <2> QED
      BY <1>0, <2>1, <2>2 DEF TypeOK, WorkerTypes, Process, Goto, Stages, BeforeTry
  <1> QED
    BY <1>1, <1>2

\* Settling an event and throwing keep the relay's variables typed.
LEMMA SettleTypes ==
  ASSUME TypeOK, NEW w \in Workers, Settle(w)
  PROVE  WorkerTypes'
  <1>1. page[w] \in SUBSET Facts /\ next[w] \in 0 .. FactCount
    BY DEF TypeOK
  <1> QED
    BY <1>1, ProcessTypes DEF Settle

\* Ending a call keeps the types.
LEMMA ThrowTypes ==
  ASSUME TypeOK, NEW w \in Workers, Throw(w)
  PROVE  WorkerTypes'
  <1>1. 0 \in 0 .. FactCount /\ 0 \in 0 .. MaxRevision
    BY FactAssumption, LimitAssumption
  <1> QED
    BY <1>1 DEF TypeOK, WorkerTypes, Throw, Goto, Stages

\* Going on with a page moves no other relay.
LEMMA ProcessOthers ==
  ASSUME TypeOK, NEW w \in Workers, NEW events, NEW n, Process(w, events, n),
         NEW v \in Workers, v # w
  PROVE  Stays(v)
  BY DEF TypeOK, Process, Goto, Stays

\* Going on with the events of a page keeps the relay's part of the invariant
\* if all that its sweep still has to process is among them or behind n.
LEMMA ProcessOK ==
  ASSUME TypeOK, SweepInv, NEW w \in Workers,
         NEW events \in SUBSET Facts, NEW n \in 0 .. FactCount,
         Process(w, events, n), state' = state,
         \A f \in backlog[w] \cap Pending : f \in events \/ (n # 0 /\ f > n)
  PROVE  WorkerOK(w) /\ missed' = missed
  <1>1. Pending' = Pending /\ Published' = Published
    BY DEF Pending, Published
  <1>2. SweepOK(w)
    BY DEF SweepInv
  <1>3. CASE events = {}
    <2>1. /\ stage'[w] = "idle" /\ cursor'[w] = n /\ next'[w] = n
          /\ backlog'[w] = (IF n = 0 THEN {} ELSE backlog[w])
          /\ missed' = missed \cup (IF n = 0 THEN backlog[w] \cap Pending ELSE {})
      BY <1>3 DEF TypeOK, Process, Goto
    <2>2. EventOK(w)'
      BY <2>1 DEF EventOK, InTry
    <2>3. n = 0 => backlog[w] \cap Pending = {}
      BY <1>3
    <2>4. SweepOK(w)'
      BY <1>1, <1>2, <1>3, <2>1 DEF SweepOK, InTry
    <2> QED
      BY <2>1, <2>2, <2>3, <2>4 DEF WorkerOK
  <1>4. CASE events # {}
    <2>1. PICK f \in events : /\ Goto(w, "authorize")
                              /\ fact' = [fact EXCEPT ![w] = f]
                              /\ page' = [page EXCEPT ![w] = events \ {f}]
                              /\ UNCHANGED <<cursor, backlog, missed>>
      BY <1>4 DEF Process
    <2>2. /\ stage'[w] = "authorize" /\ fact'[w] = f /\ page'[w] = events \ {f}
          /\ next'[w] = n
      BY <2>1 DEF TypeOK, Process, Goto
    <2>3. EventOK(w)'
      BY <2>2 DEF EventOK
    <2>4. SweepOK(w)'
      BY <1>1, <1>2, <2>1, <2>2 DEF SweepOK, InTry
    <2> QED
      BY <2>1, <2>3, <2>4 DEF WorkerOK
  <1> QED
    BY <1>3, <1>4

\* When an event has its result, what is left of the sweep is on the page or behind its cursor.
LEMMA SettleOK ==
  ASSUME RInv, NEW w \in Workers, stage[w] \in InTry, Settle(w), state' = state
  PROVE  /\ WorkerOK(w) /\ missed' = missed
         /\ \A v \in Workers \ {w} : Stays(v)
         /\ WorkerTypes'
         /\ stage'[w] \in {"idle", "authorize"}
  <1>1. TypeOK /\ SweepInv /\ SweepOK(w)
    BY DEF RInv, SweepInv
  <1>2. page[w] \in SUBSET Facts /\ next[w] \in 0 .. FactCount
    BY <1>1 DEF TypeOK
  <1>3. \A f \in backlog[w] \cap Pending : f \in page[w] \/ (next[w] # 0 /\ f > next[w])
    BY <1>1 DEF SweepOK, InTry
  <1>4. WorkerOK(w) /\ missed' = missed
    BY <1>1, <1>2, <1>3, ProcessOK DEF Settle
  <1>5. \A v \in Workers \ {w} : Stays(v)
    BY <1>1, ProcessOthers DEF Settle
  <1>6. stage'[w] \in {"idle", "authorize"}
    BY <1>1 DEF Settle, Process, Goto, TypeOK
  <1> QED
    BY <1>1, <1>4, <1>5, <1>6, SettleTypes

\* A call that throws repeats its cursor, so it leaves the sweep where it was, or starts a new one.
LEMMA ThrowOK ==
  ASSUME RInv, NEW w \in Workers, Throw(w), state' = state
  PROVE  /\ WorkerOK(w) /\ missed' = missed
         /\ \A v \in Workers \ {w} : Stays(v)
         /\ WorkerTypes'
         /\ stage'[w] = "idle"
  <1>1. TypeOK /\ SweepOK(w)
    BY DEF RInv, SweepInv
  <1>2. PICK c \in {cursor[w], 0} :
          /\ cursor' = [cursor EXCEPT ![w] = c]
          /\ backlog' = [backlog EXCEPT ![w] = IF c = 0 THEN {} ELSE @]
    BY DEF Throw
  <1>3. /\ stage'[w] = "idle" /\ cursor'[w] = c /\ missed' = missed
        /\ backlog'[w] = (IF c = 0 THEN {} ELSE backlog[w])
        /\ c # 0 => c = cursor[w]
    BY <1>1, <1>2 DEF Throw, Goto, TypeOK
  <1>4. EventOK(w)'
    BY <1>3 DEF EventOK, InTry
  <1>5. SweepOK(w)'
    BY <1>1, <1>3 DEF SweepOK, Pending, InTry
  <1>6. \A v \in Workers \ {w} : Stays(v)
    BY <1>1, <1>2 DEF Throw, Goto, TypeOK, Stays
  <1> QED
    BY <1>1, <1>3, <1>4, <1>5, <1>6, ThrowTypes DEF WorkerOK

\* A relay that stays where it is keeps its part of the invariant.
LEMMA StaysOK ==
  ASSUME RInv, Grows, NEW v \in Workers, Stays(v)
  PROVE  WorkerOK(v)
  <1>1. TypeOK /\ EventOK(v) /\ SweepOK(v)
    BY DEF RInv, EventInv, SweepInv
  <1>2. backlog[v] \subseteq Facts
    BY <1>1 DEF TypeOK
  <1>3. EventOK(v)'
    <2>1. ASSUME stage[v] \in {"publish_authorize", "publish", "reply"}
          PROVE  digest[v] \in 1 .. revision'[fact[v]]
      <3>1. fact[v] \in Facts /\ digest[v] \in 1 .. revision[fact[v]]
        BY <1>1, <2>1 DEF EventOK, InTry
      <3>2. /\ revision[fact[v]] \in Nat /\ revision'[fact[v]] \in Nat
            /\ revision[fact[v]] <= revision'[fact[v]]
        BY <1>1, <3>1, LimitAssumption DEF TypeOK, Grows
      <3> QED
        BY <3>1, <3>2
    <2>2. stage[v] = "marked" => fact'[v] \in Published'
      BY <1>1 DEF EventOK, Stays, Grows, Published
    <2> QED
      BY <1>1, <2>1, <2>2 DEF EventOK, Stays, Grows
  <1>4. backlog[v] \cap Pending' \subseteq backlog[v] \cap Pending
    BY <1>1, <1>2 DEF SweepOK, Grows, Pending
  <1>5. SweepOK(v)'
    BY <1>1, <1>2, <1>4 DEF SweepOK, Stays, Grows
  <1> QED
    BY <1>3, <1>5 DEF WorkerOK

-----------------------------------------------------------------------------
(* What a step does to the database, the broker and the ghosts             *)

GlobalTypes ==
  /\ state \in [Facts -> {"absent", "pending", "published"}]
  /\ revision \in [Facts -> 0 .. MaxRevision]
  /\ served \in BOOLEAN /\ granted \in BOOLEAN
  /\ broker \subseteq Publications
  /\ requests \subseteq Publications
  /\ marks \subseteq Workers \X Facts
  /\ failures \in 0 .. MaxFailures
  /\ told \subseteq Facts
  /\ witnessed \in [Workers -> BOOLEAN]

\* The steps of the relay w that leave everything but its own variables alone.
Quiet(w) ==
  \/ PageAuthorize(w) \/ Scan(w) \/ Authorize(w) \/ Unresolved(w) \/ PublishAuthorize(w)
  \/ NotAcked(w) \/ MarkAuthorize(w) \/ FactChanged(w) \/ MarkConflict(w)
  \/ Denied(w) \/ NotServed(w) \/ RunPage(w) \/ \E f \in Facts : RelayOne(w, f)

\* The steps that report an event as published.
Reports(w) == AlreadyPublished(w) \/ MarkedBefore(w) \/ Report(w)

\* Most steps of a relay touch nothing but that relay.
LEMMA QuietFrame ==
  ASSUME NEW w \in Workers, Quiet(w)
  PROVE  UNCHANGED <<db, granted, transport, marks, failures, ghosts>>
  BY DEF Quiet, PageAuthorize, Scan, Authorize, Unresolved, PublishAuthorize, NotAcked,
     MarkAuthorize, FactChanged, MarkConflict, Denied, NotServed, RunPage, RelayOne

\* Only what is published is reported as published.
LEMMA ReportFrame ==
  ASSUME TypeOK, EventInv, NEW w \in Workers, Reports(w)
  PROVE  /\ UNCHANGED <<db, granted, transport, marks, failures, witnessed>>
         /\ stage[w] \in InTry /\ Settle(w)
         /\ fact[w] \in Published
         /\ told' = told \cup {fact[w]}
  BY DEF Reports, AlreadyPublished, MarkedBefore, Report, InTry, EventInv, EventOK

\* Steps by what they do to the variables that relays share.
LEMMA StepKinds ==
  ASSUME Next
  PROVE  \/ \E w \in Workers : \/ Quiet(w) \/ Reports(w) \/ Load(w) \/ Publish(w)
                               \/ Acked(w) \/ Mark(w) \/ Fail(w) \/ Interrupt(w)
         \/ \E w \in Workers, f \in Facts : MarkDurable(w, f) \/ MarkRefused(w, f)
         \/ \E f \in Facts : CommitFact(f) \/ AmendHistory(f)
         \/ \E r \in Publications : BrokerAppend(r) \/ BrokerDrop(r)
         \/ Revoke \/ Grant \/ Suspend \/ Resume
  BY DEF Next, Proceed, Quiet, Reports

\* One failure more is still within the bound.
LEMMA CountType ==
  ASSUME TypeOK, Count
  PROVE  failures' \in 0 .. MaxFailures
  BY LimitAssumption DEF TypeOK, Count

\* The shared variables keep their types, and nothing recorded is taken back.
LEMMA GlobalStep ==
  ASSUME TypeOK, EventInv, PublicationInv, [Next]_vars
  PROVE  GlobalTypes' /\ Grows
  <1> USE DEF TypeOK, GlobalTypes, Grows, db, transport, ghosts
  <1>0. /\ \A f \in Facts : revision[f] \in Nat
        /\ \A f \in Facts : 1 \in 0 .. MaxRevision
    BY LimitAssumption
  <1>1. CASE UNCHANGED vars
    BY <1>0, <1>1 DEF vars
  <1>2. ASSUME NEW w \in Workers, Quiet(w) PROVE GlobalTypes' /\ Grows
    BY <1>0, <1>2, QuietFrame
  <1>3. ASSUME NEW w \in Workers, Reports(w) PROVE GlobalTypes' /\ Grows
    BY <1>0, <1>3, ReportFrame DEF Published
  <1>4. ASSUME NEW w \in Workers, Load(w) \/ Acked(w) PROVE GlobalTypes' /\ Grows
    BY <1>0, <1>4 DEF Load, Acked
  <1>5. ASSUME NEW w \in Workers, Publish(w) PROVE GlobalTypes' /\ Grows
    <2>1. fact[w] \in Facts /\ digest[w] \in 1 .. revision[fact[w]]
      BY <1>5 DEF Publish, EventInv, EventOK, InTry
    <2>2. digest[w] \in 1 .. MaxRevision
      BY <1>0, <2>1, LimitAssumption
    <2> QED
      BY <1>0, <1>5, <2>1, <2>2 DEF Publish, Publications
  <1>6. ASSUME NEW w \in Workers, Mark(w) PROVE GlobalTypes' /\ Grows
    <2>1. fact[w] \in Facts
      BY <1>6 DEF Mark, Pending
    <2> QED
      BY <1>0, <1>6, <2>1 DEF Mark
  <1>7. ASSUME NEW w \in Workers, Fail(w) \/ Interrupt(w) PROVE GlobalTypes' /\ Grows
    BY <1>0, <1>7, CountType DEF Fail, Interrupt
  <1>8. ASSUME NEW w \in Workers, NEW f \in Facts, MarkDurable(w, f) \/ MarkRefused(w, f)
        PROVE  GlobalTypes' /\ Grows
    BY <1>0, <1>8, CountType DEF MarkDurable, MarkRefused
  <1>9. ASSUME NEW f \in Facts, CommitFact(f) PROVE GlobalTypes' /\ Grows
    <2>1. PICK r \in {0, 1} : revision' = [revision EXCEPT ![f] = r]
      BY <1>9 DEF CommitFact
    <2>2. revision[f] = 0
      BY <1>9 DEF CommitFact, PublicationInv
    <2> QED
      BY <1>0, <1>9, <2>1, <2>2, LimitAssumption DEF CommitFact
  <1>10. ASSUME NEW f \in Facts, AmendHistory(f) PROVE GlobalTypes' /\ Grows
    <2>1. revision[f] + 1 \in 0 .. MaxRevision
      BY <1>0, <1>10, LimitAssumption DEF AmendHistory
    <2> QED
      BY <1>0, <1>10, <2>1 DEF AmendHistory
  <1>11. ASSUME NEW r \in Publications, BrokerAppend(r) \/ BrokerDrop(r)
         PROVE  GlobalTypes' /\ Grows
    BY <1>0, <1>11, CountType DEF BrokerAppend, BrokerDrop
  <1>12. CASE Revoke \/ Suspend \/ Grant \/ Resume
    <2>1. served' \in BOOLEAN /\ granted' \in BOOLEAN
      BY <1>12, Zenon DEF Revoke, Suspend, Grant, Resume
    <2>2. UNCHANGED <<state, revision, broker, requests, marks, told>>
      BY <1>12, Zenon DEF Revoke, Suspend, Grant, Resume
    <2>3. failures' \in 0 .. MaxFailures
      <3>1. Count \/ UNCHANGED failures
        BY <1>12, Zenon DEF Revoke, Suspend, Grant, Resume
      <3> QED
        BY <3>1, CountType
    <2>4. witnessed' \in [Workers -> BOOLEAN]
      <3>1. witnessed' = [w \in Workers |-> TRUE] \/ UNCHANGED witnessed
        BY <1>12, Zenon DEF Revoke, Suspend, Grant, Resume
      <3> QED
        BY <3>1
    <2> QED
      BY <1>0, <2>1, <2>2, <2>3, <2>4
  <1> QED
    BY <1>1, <1>2, <1>3, <1>4, <1>5, <1>6, <1>7, <1>8, <1>9, <1>10, <1>11, <1>12, StepKinds

-----------------------------------------------------------------------------
(* The relays' own part of the invariant                                   *)

\* Every relay stays where it is or moves as the invariant wants it to.
Moved ==
  /\ WorkerTypes' /\ missed' = missed
  /\ \A v \in Workers : Stays(v) \/ WorkerOK(v)

\* An event that has its result moves one relay.
LEMMA SettleMoved ==
  ASSUME RInv, NEW w \in Workers, stage[w] \in InTry, Settle(w), state' = state
  PROVE  Moved
  BY SettleOK DEF Moved

\* A call that throws moves one relay.
LEMMA ThrowMoved ==
  ASSUME RInv, NEW w \in Workers, Throw(w), state' = state
  PROVE  Moved
  BY ThrowOK DEF Moved

\* A step to the next port call for the same event leaves the sweep alone.
LEMMA AdvanceMoved ==
  ASSUME RInv, Grows, NEW w \in Workers, stage[w] \in InTry, NEW s \in InTry, Goto(w, s),
         NEW d \in 0 .. MaxRevision, digest' = [digest EXCEPT ![w] = d],
         UNCHANGED <<fact, sweep>>,
         EventOK(w)'
  PROVE  Moved
  <1>1. TypeOK /\ SweepOK(w)
    BY DEF RInv, SweepInv
  <1>2. stage' = [stage EXCEPT ![w] = s] /\ stage'[w] = s
    BY <1>1 DEF Goto, TypeOK
  <1>3. WorkerTypes'
    BY <1>1, <1>2 DEF TypeOK, WorkerTypes, sweep, Stages
  <1>4. backlog[w] \cap Pending' \subseteq backlog[w] \cap Pending
    BY <1>1 DEF SweepOK, Grows, Pending
  <1>5. SweepOK(w)'
    BY <1>1, <1>2, <1>4 DEF SweepOK, Grows, sweep, TypeOK, InTry
  <1>6. \A v \in Workers \ {w} : Stays(v)
    BY <1>1, <1>2 DEF Stays, sweep, TypeOK
  <1> QED
    BY <1>3, <1>5, <1>6 DEF Moved, WorkerOK, sweep

\* The steps that begin a page or an event.
LEMMA BeginMoved ==
  ASSUME RInv, NEW w \in Workers,
         \/ RunPage(w) \/ PageAuthorize(w) \/ Authorize(w) \/ Scan(w)
         \/ \E f \in Facts : RelayOne(w, f)
  PROVE  Moved
  <1>1. TypeOK /\ EventOK(w) /\ SweepOK(w) /\ SweepInv
    BY DEF RInv, SweepInv, EventInv
  <1>2. state' = state
    BY DEF RunPage, PageAuthorize, Authorize, Scan, RelayOne, db
  <1>3. CASE RunPage(w)
    <2>1. /\ stage' = [stage EXCEPT ![w] = "page_authorize"]
          /\ backlog' = [backlog EXCEPT ![w] = IF cursor[w] = 0 THEN Pending ELSE @]
          /\ UNCHANGED <<fact, digest, page, next, cursor, missed>>
      BY <1>3 DEF RunPage, Goto
    <2>2. Pending \subseteq Facts /\ \A f \in Pending : f > 0 /\ state[f] # "absent"
      BY FactAssumption DEF Pending, Facts
    <2>3. stage'[w] = "page_authorize" /\ cursor'[w] = cursor[w]
      BY <1>1, <2>1 DEF TypeOK
    <2>4. backlog'[w] = (IF cursor[w] = 0 THEN Pending ELSE backlog[w])
      BY <1>1, <2>1 DEF TypeOK
    <2>5. EventOK(w)'
      BY <2>3 DEF EventOK, InTry
    <2>6. SweepOK(w)'
      BY <1>1, <1>2, <2>2, <2>3, <2>4 DEF SweepOK, InTry, Pending
    <2>7. WorkerTypes'
      BY <1>1, <2>1, <2>2 DEF TypeOK, WorkerTypes, Stages, BeforeTry
    <2>8. \A v \in Workers \ {w} : Stays(v)
      BY <1>1, <2>1 DEF TypeOK, Stays
    <2> QED
      BY <2>1, <2>5, <2>6, <2>7, <2>8 DEF Moved, WorkerOK
  <1>4. CASE PageAuthorize(w)
    <2>1. stage' = [stage EXCEPT ![w] = "scan"] /\ UNCHANGED <<fact, digest, sweep>>
      BY <1>4 DEF PageAuthorize, Goto
    <2>2. stage'[w] = "scan"
      BY <1>1, <2>1 DEF TypeOK
    <2>3. EventOK(w)' /\ SweepOK(w)'
      BY <1>1, <1>2, <2>1, <2>2 DEF EventOK, SweepOK, InTry, Pending, sweep
    <2>4. WorkerTypes'
      BY <1>1, <2>1 DEF TypeOK, WorkerTypes, Stages, BeforeTry, sweep
    <2>5. \A v \in Workers \ {w} : Stays(v)
      BY <1>1, <2>1 DEF TypeOK, Stays, sweep
    <2> QED
      BY <2>1, <2>3, <2>4, <2>5 DEF Moved, WorkerOK, sweep
  <1>5. CASE Authorize(w)
    <2>1. /\ stage' = [stage EXCEPT ![w] = "load"]
          /\ backlog' = [backlog EXCEPT ![w] = @ \ {fact[w]}]
          /\ UNCHANGED <<fact, digest, page, next, cursor, missed>>
          /\ stage[w] = "authorize"
      BY <1>5 DEF Authorize, Goto
    <2>2. stage'[w] = "load" /\ backlog'[w] = backlog[w] \ {fact[w]}
      BY <1>1, <2>1 DEF TypeOK
    <2>3. EventOK(w)'
      BY <1>1, <2>1, <2>2 DEF EventOK, InTry
    <2>4. SweepOK(w)'
      BY <1>1, <1>2, <2>1, <2>2 DEF SweepOK, InTry, Pending
    <2>5. WorkerTypes'
      BY <1>1, <2>1 DEF TypeOK, WorkerTypes, Stages, InTry
    <2>6. \A v \in Workers \ {w} : Stays(v)
      BY <1>1, <2>1 DEF TypeOK, Stays
    <2> QED
      BY <2>1, <2>3, <2>4, <2>5, <2>6 DEF Moved, WorkerOK
  <1>6. CASE Scan(w)
    <2>1. PICK n \in NextCursor(cursor[w]) : Process(w, Entries(cursor[w]), n)
      BY <1>6 DEF Scan
    <2>2. cursor[w] \in 0 .. FactCount
      BY <1>1 DEF TypeOK
    <2>3. /\ Entries(cursor[w]) \in SUBSET Facts /\ n \in 0 .. FactCount
          /\ \A f \in Remaining(cursor[w]) : f \in Entries(cursor[w]) \/ (n # 0 /\ f > n)
      BY <1>1, <2>2, PageIsComplete DEF Remaining, Pending
    <2>4. \A f \in backlog[w] \cap Pending : f \in Remaining(cursor[w])
      BY <1>1 DEF SweepOK, Remaining
    <2>5. WorkerOK(w) /\ missed' = missed
      BY <1>1, <1>2, <2>1, <2>3, <2>4, ProcessOK
    <2>6. WorkerTypes' /\ \A v \in Workers \ {w} : Stays(v)
      BY <1>1, <2>1, <2>3, ProcessTypes, ProcessOthers
    <2> QED
      BY <2>5, <2>6 DEF Moved
  <1>7. CASE \E f \in Facts : RelayOne(w, f)
    <2>1. PICK f \in Facts : Process(w, {f}, cursor[w]) /\ stage[w] = "idle"
      BY <1>7 DEF RelayOne
    <2>2. {f} \in SUBSET Facts /\ cursor[w] \in 0 .. FactCount
      BY <1>1, <2>1 DEF TypeOK
    <2>3. \A g \in backlog[w] \cap Pending : cursor[w] # 0 /\ g > cursor[w]
      BY <1>1, <2>1 DEF SweepOK
    <2>4. WorkerOK(w) /\ missed' = missed
      BY <1>1, <1>2, <2>1, <2>2, <2>3, ProcessOK
    <2>5. WorkerTypes' /\ \A v \in Workers \ {w} : Stays(v)
      BY <1>1, <2>1, <2>2, ProcessTypes, ProcessOthers
    <2> QED
      BY <2>4, <2>5 DEF Moved
  <1> QED
    BY <1>3, <1>4, <1>5, <1>6, <1>7

\* The steps inside the try block that go on with the same event.
LEMMA InsideMoved ==
  ASSUME RInv, Grows, NEW w \in Workers,
         \/ Load(w) \/ PublishAuthorize(w) \/ Publish(w) \/ Acked(w)
         \/ MarkAuthorize(w) \/ Mark(w)
  PROVE  Moved
  <1>1. TypeOK /\ EventOK(w)
    BY DEF RInv, EventInv
  <1>2. digest[w] \in 0 .. MaxRevision /\ digest = [digest EXCEPT ![w] = digest[w]]
    BY <1>1 DEF TypeOK
  <1>3. CASE Load(w)
    <2>1. /\ stage[w] = "load" /\ Goto(w, "publish_authorize")
          /\ digest' = [digest EXCEPT ![w] = revision[fact[w]]]
          /\ UNCHANGED <<fact, sweep>> /\ revision' = revision
          /\ Resolved(fact[w])
      BY <1>3 DEF Load, db
    <2>2. fact[w] \in Facts /\ revision[fact[w]] \in 0 .. MaxRevision /\ revision[fact[w]] # 0
      BY <1>1, <2>1 DEF EventOK, InTry, TypeOK, Resolved
    <2>3. stage'[w] = "publish_authorize" /\ digest'[w] = revision[fact[w]]
      BY <1>1, <2>1 DEF TypeOK, Goto
    <2>4. EventOK(w)'
      BY <2>1, <2>2, <2>3, LimitAssumption DEF EventOK
    <2> QED
      BY <2>1, <2>2, <2>4, AdvanceMoved DEF InTry
  <1>4. CASE PublishAuthorize(w) \/ Publish(w) \/ MarkAuthorize(w) \/ Mark(w)
    <2>1. PICK s \in {"publish", "reply", "mark", "committing"} :
            /\ Goto(w, s) /\ UNCHANGED <<fact, digest, sweep, revision, broker>>
            /\ stage[w] \in InTry
            /\ s \in {"publish", "reply"} => stage[w] \in {"publish_authorize", "publish"}
            /\ s = "mark" => stage[w] = "mark_authorize"
      BY <1>4 DEF PublishAuthorize, Publish, MarkAuthorize, Mark, InTry, db, transport
    <2>2. stage'[w] = s
      BY <1>1, <2>1 DEF TypeOK, Goto
    <2>3. EventOK(w)'
      BY <1>1, <2>1, <2>2 DEF EventOK, InTry
    <2> QED
      BY <1>2, <2>1, <2>3, AdvanceMoved DEF InTry
  <1>5. CASE Acked(w)
    <2>1. PICK ack \in broker : /\ ack = <<fact[w], digest[w]>>
                                /\ digest' = [digest EXCEPT ![w] = ack[2]]
      BY <1>5 DEF Acked
    <2>2. /\ stage[w] = "reply" /\ Goto(w, "mark_authorize")
          /\ UNCHANGED <<fact, sweep, broker>>
      BY <1>5 DEF Acked, transport
    <2>3. stage'[w] = "mark_authorize" /\ digest'[w] = digest[w] /\ digest' = digest
      BY <1>1, <2>1, <2>2 DEF TypeOK, Goto
    <2>4. EventOK(w)'
      BY <1>1, <2>1, <2>2, <2>3 DEF EventOK, InTry
    <2> QED
      BY <1>2, <2>2, <2>3, <2>4, AdvanceMoved DEF InTry
  <1> QED
    BY <1>3, <1>4, <1>5

\* The server applies a COMMIT, or does not.
LEMMA MarkingMoved ==
  ASSUME RInv, Grows, NEW w \in Workers, NEW f \in Facts,
         MarkDurable(w, f) \/ MarkRefused(w, f)
  PROVE  Moved
  <1>1. TypeOK /\ EventOK(w) /\ SweepInv
    BY DEF RInv, EventInv
  <1>2. CASE stage[w] = "committing" /\ fact[w] = f /\ MarkDurable(w, f)
    <2>1. /\ Goto(w, "marked") /\ UNCHANGED <<fact, digest, sweep>>
          /\ state' = [state EXCEPT ![f] = "published"]
      BY <1>2 DEF MarkDurable, Goto
    <2>2. stage'[w] = "marked" /\ fact'[w] \in Published'
      BY <1>1, <1>2, <2>1 DEF TypeOK, Goto, Published
    <2>3. EventOK(w)'
      BY <2>2 DEF EventOK, Published
    <2>4. digest[w] \in 0 .. MaxRevision /\ digest' = [digest EXCEPT ![w] = digest[w]]
      BY <1>1, <2>1 DEF TypeOK
    <2> QED
      BY <1>2, <2>1, <2>3, <2>4, AdvanceMoved DEF InTry
  <1>3. CASE stage[w] = "committing" /\ fact[w] = f /\ MarkRefused(w, f)
    BY <1>3, SettleMoved DEF MarkRefused, InTry, db
  <1>4. CASE ~(stage[w] = "committing" /\ fact[w] = f)
    <2>1. UNCHANGED worker
      BY <1>4 DEF MarkDurable, MarkRefused, worker
    <2> QED
      BY <1>1, <2>1 DEF worker, sweep, Moved, Stays, WorkerTypes, TypeOK
  <1> QED
    BY <1>2, <1>3, <1>4

\* Every step moves the relays as the invariant wants it to.
LEMMA MovedStep ==
  ASSUME RInv, Grows, [Next]_vars
  PROVE  Moved
  <1>1. TypeOK
    BY DEF RInv
  <1>2. ASSUME UNCHANGED worker PROVE Moved
    BY <1>1, <1>2 DEF worker, sweep, Moved, Stays, WorkerTypes, TypeOK
  <1>3. CASE UNCHANGED vars
    BY <1>2, <1>3 DEF vars
  <1>4. ASSUME NEW w \in Workers,
               \/ Unresolved(w) \/ NotAcked(w) \/ FactChanged(w) \/ MarkConflict(w) \/ Reports(w)
        PROVE  Moved
    <2>1. stage[w] \in InTry /\ Settle(w) /\ state' = state
      BY <1>4 DEF Unresolved, NotAcked, FactChanged, MarkConflict, Reports,
         AlreadyPublished, MarkedBefore, Report, InTry, db
    <2> QED
      BY <2>1, SettleMoved
  <1>5. ASSUME NEW w \in Workers,
               \/ Denied(w) \/ NotServed(w) \/ Fail(w) \/ Interrupt(w)
        PROVE  Moved
    <2>1. (stage[w] \in InTry /\ Settle(w)) \/ Throw(w)
      BY <1>5 DEF Denied, NotServed, Fail, Interrupt, InTry
    <2>2. state' = state
      BY <1>5 DEF Denied, NotServed, Fail, Interrupt, db
    <2> QED
      BY <2>1, <2>2, SettleMoved, ThrowMoved
  <1>6. ASSUME NEW w \in Workers,
               \/ RunPage(w) \/ PageAuthorize(w) \/ Authorize(w) \/ Scan(w)
               \/ \E f \in Facts : RelayOne(w, f)
        PROVE  Moved
    BY <1>6, BeginMoved
  <1>7. ASSUME NEW w \in Workers,
               \/ Load(w) \/ PublishAuthorize(w) \/ Publish(w) \/ Acked(w)
               \/ MarkAuthorize(w) \/ Mark(w)
        PROVE  Moved
    BY <1>7, InsideMoved
  <1>8. ASSUME NEW w \in Workers, NEW f \in Facts, MarkDurable(w, f) \/ MarkRefused(w, f)
        PROVE  Moved
    BY <1>8, MarkingMoved
  <1>9. ASSUME NEW f \in Facts, CommitFact(f) \/ AmendHistory(f) PROVE Moved
    BY <1>2, <1>9 DEF CommitFact, AmendHistory
  <1>10. ASSUME NEW r \in Publications, BrokerAppend(r) \/ BrokerDrop(r) PROVE Moved
    BY <1>2, <1>10 DEF BrokerAppend, BrokerDrop
  <1>11. CASE Revoke \/ Grant \/ Suspend \/ Resume
    BY <1>2, <1>11 DEF Revoke, Grant, Suspend, Resume
  <1> QED
    BY <1>3, <1>4, <1>5, <1>6, <1>7, <1>8, <1>9, <1>10, <1>11, StepKinds DEF Quiet

\* The conjuncts about single relays are preserved.
LEMMA WorkerStep ==
  ASSUME RInv, Grows, [Next]_vars
  PROVE  WorkerTypes' /\ EventInv' /\ SweepInv' /\ SweepsSkipNothing'
  <1>1. Moved
    BY MovedStep
  <1>2. \A v \in Workers : WorkerOK(v)
    BY <1>1, StaysOK DEF Moved
  <1> QED
    BY <1>1, <1>2 DEF Moved, WorkerOK, EventInv, SweepInv, SweepsSkipNothing, RInv

-----------------------------------------------------------------------------
(* The rest of the invariant                                               *)

\* Which steps change which of the shared variables.
LEMMA SharedFrame ==
  ASSUME TypeOK, EventInv, [Next]_vars
  PROVE  /\ revision' = revision \/ \E f \in Facts : CommitFact(f) \/ AmendHistory(f)
         /\ served' = served \/ Suspend \/ Resume
         /\ \A m \in marks' \ marks : \E w \in Workers : Mark(w) /\ m = <<w, fact[w]>>
         /\ \A r \in (broker' \cup requests') \ (broker \cup requests) :
              \E w \in Workers : Publish(w) /\ r = <<fact[w], digest[w]>>
  BY StepKinds, QuietFrame, ReportFrame
     DEF vars, db, transport, Load, Publish, Acked, Mark, Fail, Interrupt, MarkDurable, MarkRefused,
         BrokerAppend, BrokerDrop, CommitFact, AmendHistory, Revoke, Grant, Suspend, Resume

\* Only content a fact has had is published, and marked only once it is stored.
LEMMA PublicationStep ==
  ASSUME RInv, Grows, GlobalTypes', [Next]_vars
  PROVE  PublicationInv'
  <1>1. TypeOK /\ PublicationInv /\ EventInv
    BY DEF RInv
  <1>2. \A r \in broker \cup requests : r[1] \in Facts /\ r[2] \in Nat
    BY <1>1, LimitAssumption DEF TypeOK, Publications
  <1>3. \A f \in Facts : revision[f] \in Nat /\ revision'[f] \in Nat
    BY <1>1, LimitAssumption DEF TypeOK, GlobalTypes
  <1>4. \A r \in broker \cup requests : r[2] \in 1 .. revision'[r[1]]
    BY <1>1, <1>2, <1>3 DEF PublicationInv, Grows
  <1>5. \A m \in marks : m[2] \in Facts
    BY <1>1 DEF TypeOK
  <1>6. (\A f \in Facts : state'[f] = "absent" => revision'[f] = 0)
    <2> SUFFICES ASSUME NEW f \in Facts, state'[f] = "absent"
                 PROVE  revision'[f] = 0
      OBVIOUS
    <2>1. state[f] = "absent" /\ revision[f] = 0
      BY <1>1 DEF Grows, PublicationInv
    <2>2. CASE \E g \in Facts : CommitFact(g)
      BY <1>1, <2>1, <2>2 DEF CommitFact, TypeOK
    <2>3. CASE \E g \in Facts : AmendHistory(g)
      BY <1>1, <2>1, <2>3 DEF AmendHistory, TypeOK
    <2>4. CASE ~(\E g \in Facts : CommitFact(g) \/ AmendHistory(g))
      <3>1. revision' = revision
        BY <1>1, <2>4, SharedFrame
      <3> QED
        BY <2>1, <3>1
    <2> QED
      BY <2>2, <2>3, <2>4
  <1>7. \A r \in broker' \cup requests' :
          r \in broker \cup requests \/ \E w \in Workers : Publish(w) /\ r = <<fact[w], digest[w]>>
    BY <1>1, SharedFrame
  <1>8. \A r \in broker' \cup requests' : r[2] \in 1 .. revision'[r[1]]
    <2> SUFFICES ASSUME NEW w \in Workers, Publish(w)
                 PROVE  digest[w] \in 1 .. revision'[fact[w]]
      BY <1>4, <1>7
    <2>1. fact[w] \in Facts /\ digest[w] \in 1 .. revision[fact[w]]
      BY <1>1 DEF Publish, EventInv, EventOK, InTry
    <2> QED
      BY <1>3, <2>1 DEF Grows
  <1>9. \A m \in marks' : m \in marks \/ \E w \in Workers : Mark(w) /\ m = <<w, fact[w]>>
    BY <1>1, SharedFrame
  <1>10. ASSUME NEW m \in marks' PROVE served' /\ <<m[2], revision'[m[2]]>> \in broker'
    <2>1. CASE m \in marks
      <3>1. served /\ <<m[2], revision[m[2]]>> \in broker
        BY <1>1, <2>1 DEF PublicationInv
      <3>2. revision'[m[2]] = revision[m[2]]
        <4>1. m[2] \in Facts /\ revision[m[2]] # 0
          <5>1. revision[m[2]] \in 1 .. revision[m[2]]
            BY <3>1, <1>1 DEF PublicationInv
          <5> QED
            BY <2>1, <1>3, <1>5, <5>1
        <4>2. state[m[2]] # "absent" /\ RowLocked(m[2])
          BY <1>1, <2>1, <4>1 DEF PublicationInv, RowLocked
        <4>3. ASSUME NEW f \in Facts, CommitFact(f) \/ AmendHistory(f)
              PROVE  f # m[2] /\ revision'[m[2]] = revision[m[2]]
          BY <1>1, <4>1, <4>2, <4>3 DEF CommitFact, AmendHistory, TypeOK
        <4> QED
          BY <1>1, <4>3, SharedFrame
      <3>3. served'
        <4>1. PlacementShared
          BY <2>1 DEF PlacementShared
        <4>2. ~Suspend /\ (Resume => served')
          BY <4>1, Zenon DEF Suspend, Resume
        <4> QED
          BY <1>1, <3>1, <4>2, SharedFrame
      <3> QED
        BY <3>1, <3>2, <3>3 DEF Grows
    <2>2. ASSUME NEW w \in Workers, Mark(w), m = <<w, fact[w]>>
          PROVE  served' /\ <<m[2], revision'[m[2]]>> \in broker'
      <3>1. served' = served /\ served /\ revision' = revision /\ broker' = broker
        BY <2>2 DEF Mark, db, transport
      <3>2. <<fact[w], digest[w]>> \in broker /\ revision[fact[w]] = digest[w]
        BY <1>1, <2>2 DEF Mark, AckMatches, EventInv, EventOK
      <3> QED
        BY <2>2, <3>1, <3>2
    <2> QED
      BY <1>9, <2>1, <2>2
  <1> QED
    BY <1>6, <1>8, <1>10 DEF PublicationInv

\* Only an authority check leads to a publication or a marking.
LEMMA GuardedStage ==
  ASSUME TypeOK, EventInv, [Next]_vars, NEW v \in Workers, stage'[v] \in {"publish", "mark"}
  PROVE  stage'[v] = stage[v] \/ PublishAuthorize(v) \/ MarkAuthorize(v)
  <1> USE DEF TypeOK, Goto, worker
  <1>1. ASSUME NEW w \in Workers, Settle(w) \/ Throw(w)
        PROVE  stage'[v] = stage[v]
    BY <1>1 DEF Settle, Process, Throw
  <1>2. ASSUME NEW w \in Workers,
               \/ Unresolved(w) \/ Reports(w) \/ NotAcked(w) \/ FactChanged(w) \/ MarkConflict(w)
               \/ Denied(w) \/ NotServed(w) \/ Fail(w) \/ Interrupt(w)
        PROVE  stage'[v] = stage[v]
    BY <1>1, <1>2, ReportFrame
       DEF Unresolved, NotAcked, FactChanged, MarkConflict, Denied, NotServed, Fail, Interrupt
  <1>3. ASSUME NEW w \in Workers, Scan(w) \/ \E f \in Facts : RelayOne(w, f)
        PROVE  stage'[v] = stage[v]
    BY <1>3 DEF Scan, RelayOne, Process
  <1>4. ASSUME NEW w \in Workers,
               RunPage(w) \/ PageAuthorize(w) \/ Authorize(w) \/ Load(w) \/ Publish(w) \/ Acked(w)
               \/ Mark(w)
        PROVE  stage'[v] = stage[v]
    BY <1>4 DEF RunPage, PageAuthorize, Authorize, Load, Publish, Acked, Mark
  <1>5. ASSUME NEW w \in Workers, PublishAuthorize(w) \/ MarkAuthorize(w)
        PROVE  stage'[v] = stage[v] \/ PublishAuthorize(v) \/ MarkAuthorize(v)
    BY <1>5 DEF PublishAuthorize, MarkAuthorize
  <1>6. ASSUME NEW w \in Workers, NEW f \in Facts, MarkDurable(w, f) \/ MarkRefused(w, f)
        PROVE  stage'[v] = stage[v]
    BY <1>1, <1>6 DEF MarkDurable, MarkRefused
  <1>7. ASSUME NEW f \in Facts, CommitFact(f) \/ AmendHistory(f)
        PROVE  stage'[v] = stage[v]
    BY <1>7 DEF CommitFact, AmendHistory
  <1>8. ASSUME NEW r \in Publications, BrokerAppend(r) \/ BrokerDrop(r)
        PROVE  stage'[v] = stage[v]
    BY <1>8 DEF BrokerAppend, BrokerDrop
  <1>9. CASE Revoke \/ Grant \/ Suspend \/ Resume
    BY <1>9 DEF Revoke, Grant, Suspend, Resume
  <1>10. CASE UNCHANGED vars
    BY <1>10 DEF vars
  <1> QED
    BY <1>2, <1>3, <1>4, <1>5, <1>6, <1>7, <1>8, <1>9, <1>10, StepKinds DEF Quiet

\* Which steps change what is known of the grant.
LEMMA WitnessFrame ==
  ASSUME TypeOK, EventInv, [Next]_vars
  PROVE  \/ \E w \in Workers : /\ Load(w) \/ Acked(w)
                               /\ witnessed' = [witnessed EXCEPT ![w] = granted]
                               /\ granted' = granted
         \/ Grant /\ witnessed' = [w \in Workers |-> TRUE]
         \/ witnessed' = witnessed /\ (granted' = granted \/ granted' = FALSE)
  BY StepKinds, QuietFrame, ReportFrame, Zenon
     DEF vars, ghosts, Load, Publish, Acked, Mark, Fail, Interrupt, MarkDurable, MarkRefused,
         BrokerAppend, BrokerDrop, CommitFact, AmendHistory, Revoke, Grant, Suspend, Resume

\* Authority is never older than the last answer that a relay acts on.
LEMMA GrantStep ==
  ASSUME RInv, [Next]_vars
  PROVE  GrantInv' /\ GrantIsFresh'
  <1>1. TypeOK /\ EventInv /\ GrantInv /\ GrantIsFresh
    BY DEF RInv
  <1>2. \A v \in Workers : witnessed[v] \in BOOLEAN
    BY <1>1 DEF TypeOK
  <1>3. ASSUME NEW v \in Workers, granted' PROVE witnessed'[v]
    <2>1. ASSUME NEW w \in Workers, witnessed' = [witnessed EXCEPT ![w] = granted],
                 granted' = granted
          PROVE  witnessed'[v]
      BY <1>1, <1>3, <2>1, Zenon DEF GrantInv, TypeOK
    <2>2. CASE witnessed' = witnessed /\ (granted' = granted \/ granted' = FALSE)
      BY <1>1, <1>3, <2>2, Zenon DEF GrantInv
    <2>3. CASE witnessed' = [w \in Workers |-> TRUE]
      BY <2>3
    <2> QED
      BY <1>1, <2>1, <2>2, <2>3, WitnessFrame
  <1>4. ASSUME NEW v \in Workers, stage'[v] \in {"publish", "mark"} PROVE witnessed'[v]
    <2>1. witnessed[v]
      BY <1>1, <1>4, GuardedStage, Zenon
         DEF PublishAuthorize, MarkAuthorize, GrantInv, GrantIsFresh
    <2>2. ASSUME NEW w \in Workers, Load(w) \/ Acked(w),
                 witnessed' = [witnessed EXCEPT ![w] = granted]
          PROVE  witnessed'[v]
      <3>1. stage'[w] \notin {"publish", "mark"}
        BY <1>1, <2>2 DEF Load, Acked, Goto, TypeOK
      <3>2. v # w
        BY <1>4, <3>1
      <3> QED
        BY <1>1, <2>1, <2>2, <3>2, Zenon DEF TypeOK
    <2>3. CASE witnessed' = [w \in Workers |-> TRUE]
      BY <2>3
    <2>4. CASE witnessed' = witnessed
      BY <2>1, <2>4
    <2> QED
      BY <1>1, <2>2, <2>3, <2>4, WitnessFrame
  <1> QED
    BY <1>3, <1>4 DEF GrantInv, GrantIsFresh

\* Only what is published is reported, and it stays published.
LEMMA ToldStep ==
  ASSUME RInv, Grows, [Next]_vars
  PROVE  (told \subseteq Published)'
  <1>1. TypeOK /\ EventInv /\ told \subseteq Published
    BY DEF RInv
  <1>2. Published \subseteq Published'
    BY DEF Grows, Published
  <1>3. told' = told \/ \E w \in Workers : Reports(w) /\ told' = told \cup {fact[w]}
    BY <1>1, StepKinds, QuietFrame, ReportFrame
       DEF vars, ghosts, Load, Publish, Acked, Mark, Fail, Interrupt, MarkDurable, MarkRefused,
           BrokerAppend, BrokerDrop, CommitFact, AmendHistory, Revoke, Grant, Suspend, Resume
  <1> QED
    BY <1>1, <1>2, <1>3, ReportFrame

-----------------------------------------------------------------------------
(* The theorems                                                            *)

\* The invariant holds initially.
LEMMA InitRInv == Init => RInv
  <1> SUFFICES ASSUME Init PROVE RInv
    OBVIOUS
  <1>1. 0 \in 0 .. FactCount /\ 0 \in 0 .. MaxRevision /\ 0 \in 0 .. MaxFailures
    BY FactAssumption, LimitAssumption
  <1>2. TypeOK
    BY <1>1 DEF Init, TypeOK, Stages
  <1>3. EventInv /\ SweepInv
    BY DEF Init, EventInv, EventOK, SweepInv, SweepOK, InTry
  <1>4. PublicationInv
    BY DEF Init, PublicationInv
  <1>5. GrantInv /\ GrantIsFresh
    BY DEF Init, GrantInv, GrantIsFresh
  <1> QED
    BY <1>2, <1>3, <1>4, <1>5 DEF Init, RInv, SweepsSkipNothing

\* Every step of the specification preserves the invariant.
LEMMA NextRInv == RInv /\ [Next]_vars => RInv'
  <1> SUFFICES ASSUME RInv, [Next]_vars PROVE RInv'
    OBVIOUS
  <1>1. GlobalTypes' /\ Grows
    BY GlobalStep DEF RInv
  <1>2. WorkerTypes' /\ EventInv' /\ SweepInv' /\ SweepsSkipNothing'
    BY <1>1, WorkerStep
  <1>3. TypeOK'
    BY <1>1, <1>2, Zenon DEF TypeOK, GlobalTypes, WorkerTypes
  <1>4. PublicationInv'
    BY <1>1, PublicationStep
  <1> QED
    BY <1>1, <1>2, <1>3, <1>4, GrantStep, ToldStep DEF RInv

\* Whatever the relays, their hosts, the database and the broker do, the relay's
\* bookkeeping is right.
THEOREM Invariance == Spec => []RInv
  BY InitRInv, NextRInv, PTL DEF Spec

\* Type correctness of the relay, the outbox and the broker.
THEOREM TypeCorrect == Spec => []TypeOK
  <1>1. RInv => TypeOK
    BY DEF RInv
  <1> QED
    BY <1>1, Invariance, PTL

\* A finished sweep has processed whatever was pending throughout.
THEOREM NothingSkipped == Spec => []SweepsSkipNothing
  <1>1. RInv => SweepsSkipNothing
    BY DEF RInv
  <1> QED
    BY <1>1, Invariance, PTL

\* A relay publishes and marks on a grant it did not have to remember.
THEOREM FreshGrant == Spec => []GrantIsFresh
  <1>1. RInv => GrantIsFresh
    BY DEF RInv
  <1> QED
    BY <1>1, Invariance, PTL

\* Facts are marked only while the scope is active where the relays are bound.
THEOREM PlacementKept == Spec => MarksUnderPlacement
  <1>1. RInv /\ [Next]_vars =>
          [\A f \in Facts : f \in Pending /\ state'[f] = "published" => served]_vars
    <2> SUFFICES ASSUME RInv, [Next]_vars, NEW f \in Facts,
                        f \in Pending, state'[f] = "published"
                 PROVE  served
      OBVIOUS
    <2>1. TypeOK /\ EventInv /\ PublicationInv
      BY DEF RInv
    <2>2. state[f] = "pending"
      BY DEF Pending
    <2>3. \E w \in Workers, g \in Facts : MarkDurable(w, g)
      BY <2>1, <2>2, StepKinds, QuietFrame, ReportFrame
         DEF vars, db, Load, Publish, Acked, Mark, Fail, Interrupt, MarkRefused,
             BrokerAppend, BrokerDrop, CommitFact, AmendHistory, Revoke, Grant, Suspend, Resume,
             TypeOK
    <2> QED
      BY <2>1, <2>3 DEF MarkDurable, PublicationInv
  <1> QED
    BY <1>1, Invariance, PTL DEF Spec, MarksUnderPlacement

\* The relay implements the at-least-once feed.
THEOREM Refinement == Spec => ImplementsFeed
  <1>1. Init => Feed!Init
    BY DEF Init, Feed!Init, Published
  <1>2. RInv /\ RInv' /\ [Next]_vars => [Feed!Next]_(Feed!vars)
    <2> SUFFICES ASSUME RInv, [Next]_vars
                 PROVE  Feed!Next \/ UNCHANGED <<revision, broker, Published, told>>
      BY DEF Feed!vars
    <2>1. TypeOK /\ EventInv /\ PublicationInv
      BY DEF RInv
    <2>2. CASE UNCHANGED vars
      BY <2>2 DEF vars, db, transport, ghosts, Published
    <2>3. ASSUME NEW w \in Workers,
                 Quiet(w) \/ Load(w) \/ Publish(w) \/ Acked(w) \/ Mark(w) \/ Fail(w) \/ Interrupt(w)
          PROVE  UNCHANGED <<revision, broker, Published, told>>
      BY <2>3, QuietFrame
         DEF db, transport, ghosts, Published, Load, Publish, Acked, Mark, Fail, Interrupt
    <2>4. ASSUME NEW w \in Workers, Reports(w) PROVE Feed!Next
      <3>1. fact[w] \in Facts /\ Feed!Report(fact[w])
        BY <2>1, <2>4, ReportFrame DEF Feed!Report, Published, db, transport
      <3> QED
        BY <3>1 DEF Feed!Next
    <2>5. ASSUME NEW w \in Workers, NEW f \in Facts, MarkDurable(w, f) PROVE Feed!Next
      <3>1. <<f, revision[f]>> \in broker
        BY <2>1, <2>5 DEF MarkDurable, PublicationInv
      <3>2. Published' = Published \cup {f}
        BY <2>1, <2>5 DEF MarkDurable, Published, TypeOK
      <3>3. Feed!Acknowledge(f)
        BY <2>5, <3>1, <3>2 DEF MarkDurable, Feed!Acknowledge, transport, ghosts
      <3> QED
        BY <3>3 DEF Feed!Next
    <2>6. ASSUME NEW w \in Workers, NEW f \in Facts, MarkRefused(w, f)
          PROVE  UNCHANGED <<revision, broker, Published, told>>
      BY <2>6 DEF MarkRefused, db, transport, ghosts, Published
    <2>7. ASSUME NEW f \in Facts, CommitFact(f)
          PROVE  Feed!Next \/ UNCHANGED <<revision, broker, Published, told>>
      <3>1. revision[f] = 0 /\ state[f] = "absent"
        BY <2>1, <2>7 DEF CommitFact, PublicationInv
      <3>2. Published' = Published
        BY <2>1, <2>7, <3>1 DEF CommitFact, Published, TypeOK
      <3>3. PICK r \in {0, 1} : revision' = [revision EXCEPT ![f] = r]
        BY <2>7 DEF CommitFact
      <3>4. CASE r = 0
        BY <2>1, <2>7, <3>1, <3>2, <3>3, <3>4 DEF CommitFact, TypeOK, transport, ghosts
      <3>5. CASE r = 1
        <4>1. Feed!Write(f)
          <5>1. revision[f] < MaxRevision /\ revision[f] + 1 = 1
            BY <3>1, LimitAssumption
          <5>2. revision' = [revision EXCEPT ![f] = revision[f] + 1]
            BY <3>3, <3>5, <5>1
          <5>3. UNCHANGED <<broker, Published, told>>
            BY <2>7, <3>2 DEF CommitFact, transport, ghosts
          <5> QED
            BY <5>1, <5>2, <5>3 DEF Feed!Write
        <4> QED
          BY <4>1 DEF Feed!Next
      <3> QED
        BY <3>4, <3>5
    <2>8. ASSUME NEW f \in Facts, AmendHistory(f) PROVE Feed!Next
      <3>1. Feed!Write(f)
        BY <2>8 DEF AmendHistory, Feed!Write, transport, ghosts, Published
      <3> QED
        BY <3>1 DEF Feed!Next
    <2>9. ASSUME NEW r \in Publications, BrokerAppend(r) PROVE Feed!Next
      <3>1. r[1] \in Facts /\ r[2] \in 1 .. MaxRevision /\ r = <<r[1], r[2]>>
        BY DEF Publications
      <3>2. r[2] \in 1 .. revision[r[1]]
        BY <2>1, <2>9 DEF BrokerAppend, PublicationInv
      <3>3. Feed!Deliver(r[1], r[2])
        BY <2>9, <3>1, <3>2 DEF BrokerAppend, Feed!Deliver, db, ghosts, Published
      <3> QED
        BY <3>1, <3>3 DEF Feed!Next
    <2>10. ASSUME NEW r \in Publications, BrokerDrop(r)
           PROVE  UNCHANGED <<revision, broker, Published, told>>
      BY <2>10 DEF BrokerDrop, db, ghosts, Published
    <2>11. CASE Revoke \/ Grant \/ Suspend \/ Resume
      BY <2>11 DEF Revoke, Grant, Suspend, Resume, db, transport, ghosts, Published
    <2> QED
      BY <2>2, <2>3, <2>4, <2>5, <2>6, <2>7, <2>8, <2>9, <2>10, <2>11, StepKinds
  <1> QED
    BY <1>1, <1>2, Invariance, PTL DEF Spec, ImplementsFeed, Feed!Spec
=============================================================================
