------------------------- MODULE StatusChangeProofs -------------------------
(***************************************************************************)
(* Safety of StatusChange for any number of clients, packages, actors,     *)
(* keys and event ids: the invariant IInv is inductive.  There is a lemma  *)
(* per conjunct of IInv; each has a step per action that can disturb it.   *)
(***************************************************************************)
EXTENDS StatusChange, TLAPS

\* The transition table maps statuses to sets of statuses, and Done is final.
LEMMA TransitionsFacts ==
  /\ Transitions \in [Statuses -> SUBSET Statuses]
  /\ Transitions["Done"] = {}
  <1>1. \A t \in Statuses : <<"Done", t>> \notin Moves
    BY DEF Moves
  <1>2. "Done" \in Statuses
    BY DEF Statuses
  <1>3. Transitions["Done"] = {t \in Statuses : <<"Done", t>> \in Moves}
    BY <1>2 DEF Transitions
  <1>4. Transitions \in [Statuses -> SUBSET Statuses]
    BY DEF Transitions
  <1> QED
    BY <1>1, <1>3, <1>4

\* What is taken out of a request: its key, package and intent have their types.
LEMMA RequestFacts ==
  ASSUME NEW r \in Requests
  PROVE  /\ KeyHash(r) \in Actors \X Keys
         /\ Package(r) \in Baselines \X Ids
         /\ Intent(r) \in Intents
         /\ r.expected \in Versions /\ r.status \in Statuses
         /\ r.evidence \in Evidence \cup {None}
         /\ r.id = Package(r)[2] /\ r.baseline = Package(r)[1]
         /\ r.id = Intent(r).id /\ r.status = Intent(r).status
         /\ r.expected = Intent(r).expected /\ r.evidence = Intent(r).evidence
  BY RequestAssumption DEF KeyHash, Package, Intent, Intents

\* Ending a call preserves the types of the session variables.
LEMMA FinishType ==
  ASSUME TypeOK, NEW c \in Clients, Finish(c)
  PROVE  /\ stage' \in [Clients -> Stages]
         /\ req' \in [Clients -> Requests \cup {None}]
         /\ bind' \in [Clients -> 1 .. MaxEpoch]
         /\ snap' \in [Clients -> Snapshots \cup {None}]
         /\ draft' \in [Clients -> Drafts \cup {None}]
  BY DEF TypeOK, Finish, Goto, Stages

\* What StatusWrite leaves in the draft.
LEMMA StatusWriteDraft ==
  ASSUME TypeOK, SessionInv, ChecksInv, NEW c \in Clients, StatusWrite(c)
  PROVE  \E id \in FreshIds : /\ NewDraft(c, id) \in Drafts
                              /\ draft' = [draft EXCEPT ![c] = NewDraft(c, id)]
                              /\ draft'[c] = NewDraft(c, id)
  <1>1. req[c] \in Requests /\ Package(req[c]) \in Packages
    BY DEF StatusWrite, SessionInv, SessionOK, ChecksInv, ChecksOK, HoldsRow, BeforeWrite
  <1>2. row[Package(req[c])] \in Rows /\ row[Package(req[c])].version + 1 \in Versions
    BY <1>1, MaxVersionAssumption DEF StatusWrite, TypeOK, Rows, Versions
  <1>3. PICK id \in FreshIds : draft' = [draft EXCEPT ![c] = NewDraft(c, id)]
    BY DEF StatusWrite
  <1>4. NewDraft(c, id).event \in Events
    BY <1>1, <1>2, RequestFacts DEF NewDraft, Events, Rows, FreshIds
  <1>5. NewDraft(c, id) \in Drafts
    BY <1>4 DEF NewDraft, Drafts, Tables
  <1> QED
    BY <1>3, <1>5 DEF TypeOK

\* Every step preserves the types.
LEMMA TypeStep ==
  ASSUME TypeOK, SessionInv, ChecksInv, [Next]_vars
  PROVE  TypeOK'
  <1> USE DEF db, session, ghosts
  <1>1. ASSUME NEW c \in Clients, NEW r \in Requests, Start(c, r) PROVE TypeOK'
    BY <1>1 DEF TypeOK, Start, Goto, Stages, BeforeTransaction
  <1>2. ASSUME NEW c \in Clients, Authorize(c) PROVE TypeOK'
    BY <1>2 DEF TypeOK, Authorize, Goto, Stages, BeforeTransaction
  <1>3. ASSUME NEW c \in Clients, LookupReplay(c) PROVE TypeOK'
    <2>1. req[c] \in Requests
      BY <1>3 DEF LookupReplay, SessionInv, SessionOK
    <2>2. PICK e \in ReceiptsFor(req[c], history) : Answer(c, e)
      BY <1>3 DEF LookupReplay
    <2>3. e \in Events
      BY DEF ReceiptsFor, TypeOK
    <2> QED
      BY <1>3, <2>1, <2>2, <2>3, FinishType DEF TypeOK, LookupReplay, Answer
  <1>4. ASSUME NEW c \in Clients, LookupMiss(c) PROVE TypeOK'
    BY <1>4 DEF TypeOK, LookupMiss, Goto, Stages, BeforeTransaction
  <1>5. ASSUME NEW c \in Clients, Verify(c) PROVE TypeOK'
    <2>1. req[c] \in Requests
      BY <1>5 DEF Verify, SessionInv, SessionOK
    <2>2. <<req[c].id, req[c].expected, req[c].evidence>> \in Ids \X Versions \X Evidence
      BY <1>5, <2>1, RequestAssumption DEF Verify
    <2> QED
      BY <1>5, <2>2 DEF TypeOK, Verify, Goto, Stages, BeforeTransaction
  <1>6. ASSUME NEW c \in Clients, Begin(c) PROVE TypeOK'
    BY <1>6 DEF TypeOK, Snapshots, Begin, Goto, Stages, InTransaction, BeforeLock
  <1>7. ASSUME NEW c \in Clients, TxReplay(c) PROVE TypeOK'
    <2>1. req[c] \in Requests /\ snap[c].history \subseteq Events
      BY <1>7 DEF TxReplay, SessionInv, SessionOK, TypeOK, Snapshots, InTransaction, BeforeLock
    <2>2. PICK e \in ReceiptsFor(req[c], snap[c].history) : Answer(c, e)
      BY <1>7 DEF TxReplay
    <2>3. e \in Events
      BY <2>1 DEF ReceiptsFor
    <2> QED
      BY <1>7, <2>1, <2>2, <2>3, FinishType DEF TypeOK, TxReplay, Answer
  <1>8. ASSUME NEW c \in Clients, TxMiss(c) PROVE TypeOK'
    BY <1>8 DEF TypeOK, TxMiss, Goto, Stages, InTransaction, BeforeLock
  <1>9. ASSUME NEW c \in Clients, Lock(c) PROVE TypeOK'
    BY <1>9 DEF TypeOK, Lock, Goto, Stages, InTransaction, BeforeWrite
  <1>10. ASSUME NEW c \in Clients, VersionConflict(c) PROVE TypeOK'
    <2>1. req[c] \in Requests
      BY <1>10 DEF VersionConflict, SessionInv, SessionOK
    <2> QED
      BY <1>10, <2>1, FinishType DEF TypeOK, VersionConflict
  <1>11. ASSUME NEW c \in Clients, PredecessorsVerified(c) PROVE TypeOK'
    BY <1>11 DEF TypeOK, PredecessorsVerified, Goto, Stages, InTransaction, BeforeWrite
  <1>12. ASSUME NEW c \in Clients, StatusWrite(c) PROVE TypeOK'
    <2>3. draft' \in [Clients -> Drafts \cup {None}]
      BY <1>12, StatusWriteDraft DEF TypeOK
    <2> QED
      BY <1>12, <2>3 DEF TypeOK, StatusWrite, Goto, Stages, InTransaction, AfterWrite
  <1>13. ASSUME NEW c \in Clients, HistoryWrite(c) PROVE TypeOK'
    BY <1>13 DEF TypeOK, HistoryWrite, Writes, Goto, Stages, InTransaction, AfterWrite,
                 SessionInv, SessionOK, HasDraft, Drafts, Tables
  <1>14. ASSUME NEW c \in Clients, OutboxWrite(c) PROVE TypeOK'
    BY <1>14 DEF TypeOK, OutboxWrite, Writes, Goto, Stages, InTransaction, AfterWrite,
                 SessionInv, SessionOK, HasDraft, Drafts, Tables
  <1>15. ASSUME NEW c \in Clients, SendCommit(c) PROVE TypeOK'
    BY <1>15 DEF TypeOK, SendCommit, CommitOf, Goto, Stages, InTransaction, AfterWrite,
                 SessionInv, SessionOK, HasDraft, Drafts, Commits
  <1>16. ASSUME NEW c \in Clients, Return(c) PROVE TypeOK'
    <2>1. req[c] \in Requests /\ draft[c].event \in Events
      BY <1>16 DEF Return, SessionInv, SessionOK, HasDraft, TypeOK, Drafts
    <2> QED
      BY <1>16, <2>1, FinishType DEF TypeOK, Return, Answer
  <1>17. ASSUME NEW c \in Clients, Reject(c) PROVE TypeOK'
    BY <1>17, FinishType DEF TypeOK, Reject
  <1>18. ASSUME NEW c \in Clients, Fail(c) PROVE TypeOK'
    BY <1>18, FinishType DEF TypeOK, Fail
  <1>19. ASSUME NEW t \in sent, CommitDurable(t) PROVE TypeOK'
    <2>1. t \in Commits /\ t.event \in Events
      BY DEF TypeOK, Commits
    <2>2. row' \in [Packages -> Rows]
      BY <1>19, <2>1 DEF CommitDurable, TypeOK, Events, Intents, Rows
    <2>3. history' \subseteq Events /\ outbox' \subseteq EventIds
      BY <1>19, <2>1 DEF CommitDurable, TypeOK, Events
    <2>4. stage' \in [Clients -> Stages]
      BY <1>19, <2>1 DEF CommitDurable, TypeOK, Commits, Stages
    <2> QED
      BY <1>19, <2>2, <2>3, <2>4 DEF CommitDurable, TypeOK
  <1>20. ASSUME NEW t \in sent, CommitRefused(t) PROVE TypeOK'
    <2>1. t.client \in Clients
      BY DEF TypeOK, Commits
    <2> QED
      BY <1>20, <2>1, FinishType DEF CommitRefused, TypeOK
  <1>21. ASSUME MovePlacement \/ SetScopeState PROVE TypeOK'
    BY <1>21, BoundAssumption DEF MovePlacement, SetScopeState, TypeOK
  <1>22. CASE UNCHANGED vars
    BY <1>22 DEF vars, TypeOK
  <1> QED
    BY <1>1, <1>2, <1>3, <1>4, <1>5, <1>6, <1>7, <1>8, <1>9, <1>10, <1>11, <1>12, <1>13,
       <1>14, <1>15, <1>16, <1>17, <1>18, <1>19, <1>20, <1>21, <1>22
       DEF Next, Proceed, ResolveCommit

-----------------------------------------------------------------------------
\* A call that ends, or a step that leaves its session alone, keeps SessionOK.
LEMMA FinishSession ==
  ASSUME TypeOK, SessionInv, NEW c \in Clients, Finish(c),
         UNCHANGED <<placement, history>>
  PROVE  SessionInv'
  <1> SUFFICES ASSUME NEW d \in Clients PROVE SessionOK(d)'
    BY DEF SessionInv
  <1>1. CASE d = c
    BY <1>1 DEF Finish, Goto, TypeOK, SessionOK, HasDraft, InTransaction,
                BeforeLock, BeforeWrite, AfterWrite
  <1>2. CASE d # c
    <2>1. stage'[d] = stage[d] /\ req'[d] = req[d] /\ bind'[d] = bind[d]
          /\ snap'[d] = snap[d] /\ draft'[d] = draft[d]
      BY <1>2 DEF Finish, Goto, TypeOK
    <2> QED
      BY <2>1 DEF SessionInv, SessionOK, HasDraft
  <1> QED
    BY <1>1, <1>2

\* A step leaves every caller with the request, placement and snapshot of its stage.
LEMMA SessionStep ==
  ASSUME TypeOK, SessionInv, ChecksInv, SentInv, [Next]_vars
  PROVE  SessionInv'
  <1> USE DEF db, session, ghosts
  <1> DEFINE Stays(d) == /\ stage'[d] = stage[d] /\ req'[d] = req[d] /\ bind'[d] = bind[d]
                         /\ snap'[d] = snap[d] /\ draft'[d] = draft[d]
  <1>s. ASSUME NEW d \in Clients, Stays(d), placement' = placement, history \subseteq history'
        PROVE  SessionOK(d)'
    BY <1>s DEF SessionInv, SessionOK, HasDraft
  <1> HIDE DEF Stays
  <1> DEFINE Steps(c) == \/ Authorize(c) \/ LookupMiss(c) \/ Verify(c) \/ Begin(c) \/ TxMiss(c)
                         \/ Lock(c) \/ PredecessorsVerified(c) \/ SendCommit(c)
  <1>1. ASSUME NEW c \in Clients, NEW r \in Requests, Start(c, r), NEW d \in Clients
        PROVE  SessionOK(d)'
    <2>1. CASE d # c
      BY <1>1, <2>1, <1>s DEF Start, Goto, TypeOK, Stays
    <2>2. CASE d = c
      BY <1>1, <2>2 DEF Start, Goto, TypeOK, SessionInv, SessionOK, HasDraft, InTransaction,
                        BeforeLock, BeforeWrite, AfterWrite
    <2> QED
      BY <2>1, <2>2
  <1>2. ASSUME NEW c \in Clients, Steps(c), NEW d \in Clients
        PROVE  SessionOK(d)'
    <2>1. CASE d # c
      <3>1. Stays(d) /\ placement' = placement /\ history' = history
        BY <1>2, <2>1 DEF Goto, TypeOK, Stays, Authorize, LookupMiss, Verify, Begin,
                          TxMiss, Lock, PredecessorsVerified, SendCommit
      <3> QED
        BY <3>1, <1>s
    <2>2. CASE d = c /\ Authorize(c)
      BY <2>2 DEF Authorize, Goto, TypeOK, SessionInv, SessionOK, HasDraft, InTransaction,
                  BeforeLock, BeforeWrite, AfterWrite
    <2>3. CASE d = c /\ LookupMiss(c)
      BY <2>3 DEF LookupMiss, Goto, TypeOK, SessionInv, SessionOK, HasDraft, InTransaction,
                  BeforeLock, BeforeWrite, AfterWrite
    <2>4. CASE d = c /\ Verify(c)
      BY <2>4 DEF Verify, Goto, TypeOK, SessionInv, SessionOK, HasDraft, InTransaction,
                  BeforeLock, BeforeWrite, AfterWrite
    <2>5. CASE d = c /\ Begin(c)
      <3>1. None # [row |-> row, history |-> history]
        BY SentinelAssumption DEF Snapshots, TypeOK
      <3> QED
        BY <2>5, <3>1 DEF Begin, PlacementMatches, Goto, TypeOK, SessionInv, SessionOK,
                          HasDraft, InTransaction, BeforeLock, BeforeWrite, AfterWrite
    <2>6. CASE d = c /\ TxMiss(c)
      BY <2>6 DEF TxMiss, Goto, TypeOK, SessionInv, SessionOK, HasDraft, InTransaction,
                  BeforeLock, BeforeWrite, AfterWrite
    <2>7. CASE d = c /\ Lock(c)
      BY <2>7 DEF Lock, Goto, TypeOK, SessionInv, SessionOK, HasDraft, InTransaction,
                  BeforeLock, BeforeWrite, AfterWrite
    <2>8. CASE d = c /\ PredecessorsVerified(c)
      BY <2>8 DEF PredecessorsVerified, Goto, TypeOK, SessionInv, SessionOK, HasDraft,
                  InTransaction, BeforeLock, BeforeWrite, AfterWrite
    <2>9. CASE d = c /\ SendCommit(c)
      BY <2>9 DEF SendCommit, Goto, TypeOK, SessionInv, SessionOK, HasDraft, InTransaction,
                  BeforeLock, BeforeWrite, AfterWrite
    <2> QED
      BY <1>2, <2>1, <2>2, <2>3, <2>4, <2>5, <2>6, <2>7, <2>8, <2>9
  <1>3. ASSUME NEW c \in Clients, StatusWrite(c), NEW d \in Clients
        PROVE  SessionOK(d)'
    <2>1. CASE d # c
      BY <1>3, <2>1, <1>s DEF StatusWrite, Goto, TypeOK, Stays
    <2>2. CASE d = c
      <3>1. PICK id \in FreshIds : draft'[c] = NewDraft(c, id) /\ NewDraft(c, id) \in Drafts
        BY <1>3, StatusWriteDraft
      <3>2. draft'[c] # None
        BY <3>1, SentinelAssumption
      <3>3. /\ draft'[c].event.package = Package(req[c])
            /\ draft'[c].event.keyHash = KeyHash(req[c])
            /\ draft'[c].event.intent = Intent(req[c])
            /\ draft'[c].writes = {"work_packages"}
        BY <3>1 DEF NewDraft
      <3>4. /\ stage[c] = "status_write" /\ stage'[c] = "history_write"
            /\ UNCHANGED <<placement, req, bind, snap>>
        BY <1>3 DEF StatusWrite, Goto, TypeOK, db
      <3>5. /\ req[c] \in Requests /\ snap[c] # None
            /\ bind[c] = placement.epoch /\ placement.active
        BY <3>4 DEF SessionInv, SessionOK, InTransaction, BeforeWrite
      <3>6. /\ Package(req[c])' = Package(req[c]) /\ KeyHash(req[c])' = KeyHash(req[c])
            /\ Intent(req[c])' = Intent(req[c])
        BY <3>4 DEF Package, KeyHash, Intent
      <3> QED
        BY <2>2, <3>2, <3>3, <3>4, <3>5, <3>6 DEF SessionOK, HasDraft, InTransaction, AfterWrite
    <2> QED
      BY <2>1, <2>2
  <1>4. ASSUME NEW c \in Clients, HistoryWrite(c) \/ OutboxWrite(c), NEW d \in Clients
        PROVE  SessionOK(d)'
    <2>1. CASE d # c
      BY <1>4, <2>1, <1>s DEF HistoryWrite, OutboxWrite, Writes, Goto, TypeOK, Stays
    <2>2. CASE d = c
      <3>1. draft[c] \in Drafts
        BY <1>4 DEF HistoryWrite, OutboxWrite, TypeOK, SessionInv, SessionOK, HasDraft, AfterWrite
      <3>2. draft'[c] \in Drafts /\ draft'[c].event = draft[c].event
        BY <1>4, <3>1 DEF HistoryWrite, OutboxWrite, Writes, Drafts, Tables, TypeOK
      <3>3. draft'[c] # None
        BY <3>2, SentinelAssumption
      <3>4. CASE HistoryWrite(c)
        <4>1. draft'[c].writes = {"work_packages", "status_events"}
          BY <3>1, <3>4 DEF HistoryWrite, Writes, TypeOK, SessionInv, SessionOK, Drafts
        <4> QED
          BY <2>2, <3>2, <3>3, <3>4, <4>1
             DEF HistoryWrite, Goto, TypeOK, SessionInv, SessionOK, HasDraft, InTransaction,
                 BeforeLock, BeforeWrite, AfterWrite
      <3>5. CASE OutboxWrite(c)
        <4>1. draft'[c].writes = Tables
          BY <3>1, <3>5 DEF OutboxWrite, Writes, TypeOK, SessionInv, SessionOK, Drafts, Tables
        <4> QED
          BY <2>2, <3>2, <3>3, <3>5, <4>1
             DEF OutboxWrite, Goto, TypeOK, SessionInv, SessionOK, HasDraft, InTransaction,
                 BeforeLock, BeforeWrite, AfterWrite
      <3> QED
        BY <1>4, <3>4, <3>5
    <2> QED
      BY <2>1, <2>2
  <1>5. ASSUME NEW c \in Clients,
               \/ LookupReplay(c) \/ TxReplay(c) \/ VersionConflict(c) \/ Return(c)
               \/ Reject(c) \/ Fail(c)
        PROVE  SessionInv'
    <2>1. Finish(c) /\ UNCHANGED <<placement, history>>
      BY <1>5 DEF LookupReplay, TxReplay, VersionConflict, Return, Reject, Fail, Answer
    <2> QED
      BY <2>1, FinishSession
  <1>6. ASSUME NEW t \in sent, CommitDurable(t), NEW d \in Clients
        PROVE  SessionOK(d)'
    <2>1. t \in Commits /\ t.event \in history'
      BY <1>6 DEF CommitDurable, SentInv, SentOK, TypeOK, Tables
    <2>2. CASE ~Awaited(t) \/ d # t.client
      BY <1>6, <2>1, <2>2, <1>s DEF CommitDurable, TypeOK, Stays
    <2>3. CASE Awaited(t) /\ d = t.client
      <3>1. stage'[d] = "committed" /\ draft'[d].event \in history'
        BY <1>6, <2>1, <2>3 DEF CommitDurable, TypeOK, Awaited
      <3> QED
        BY <1>6, <2>3, <3>1 DEF CommitDurable, Awaited, SessionInv, SessionOK, HasDraft,
                                InTransaction, BeforeLock, BeforeWrite, AfterWrite
    <2> QED
      BY <2>2, <2>3
  <1>7. ASSUME NEW t \in sent, CommitRefused(t)
        PROVE  SessionInv'
    <2>1. CASE Awaited(t)
      BY <1>7, <2>1, FinishSession DEF CommitRefused, TypeOK, Commits
    <2>2. CASE ~Awaited(t)
      BY <1>7, <2>2, <1>s DEF CommitRefused, Stays, SessionInv
    <2> QED
      BY <2>1, <2>2
  <1>8. ASSUME MovePlacement \/ SetScopeState, NEW d \in Clients
        PROVE  SessionOK(d)'
    <2>1. stage[d] \notin InTransaction
      BY <1>8 DEF MovePlacement, SetScopeState, PlacementShared
    <2> QED
      BY <1>8, <2>1 DEF MovePlacement, SetScopeState, SessionInv, SessionOK, HasDraft
  <1>9. CASE UNCHANGED vars
    BY <1>9, <1>s DEF vars, Stays, SessionInv
  <1> QED
    BY <1>1, <1>2, <1>3, <1>4, <1>5, <1>6, <1>7, <1>8, <1>9
       DEF Next, Proceed, ResolveCommit, SessionInv

-----------------------------------------------------------------------------
\* What the commit of t does to the tables once it writes all three of them.
LEMMA CommitEffect ==
  ASSUME TypeOK, SentInv, NEW t \in sent, CommitDurable(t)
  PROVE  /\ t \in Commits /\ t.event \in Events /\ t.event.package \in Packages
         /\ row' = [row EXCEPT ![t.event.package] =
                      [status |-> t.event.intent.status, version |-> t.event.version,
                       evidence |-> t.event.intent.evidence]]
         /\ history' = history \cup {t.event}
         /\ outbox' = outbox \cup {t.event.eventId}
         /\ sent' = sent \ {t}
  BY DEF CommitDurable, SentInv, SentOK, TypeOK, Tables, Commits, Events

\* Only a commit changes the rows and the history.
LEMMA Frame ==
  ASSUME [Next]_vars
  PROVE  \/ \E t \in sent : CommitDurable(t)
         \/ UNCHANGED <<row, history, outbox>>
  <1> USE DEF db, session, ghosts
  <1>1. ASSUME NEW c \in Clients, Proceed(c) PROVE UNCHANGED <<row, history, outbox>>
    BY <1>1 DEF Proceed, Authorize, LookupReplay, LookupMiss, Verify, Begin, TxReplay, TxMiss,
                Lock, VersionConflict, PredecessorsVerified, StatusWrite, HistoryWrite,
                OutboxWrite, SendCommit, Return, Reject
  <1>2. ASSUME NEW c \in Clients, Fail(c) \/ \E r \in Requests : Start(c, r)
        PROVE  UNCHANGED <<row, history, outbox>>
    BY <1>2 DEF Fail, Start
  <1>3. ASSUME NEW t \in sent, CommitRefused(t) PROVE UNCHANGED <<row, history, outbox>>
    BY <1>3 DEF CommitRefused
  <1>4. ASSUME MovePlacement \/ SetScopeState PROVE UNCHANGED <<row, history, outbox>>
    BY <1>4 DEF MovePlacement, SetScopeState
  <1>5. CASE UNCHANGED vars
    BY <1>5 DEF vars
  <1> QED
    BY <1>1, <1>2, <1>3, <1>4, <1>5 DEF Next, ResolveCommit

\* A Done row never changes again.
LEMMA DoneStable ==
  ASSUME TypeOK, SentInv, [Next]_vars,
         NEW p \in Packages, row[p].status = "Done"
  PROVE  row'[p] = row[p]
  <1>1. ASSUME NEW t \in sent, CommitDurable(t) PROVE row'[p] = row[p]
    <2>1. t.event.package # p
      <3>1. SentOK(t)
        BY <1>1 DEF SentInv
      <3>2. /\ t.event.intent.status \in Transitions[t.event.from]
            /\ t.event.from = row[t.event.package].status
        BY <3>1 DEF SentOK
      <3> QED
        BY <3>2, TransitionsFacts
    <2>2. row' = [row EXCEPT ![t.event.package] =
                   [status |-> t.event.intent.status, version |-> t.event.version,
                    evidence |-> t.event.intent.evidence]]
      BY <1>1, CommitEffect
    <2> QED
      BY <2>1, <2>2 DEF TypeOK
  <1> QED
    BY <1>1, Frame

\* Predecessors that are Done stay Done.
LEMMA PredecessorsStable ==
  ASSUME TypeOK, SentInv, [Next]_vars,
         NEW p \in Packages, PredecessorsDone(p, row)
  PROVE  PredecessorsDone(p, row)'
  <1>1. \A q \in Preds[p] : q \in Packages
    BY PredsAssumption
  <1> QED
    BY <1>1, DoneStable DEF PredecessorsDone

\* A commit leaves the row a call has locked alone.
LEMMA LockedRowStable ==
  ASSUME TypeOK, SentInv, ExclusiveInv, [Next]_vars,
         NEW c \in Clients, HoldsRow(c), Package(req[c]) \in Packages
  PROVE  row'[Package(req[c])] = row[Package(req[c])]
  <1>1. ASSUME NEW t \in sent, CommitDurable(t)
        PROVE  row'[Package(req[c])] = row[Package(req[c])]
    <2>1. t.event.package # Package(req[c])
      BY DEF ExclusiveInv
    <2>2. row' = [row EXCEPT ![t.event.package] =
                   [status |-> t.event.intent.status, version |-> t.event.version,
                    evidence |-> t.event.intent.evidence]]
      BY <1>1, CommitEffect
    <2> QED
      BY <2>1, <2>2 DEF TypeOK
  <1> QED
    BY <1>1, Frame

-----------------------------------------------------------------------------
\* A call whose session is not touched keeps the checks it has passed.
LEMMA ChecksStay ==
  ASSUME TypeOK, SessionInv, ChecksInv, SentInv, ExclusiveInv, [Next]_vars,
         NEW d \in Clients, stage'[d] = stage[d], req'[d] = req[d], snap'[d] = snap[d],
         draft'[d] = draft[d], verified \subseteq verified'
  PROVE  ChecksOK(d)'
  <1>1. HoldsRow(d) => row'[Package(req[d])] = row[Package(req[d])]
    BY LockedRowStable DEF ChecksInv, ChecksOK
  <1>2. stage[d] \in {"status_write"} \cup AfterWrite => HoldsRow(d)
    BY DEF HoldsRow, BeforeWrite
  <1>3. HoldsRow(d) /\ PredecessorsDone(Package(req[d]), row)
          => PredecessorsDone(Package(req[d]), row)'
    BY PredecessorsStable DEF ChecksInv, ChecksOK
  <1>4. PredecessorsDone(Package(req[d]), row)' <=> PredecessorsDone(Package(req'[d]), row')
    BY DEF PredecessorsDone
  <1>5. HoldsRow(d)' <=> HoldsRow(d)
    BY DEF HoldsRow
  <1>6. ReceiptsFor(req[d], snap[d].history)' = ReceiptsFor(req[d], snap[d].history)
    BY DEF ReceiptsFor
  <1>7. NeedsEvidence(req[d])' = NeedsEvidence(req[d])
        /\ NeedsPredecessors(req[d])' = NeedsPredecessors(req[d])
    BY DEF NeedsEvidence, NeedsPredecessors
  <1>8. Package(req[d])' = Package(req[d])
    BY DEF Package
  <1> QED
    BY <1>1, <1>2, <1>3, <1>4, <1>5, <1>6, <1>7, <1>8 DEF ChecksInv, ChecksOK

-----------------------------------------------------------------------------
\* The step leaves the session of d alone.
Untouched(d) == /\ stage'[d] = stage[d] /\ req'[d] = req[d] /\ bind'[d] = bind[d]
                /\ snap'[d] = snap[d] /\ draft'[d] = draft[d]

\* The steps by which d goes on with its call.
Advances(d) ==
  \/ Authorize(d) \/ LookupMiss(d) \/ Verify(d) \/ Begin(d) \/ TxMiss(d) \/ Lock(d)
  \/ PredecessorsVerified(d) \/ StatusWrite(d) \/ HistoryWrite(d) \/ OutboxWrite(d)
  \/ SendCommit(d)

\* The COMMIT d waits for has been applied.
Acknowledged(d) == /\ stage[d] = "committing" /\ stage'[d] = "committed"
                   /\ req'[d] = req[d] /\ snap'[d] = snap[d] /\ draft'[d] = draft[d]

\* A call that goes on leaves the sessions of the others alone.
LEMMA OthersUntouched ==
  ASSUME TypeOK, NEW c \in Clients, NEW d \in Clients, c # d, Advances(c)
  PROVE  Untouched(d)
  BY DEF Untouched, Advances, TypeOK, Goto, Authorize, LookupMiss, Verify, Begin, TxMiss, Lock,
         PredecessorsVerified, StatusWrite, HistoryWrite, OutboxWrite, Writes, SendCommit

\* Seen by one client, a step is one of these.
LEMMA ClientStep ==
  ASSUME TypeOK, [Next]_vars, NEW d \in Clients
  PROVE  \/ Untouched(d) \/ Advances(d) \/ Acknowledged(d) \/ Finish(d)
         \/ \E r \in Requests : Start(d, r)
  <1> USE DEF db, session, ghosts, Untouched
  <1>1. ASSUME NEW c \in Clients, c # d, Advances(c)
        PROVE  Untouched(d)
    BY <1>1, OthersUntouched
  <1>2. ASSUME NEW c \in Clients, c # d, Finish(c) PROVE Untouched(d)
    BY <1>2 DEF Finish, Goto, TypeOK
  <1>3. ASSUME NEW c \in Clients, Proceed(c) PROVE Advances(c) \/ Finish(c)
    BY <1>3 DEF Proceed, Advances, LookupReplay, TxReplay, VersionConflict, Return, Reject, Answer
  <1>4. ASSUME NEW c \in Clients, Fail(c) PROVE Finish(c)
    BY <1>4 DEF Fail
  <1>5. ASSUME NEW c \in Clients, NEW r \in Requests, Start(c, r), c # d PROVE Untouched(d)
    BY <1>5 DEF Start, Goto, TypeOK
  <1>6. ASSUME NEW t \in sent, CommitDurable(t) PROVE Untouched(d) \/ Acknowledged(d)
    <2>1. t.client \in Clients
      BY DEF TypeOK, Commits
    <2> QED
      BY <1>6, <2>1 DEF CommitDurable, Awaited, Acknowledged, TypeOK
  <1>7. ASSUME NEW t \in sent, CommitRefused(t) PROVE Untouched(d) \/ Finish(d)
    <2>1. t.client \in Clients
      BY DEF TypeOK, Commits
    <2> QED
      BY <1>2, <1>7, <2>1 DEF CommitRefused
  <1>8. ASSUME MovePlacement \/ SetScopeState PROVE Untouched(d)
    BY <1>8 DEF MovePlacement, SetScopeState
  <1>9. CASE UNCHANGED vars
    BY <1>9 DEF vars
  <1> QED
    BY <1>1, <1>2, <1>3, <1>4, <1>5, <1>6, <1>7, <1>8, <1>9 DEF Next, ResolveCommit

\* Verdicts of the verifier are never taken back.
LEMMA VerifiedGrows ==
  ASSUME [Next]_vars PROVE verified \subseteq verified'
  <1> USE DEF db, session, ghosts
  <1>1. ASSUME NEW c \in Clients, Proceed(c) PROVE verified \subseteq verified'
    BY <1>1 DEF Proceed, Authorize, LookupReplay, LookupMiss, Verify, Begin, TxReplay, TxMiss,
                Lock, VersionConflict, PredecessorsVerified, StatusWrite, HistoryWrite,
                OutboxWrite, SendCommit, Return, Reject, Answer
  <1>2. ASSUME NEW c \in Clients, Fail(c) \/ \E r \in Requests : Start(c, r)
        PROVE  UNCHANGED verified
    BY <1>2 DEF Fail, Start
  <1>3. ASSUME NEW t \in sent, CommitRefused(t) \/ CommitDurable(t) PROVE UNCHANGED verified
    BY <1>3 DEF CommitRefused, CommitDurable
  <1>4. ASSUME MovePlacement \/ SetScopeState PROVE UNCHANGED verified
    BY <1>4 DEF MovePlacement, SetScopeState
  <1>5. CASE UNCHANGED vars
    BY <1>5 DEF vars
  <1> QED
    BY <1>1, <1>2, <1>3, <1>4, <1>5 DEF Next, ResolveCommit

\* What a caller has checked still holds, for the version it has locked, after any step.
LEMMA ChecksStep ==
  ASSUME TypeOK, SessionInv, ChecksInv, SentInv, ExclusiveInv, SnapshotInv, [Next]_vars
  PROVE  ChecksInv'
  <1> SUFFICES ASSUME NEW d \in Clients PROVE ChecksOK(d)'
    BY DEF ChecksInv
  <1> USE DEF db, session, ghosts, Goto, InTransaction, BeforeLock, BeforeWrite, AfterWrite
  <1>1. CASE Untouched(d)
    BY <1>1, ChecksStay, VerifiedGrows DEF Untouched
  <1>2. CASE stage'[d] \in {"idle", "authorize", "lookup", "verify", "committing", "committed"}
    BY <1>2 DEF ChecksOK, HoldsRow
  <1>3. CASE Finish(d) \/ Acknowledged(d) \/ \E r \in Requests : Start(d, r)
    BY <1>2, <1>3 DEF Finish, Acknowledged, Start, TypeOK
  <1>4. CASE Authorize(d) \/ SendCommit(d)
    BY <1>2, <1>4 DEF Authorize, SendCommit, TypeOK
  <1>5. CASE LookupMiss(d)
    BY <1>5 DEF LookupMiss, TypeOK, ChecksOK, HoldsRow, NeedsEvidence
  <1>6. CASE Verify(d)
    BY <1>6 DEF Verify, TypeOK, ChecksOK, HoldsRow
  <1>7. CASE Begin(d)
    BY <1>7 DEF Begin, TypeOK, ChecksInv, ChecksOK, HoldsRow, NeedsEvidence
  <1>8. CASE TxMiss(d)
    BY <1>8 DEF TxMiss, TypeOK, ChecksInv, ChecksOK, HoldsRow, NeedsEvidence, ReceiptsFor
  <1>9. CASE Lock(d)
    BY <1>9 DEF Lock, TypeOK, ChecksInv, ChecksOK, HoldsRow, NeedsEvidence,
                NeedsPredecessors, Package
  <1>10. CASE PredecessorsVerified(d)
    <2>1. Package(req[d]) \in Packages
      BY <1>10 DEF PredecessorsVerified, ChecksInv, ChecksOK, HoldsRow
    <2>2. PredecessorsDone(Package(req[d]), row)
      BY <1>10, <2>1, PredsAssumption
         DEF PredecessorsVerified, PredecessorsDone, SnapshotInv, SnapshotOK
    <2>3. PredecessorsDone(Package(req[d]), row)'
      BY <1>10, <2>2 DEF PredecessorsVerified, PredecessorsDone, Package
    <2> QED
      BY <1>10, <2>3 DEF PredecessorsVerified, TypeOK, ChecksInv, ChecksOK, HoldsRow,
                         NeedsEvidence, NeedsPredecessors, Package
  <1>11. CASE StatusWrite(d)
    <2>1. PICK id \in FreshIds : draft'[d] = NewDraft(d, id)
      BY <1>11, StatusWriteDraft
    <2>2. NeedsPredecessors(req[d]) => PredecessorsDone(Package(req[d]), row)'
      BY <1>11 DEF StatusWrite, ChecksInv, ChecksOK, PredecessorsDone, Package
    <2>3. /\ stage[d] = "status_write" /\ stage'[d] = "history_write"
          /\ UNCHANGED <<row, req, verified>>
      BY <1>11 DEF StatusWrite, TypeOK
    <2>4. ChecksOK(d)
      BY DEF ChecksInv
    <2>5. /\ draft'[d].event.from = row[Package(req[d])].status
          /\ draft'[d].event.version = req[d].expected + 1
      BY <2>1, <2>3, <2>4 DEF NewDraft, ChecksOK, HoldsRow
    <2>6. /\ Package(req[d])' = Package(req[d]) /\ NeedsEvidence(req[d])' = NeedsEvidence(req[d])
          /\ NeedsPredecessors(req[d])' = NeedsPredecessors(req[d])
      BY <2>3 DEF Package, NeedsEvidence, NeedsPredecessors
    <2> QED
      BY <2>2, <2>3, <2>4, <2>5, <2>6 DEF ChecksOK, HoldsRow
  <1>12. CASE HistoryWrite(d) \/ OutboxWrite(d)
    <2>1. draft[d] \in Drafts
      BY <1>12 DEF HistoryWrite, OutboxWrite, TypeOK, SessionInv, SessionOK, HasDraft
    <2>2. draft'[d].event = draft[d].event
      BY <1>12, <2>1 DEF HistoryWrite, OutboxWrite, Writes, TypeOK, Drafts
    <2>3. NeedsPredecessors(req[d]) => PredecessorsDone(Package(req[d]), row)'
      BY <1>12 DEF HistoryWrite, OutboxWrite, ChecksInv, ChecksOK, PredecessorsDone, Package
    <2> QED
      BY <1>12, <2>2, <2>3
         DEF HistoryWrite, OutboxWrite, TypeOK, ChecksInv, ChecksOK, HoldsRow, NeedsEvidence,
             NeedsPredecessors, Package
  <1> QED
    BY <1>1, <1>3, <1>4, <1>5, <1>6, <1>7, <1>8, <1>9, <1>10, <1>11, <1>12, ClientStep
       DEF Advances

-----------------------------------------------------------------------------
\* While a write transaction lives its placement does not move.
LEMMA PlacementStable ==
  ASSUME PlacementShared, [Next]_vars
  PROVE  placement' = placement
  <1> USE DEF db, session, ghosts
  <1>1. ASSUME NEW c \in Clients, Proceed(c) PROVE UNCHANGED placement
    BY <1>1 DEF Proceed, Authorize, LookupReplay, LookupMiss, Verify, Begin, TxReplay, TxMiss,
                Lock, VersionConflict, PredecessorsVerified, StatusWrite, HistoryWrite,
                OutboxWrite, SendCommit, Return, Reject
  <1>2. ASSUME NEW c \in Clients, Fail(c) \/ \E r \in Requests : Start(c, r)
        PROVE  UNCHANGED placement
    BY <1>2 DEF Fail, Start
  <1>3. ASSUME NEW t \in sent, CommitRefused(t) \/ CommitDurable(t) PROVE UNCHANGED placement
    BY <1>3 DEF CommitRefused, CommitDurable
  <1>4. ~(MovePlacement \/ SetScopeState)
    BY DEF MovePlacement, SetScopeState
  <1>5. CASE UNCHANGED vars
    BY <1>5 DEF vars
  <1> QED
    BY <1>1, <1>2, <1>3, <1>4, <1>5 DEF Next, ResolveCommit

\* A transaction in sent was there before or has just been sent.
LEMMA SentSource ==
  ASSUME [Next]_vars, NEW t \in sent'
  PROVE  t \in sent \/ \E c \in Clients : SendCommit(c) /\ t = CommitOf(c)
  <1> USE DEF db, session, ghosts
  <1>1. ASSUME NEW c \in Clients, Proceed(c), ~SendCommit(c) PROVE t \in sent
    BY <1>1 DEF Proceed, Authorize, LookupReplay, LookupMiss, Verify, Begin, TxReplay, TxMiss,
                Lock, VersionConflict, PredecessorsVerified, StatusWrite, HistoryWrite,
                OutboxWrite, Return, Reject
  <1>2. ASSUME NEW c \in Clients, SendCommit(c) PROVE t \in sent \/ t = CommitOf(c)
    BY <1>2 DEF SendCommit
  <1>3. ASSUME NEW c \in Clients, Fail(c) \/ \E r \in Requests : Start(c, r)
        PROVE  t \in sent
    BY <1>3 DEF Fail, Start
  <1>4. ASSUME NEW u \in sent, CommitRefused(u) \/ CommitDurable(u) PROVE t \in sent
    BY <1>4 DEF CommitRefused, CommitDurable
  <1>5. ASSUME MovePlacement \/ SetScopeState PROVE t \in sent
    BY <1>5 DEF MovePlacement, SetScopeState
  <1>6. CASE UNCHANGED vars
    BY <1>6 DEF vars
  <1> QED
    BY <1>1, <1>2, <1>3, <1>4, <1>5, <1>6 DEF Next, ResolveCommit

\* The row a pending commit will write is left alone by other commits.
LEMMA SentRowStable ==
  ASSUME TypeOK, SentInv, ExclusiveInv, [Next]_vars, NEW t \in sent, t \in sent'
  PROVE  row'[t.event.package] = row[t.event.package]
  <1>1. ASSUME NEW u \in sent, CommitDurable(u)
        PROVE  row'[t.event.package] = row[t.event.package]
    <2>1. u # t
      BY <1>1, CommitEffect
    <2>2. u.event.package # t.event.package
      BY <2>1 DEF ExclusiveInv
    <2>3. row' = [row EXCEPT ![u.event.package] =
                   [status |-> u.event.intent.status, version |-> u.event.version,
                    evidence |-> u.event.intent.evidence]]
      BY <1>1, CommitEffect
    <2>4. t.event.package \in Packages
      BY DEF TypeOK, Commits, Events
    <2> QED
      BY <2>2, <2>3, <2>4 DEF TypeOK
  <1> QED
    BY <1>1, Frame

\* A COMMIT on its way keeps the facts it was sent with until it is resolved.
LEMMA SentStep ==
  ASSUME TypeOK, SessionInv, ChecksInv, SentInv, ExclusiveInv, [Next]_vars
  PROVE  SentInv'
  <1> SUFFICES ASSUME NEW t \in sent' PROVE SentOK(t)'
    BY DEF SentInv
  <1>1. CASE t \in sent
    <2>1. SentOK(t) /\ t.event.package \in Packages
      BY <1>1 DEF SentInv, TypeOK, Commits, Events
    <2>2. row'[t.event.package] = row[t.event.package]
      BY <1>1, SentRowStable
    <2>3. placement' = placement
      BY <1>1, PlacementStable DEF PlacementShared
    <2>4. PredecessorsDone(t.event.package, row) => PredecessorsDone(t.event.package, row)'
      BY <2>1, PredecessorsStable
    <2> QED
      BY <2>1, <2>2, <2>3, <2>4, VerifiedGrows DEF SentOK, PredecessorsDone
  <1>2. ASSUME NEW c \in Clients, SendCommit(c), t = CommitOf(c)
        PROVE  SentOK(t)'
    <2>1. /\ req[c] \in Requests
          /\ bind[c] = placement.epoch /\ placement.active
          /\ draft[c].event.package = Package(req[c])
          /\ draft[c].event.intent = Intent(req[c])
          /\ draft[c].writes = Tables
      BY <1>2 DEF SendCommit, SessionInv, SessionOK, HasDraft, InTransaction, AfterWrite
    <2>2. /\ Package(req[c]) \in Packages
          /\ row[Package(req[c])].version = req[c].expected
          /\ req[c].status \in Transitions[row[Package(req[c])].status]
          /\ draft[c].event.from = row[Package(req[c])].status
          /\ draft[c].event.version = req[c].expected + 1
          /\ NeedsPredecessors(req[c]) => PredecessorsDone(Package(req[c]), row)
          /\ NeedsEvidence(req[c]) => <<req[c].id, req[c].expected, req[c].evidence>> \in verified
      BY <1>2 DEF SendCommit, ChecksInv, ChecksOK, HoldsRow, AfterWrite, InTransaction
    <2>3. UNCHANGED <<placement, row, verified>>
      BY <1>2 DEF SendCommit, db, ghosts
    <2>4. SentOK(t)
      <3> DEFINE e == draft[c].event
      <3>1. t.event = e /\ t.writes = draft[c].writes /\ t.epoch = bind[c]
        BY <1>2 DEF CommitOf
      <3>2. /\ e.intent.status = req[c].status /\ e.intent.expected = req[c].expected
            /\ e.intent.id = req[c].id /\ e.intent.evidence = req[c].evidence
            /\ e.package[2] = req[c].id
        BY <2>1 DEF Intent, Package
      <3>3. /\ e.intent.status \in Started => PredecessorsDone(e.package, row)
            /\ e.intent.status = "Done" =>
                 <<e.intent.id, row[e.package].version, e.intent.evidence>> \in verified
        BY <2>1, <2>2, <3>2, RequestFacts DEF NeedsEvidence, NeedsPredecessors
      <3>4. /\ e.from = row[e.package].status /\ e.version = row[e.package].version + 1
            /\ e.intent.expected = row[e.package].version
            /\ e.intent.status \in Transitions[e.from]
        BY <2>1, <2>2, <3>2
      <3> QED
        BY <2>1, <3>1, <3>2, <3>3, <3>4 DEF SentOK
    <2> QED
      BY <2>3, <2>4 DEF SentOK, PredecessorsDone
  <1> QED
    BY <1>1, <1>2, SentSource

-----------------------------------------------------------------------------
\* A snapshot stays a past of the tables: it holds no event they lack.
LEMMA SnapshotStep ==
  ASSUME TypeOK, SessionInv, SentInv, SnapshotInv, [Next]_vars
  PROVE  SnapshotInv'
  <1> SUFFICES ASSUME NEW d \in Clients, stage'[d] \in InTransaction PROVE SnapshotOK(d)'
    BY DEF SnapshotInv
  <1> USE DEF InTransaction, BeforeLock, BeforeWrite, AfterWrite
  <1>1. CASE Begin(d)
    BY <1>1 DEF Begin, SnapshotOK, TypeOK, Rows, Versions, db
  <1>2. ASSUME SnapshotOK(d), snap'[d] = snap[d], snap[d] \in Snapshots
        PROVE  SnapshotOK(d)'
    <2>1. ASSUME NEW t \in sent, CommitDurable(t) PROVE SnapshotOK(d)'
      <3>1. /\ t.event.package \in Packages
            /\ row' = [row EXCEPT ![t.event.package] =
                         [status |-> t.event.intent.status, version |-> t.event.version,
                          evidence |-> t.event.intent.evidence]]
            /\ history' = history \cup {t.event}
        BY <2>1, CommitEffect
      <3>2. /\ t.event.version = row[t.event.package].version + 1
            /\ row[t.event.package].version \in Nat
        <4>1. row[t.event.package].version \in Versions
          BY <3>1 DEF TypeOK, Rows
        <4>2. Versions \subseteq Nat
          BY MaxVersionAssumption DEF Versions
        <4> QED
          BY <4>1, <4>2 DEF SentInv, SentOK
      <3>3. \A p \in Packages : snap[d].row[p].version \in Nat /\ row[p].version \in Nat
        BY <1>2 DEF Snapshots, Rows, Versions, TypeOK
      <3>4. \A p \in Packages : snap[d].row[p].version <= row'[p].version
        BY <1>2, <3>1, <3>2, <3>3 DEF SnapshotOK, TypeOK
      <3>5. \A p \in Packages : snap[d].row[p].status = "Done" => row'[p] = snap[d].row[p]
        BY <1>2, DoneStable DEF SnapshotOK
      <3>6. snap[d].row[t.event.package].version < t.event.version
        BY <1>2, <3>1, <3>2, <3>3 DEF SnapshotOK
      <3> QED
        BY <1>2, <3>1, <3>4, <3>5, <3>6 DEF SnapshotOK
    <2>2. CASE UNCHANGED <<row, history>>
      BY <1>2, <2>2 DEF SnapshotOK
    <2> QED
      BY <2>1, <2>2, Frame
  <1>3. CASE stage[d] \in InTransaction
    <2>1. SnapshotOK(d) /\ snap[d] \in Snapshots
      BY <1>3 DEF SnapshotInv, SessionInv, SessionOK, TypeOK
    <2>2. snap'[d] = snap[d]
      BY <1>3, ClientStep DEF Untouched, Advances, Acknowledged, Start, Finish, Goto, TypeOK,
         Authorize, LookupMiss, Verify, Begin, TxMiss, Lock, PredecessorsVerified, StatusWrite,
         HistoryWrite, OutboxWrite, SendCommit
    <2> QED
      BY <1>2, <2>1, <2>2
  <1>4. CASE stage[d] \notin InTransaction
    <2>1. Begin(d)
      BY <1>4, ClientStep DEF Untouched, Advances, Acknowledged, Start, Finish, Goto, TypeOK,
         Authorize, LookupMiss, Verify, TxMiss, Lock, PredecessorsVerified, StatusWrite,
         HistoryWrite, OutboxWrite, SendCommit
    <2> QED
      BY <1>1, <2>1
  <1> QED
    BY <1>3, <1>4

-----------------------------------------------------------------------------
\* A row is held since the lock was granted, a key since the insert succeeded.
LEMMA LockSource ==
  ASSUME TypeOK, [Next]_vars, NEW c \in Clients
  PROVE  /\ HoldsRow(c)' => Lock(c) \/ (HoldsRow(c) /\ req'[c] = req[c])
         /\ HoldsKey(c)' => HistoryWrite(c) \/ (HoldsKey(c) /\ req'[c] = req[c])
  <1> USE DEF HoldsRow, HoldsKey, BeforeWrite, AfterWrite, Goto
  <1>1. CASE Untouched(c)
    BY <1>1 DEF Untouched
  <1>2. CASE Acknowledged(c) \/ Finish(c) \/ \E r \in Requests : Start(c, r)
    BY <1>2 DEF Acknowledged, Finish, Start, TypeOK
  <1>3. CASE Authorize(c) \/ LookupMiss(c) \/ Verify(c) \/ Begin(c) \/ TxMiss(c) \/ SendCommit(c)
    BY <1>3 DEF Authorize, LookupMiss, Verify, Begin, TxMiss, SendCommit, TypeOK
  <1>4. CASE PredecessorsVerified(c) \/ StatusWrite(c) \/ HistoryWrite(c) \/ OutboxWrite(c)
    BY <1>4 DEF PredecessorsVerified, StatusWrite, HistoryWrite, OutboxWrite, TypeOK
  <1>5. CASE Lock(c)
    BY <1>5 DEF Lock, TypeOK
  <1> QED
    BY <1>1, <1>2, <1>3, <1>4, <1>5, ClientStep DEF Advances

\* What a transaction just sent carries, and what its caller holds.
LEMMA SentFacts ==
  ASSUME TypeOK, SessionInv, NEW c \in Clients, SendCommit(c)
  PROVE  /\ CommitOf(c).event.package = Package(req[c])
         /\ CommitOf(c).event.keyHash = KeyHash(req[c])
         /\ CommitOf(c).event = draft[c].event
         /\ HoldsRow(c) /\ HoldsKey(c) /\ ~HoldsRow(c)' /\ ~HoldsKey(c)'
         /\ history' = history
         /\ \A d \in Clients : SendCommit(d) => d = c
  <1>1. /\ draft[c].event.package = Package(req[c])
        /\ draft[c].event.keyHash = KeyHash(req[c])
    BY DEF SendCommit, SessionInv, SessionOK, HasDraft, AfterWrite
  <1>2. HoldsRow(c) /\ HoldsKey(c) /\ stage'[c] = "committing"
    BY DEF SendCommit, Goto, HoldsRow, HoldsKey, AfterWrite, TypeOK
  <1>3. ASSUME NEW d \in Clients, SendCommit(d), d # c PROVE FALSE
    BY <1>3, OthersUntouched DEF SendCommit, Goto, TypeOK, Advances, Untouched
  <1> QED
    BY <1>1, <1>2, <1>3 DEF CommitOf, HoldsRow, HoldsKey, BeforeWrite, AfterWrite, SendCommit, db

\* No step gives two transactions the same row or the same key.
LEMMA ExclusiveStep ==
  ASSUME TypeOK, SessionInv, SentInv, ExclusiveInv, [Next]_vars
  PROVE  ExclusiveInv'
  <1>1. ASSUME NEW c \in Clients, NEW d \in Clients, c # d, HoldsRow(c)', HoldsRow(d)'
        PROVE  Package(req'[c]) # Package(req'[d])
    <2>1. ASSUME NEW a \in Clients, NEW b \in Clients, a # b, HoldsRow(b)', Lock(a)
          PROVE  Package(req'[a]) # Package(req'[b])
      <3>1. HoldsRow(b) /\ req'[b] = req[b] /\ req'[a] = req[a]
        BY <2>1, OthersUntouched DEF Advances, Untouched, HoldsRow, Lock
      <3> QED
        BY <2>1, <3>1 DEF Lock, RowLockedByOther, HoldsRow
    <2>2. CASE Lock(c) \/ Lock(d)
      BY <1>1, <2>1, <2>2
    <2>3. CASE ~Lock(c) /\ ~Lock(d)
      BY <1>1, <2>3, LockSource DEF ExclusiveInv
    <2> QED
      BY <2>2, <2>3
  <1>2. ASSUME NEW c \in Clients, NEW t \in sent', HoldsRow(c)'
        PROVE  Package(req'[c]) # t.event.package
    <2>1. CASE t \in sent /\ Lock(c)
      BY <2>1 DEF Lock, RowLockedByOther
    <2>2. CASE t \in sent /\ ~Lock(c)
      BY <1>2, <2>2, LockSource DEF ExclusiveInv
    <2>3. ASSUME NEW d \in Clients, SendCommit(d), t = CommitOf(d)
          PROVE  Package(req'[c]) # t.event.package
      <3>1. c # d
        BY <1>2, <2>3, SentFacts
      <3>2. HoldsRow(c) /\ req'[c] = req[c]
        BY <1>2, <2>3, <3>1, OthersUntouched DEF Advances, Untouched, HoldsRow
      <3> QED
        BY <2>3, <3>1, <3>2, SentFacts DEF ExclusiveInv
    <2> QED
      BY <2>1, <2>2, <2>3, SentSource
  <1>3. ASSUME NEW t \in sent', NEW u \in sent', t # u
        PROVE  t.event.package # u.event.package /\ t.event.keyHash # u.event.keyHash
    <2>1. CASE t \in sent /\ u \in sent
      BY <1>3, <2>1 DEF ExclusiveInv
    <2>2. ASSUME NEW d \in Clients, SendCommit(d), t = CommitOf(d), u \in sent
          PROVE  t.event.package # u.event.package /\ t.event.keyHash # u.event.keyHash
      BY <2>2, SentFacts DEF ExclusiveInv
    <2>3. ASSUME NEW d \in Clients, SendCommit(d), u = CommitOf(d), t \in sent
          PROVE  t.event.package # u.event.package /\ t.event.keyHash # u.event.keyHash
      BY <2>3, SentFacts DEF ExclusiveInv
    <2>4. ASSUME NEW c \in Clients, NEW d \in Clients, SendCommit(c), SendCommit(d)
          PROVE  CommitOf(c) = CommitOf(d)
      BY <2>4, SentFacts
    <2> QED
      BY <1>3, <2>1, <2>2, <2>3, <2>4, SentSource
  <1>4. ASSUME NEW c \in Clients, NEW d \in Clients, c # d, HoldsKey(c)', HoldsKey(d)'
        PROVE  KeyHash(req'[c]) # KeyHash(req'[d])
    <2>1. ASSUME NEW a \in Clients, NEW b \in Clients, a # b, HoldsKey(b)', HistoryWrite(a)
          PROVE  KeyHash(req'[a]) # KeyHash(req'[b])
      <3>1. HoldsKey(b) /\ req'[b] = req[b] /\ req'[a] = req[a]
        BY <2>1, OthersUntouched DEF Advances, Untouched, HoldsKey, HistoryWrite
      <3> QED
        BY <2>1, <3>1 DEF HistoryWrite, KeyLockedByOther, HoldsKey
    <2>2. CASE HistoryWrite(c) \/ HistoryWrite(d)
      BY <1>4, <2>1, <2>2
    <2>3. CASE ~HistoryWrite(c) /\ ~HistoryWrite(d)
      BY <1>4, <2>3, LockSource DEF ExclusiveInv
    <2> QED
      BY <2>2, <2>3
  <1>5. ASSUME NEW c \in Clients, NEW t \in sent', HoldsKey(c)'
        PROVE  KeyHash(req'[c]) # t.event.keyHash
    <2>1. CASE t \in sent /\ HistoryWrite(c)
      BY <2>1 DEF HistoryWrite, KeyLockedByOther
    <2>2. CASE t \in sent /\ ~HistoryWrite(c)
      BY <1>5, <2>2, LockSource DEF ExclusiveInv
    <2>3. ASSUME NEW d \in Clients, SendCommit(d), t = CommitOf(d)
          PROVE  KeyHash(req'[c]) # t.event.keyHash
      <3>1. c # d
        BY <1>5, <2>3, SentFacts
      <3>2. HoldsKey(c) /\ req'[c] = req[c]
        BY <1>5, <2>3, <3>1, OthersUntouched DEF Advances, Untouched, HoldsKey
      <3> QED
        BY <2>3, <3>1, <3>2, SentFacts DEF ExclusiveInv
    <2> QED
      BY <2>1, <2>2, <2>3, SentSource
  <1>6. ASSUME NEW e \in history', NEW c \in Clients, HoldsKey(c)'
        PROVE  KeyHash(req'[c]) # e.keyHash
    <2>1. CASE HistoryWrite(c)
      BY <2>1 DEF HistoryWrite, ReceiptsFor, db
    <2>2. CASE ~HistoryWrite(c)
      <3>1. HoldsKey(c) /\ req'[c] = req[c]
        BY <1>6, <2>2, LockSource
      <3>2. e \in history \/ \E t \in sent : e = t.event
        BY Frame, CommitEffect
      <3> QED
        BY <3>1, <3>2 DEF ExclusiveInv
    <2> QED
      BY <2>1, <2>2
  <1>7. ASSUME NEW e \in history', NEW t \in sent'
        PROVE  t.event.keyHash # e.keyHash
    <2>1. CASE t \in sent /\ e \in history
      BY <2>1 DEF ExclusiveInv
    <2>2. ASSUME NEW u \in sent, CommitDurable(u), e = u.event
          PROVE  t.event.keyHash # e.keyHash
      BY <2>2, CommitEffect DEF ExclusiveInv
    <2>3. ASSUME NEW c \in Clients, SendCommit(c), t = CommitOf(c)
          PROVE  t.event.keyHash # e.keyHash
      BY <2>3, SentFacts DEF ExclusiveInv
    <2>4. e \in history \/ \E u \in sent : CommitDurable(u) /\ e = u.event
      BY Frame, CommitEffect
    <2> QED
      BY <2>1, <2>2, <2>3, <2>4, SentSource
  <1> QED
    BY <1>1, <1>2, <1>3, <1>4, <1>5, <1>6, <1>7
       DEF ExclusiveInv, HoldsRow, HoldsKey, Package, KeyHash

-----------------------------------------------------------------------------
\* A draft is written once: later stages of the call keep its event.
LEMMA DraftSource ==
  ASSUME TypeOK, SessionInv, [Next]_vars, NEW c \in Clients, HasDraft(c)'
  PROVE  \/ StatusWrite(c)
         \/ /\ HasDraft(c) /\ draft'[c].event = draft[c].event
            /\ stage'[c] \in AfterWrite => stage[c] \in AfterWrite
  <1> USE DEF HasDraft, AfterWrite, Goto
  <1>1. CASE Untouched(c) \/ Acknowledged(c)
    BY <1>1 DEF Untouched, Acknowledged
  <1>2. CASE Finish(c) \/ \E r \in Requests : Start(c, r)
    BY <1>2 DEF Finish, Start, TypeOK
  <1>3. CASE Authorize(c) \/ LookupMiss(c) \/ Verify(c) \/ Begin(c) \/ TxMiss(c) \/ Lock(c)
             \/ PredecessorsVerified(c)
    BY <1>3 DEF Authorize, LookupMiss, Verify, Begin, TxMiss, Lock, PredecessorsVerified, TypeOK
  <1>4. CASE HistoryWrite(c) \/ OutboxWrite(c)
    <2>1. draft[c] \in Drafts
      BY <1>4 DEF HistoryWrite, OutboxWrite, TypeOK, SessionInv, SessionOK
    <2>2. draft'[c].event = draft[c].event
      BY <1>4, <2>1 DEF HistoryWrite, OutboxWrite, Writes, TypeOK, Drafts
    <2> QED
      BY <1>4, <2>2 DEF HistoryWrite, OutboxWrite, TypeOK
  <1>5. CASE SendCommit(c)
    BY <1>5 DEF SendCommit, TypeOK
  <1> QED
    BY <1>1, <1>2, <1>3, <1>4, <1>5, ClientStep DEF Advances

\* A new draft's event id is used nowhere else.
LEMMA FreshDraft ==
  ASSUME TypeOK, SessionInv, ChecksInv, NEW c \in Clients, StatusWrite(c)
  PROVE  /\ \A d \in Clients : HasDraft(d) => draft[d].event.eventId # draft'[c].event.eventId
         /\ \A t \in sent : t.event.eventId # draft'[c].event.eventId
         /\ \A e \in history : e.eventId # draft'[c].event.eventId
  <1>1. PICK id \in FreshIds : draft'[c] = NewDraft(c, id)
    BY StatusWriteDraft
  <1>2. draft'[c].event.eventId = id
    BY <1>1 DEF NewDraft
  <1>3. \A d \in Clients : HasDraft(d) => draft[d] # None
    BY DEF SessionInv, SessionOK
  <1> QED
    BY <1>2, <1>3 DEF FreshIds

\* Event ids stay unused by others until their transaction ends.
LEMMA FreshStep ==
  ASSUME TypeOK, SessionInv, ChecksInv, SentInv, FreshInv, [Next]_vars
  PROVE  FreshInv'
  <1>1. ASSUME NEW c \in Clients, NEW d \in Clients, c # d,
               stage'[c] \in AfterWrite, HasDraft(d)'
        PROVE  draft'[c].event.eventId # draft'[d].event.eventId
    <2>0. HasDraft(c)'
      BY <1>1 DEF HasDraft
    <2>1. ASSUME NEW a \in Clients, NEW b \in Clients, a # b, HasDraft(b)', StatusWrite(a)
          PROVE  draft'[a].event.eventId # draft'[b].event.eventId
      <3>1. HasDraft(b) /\ draft'[b] = draft[b]
        BY <2>1, OthersUntouched DEF Advances, Untouched, HasDraft
      <3> QED
        BY <2>1, <3>1, FreshDraft
    <2>2. CASE StatusWrite(c) \/ StatusWrite(d)
      BY <1>1, <2>0, <2>1, <2>2
    <2>3. CASE ~StatusWrite(c) /\ ~StatusWrite(d)
      <3>1. stage[c] \in AfterWrite /\ draft'[c].event = draft[c].event
        BY <1>1, <2>0, <2>3, DraftSource
      <3>2. HasDraft(d) /\ draft'[d].event = draft[d].event
        BY <1>1, <2>3, DraftSource
      <3> QED
        BY <1>1, <3>1, <3>2 DEF FreshInv
    <2> QED
      BY <2>2, <2>3
  <1>2. ASSUME NEW c \in Clients, NEW t \in sent', stage'[c] \in AfterWrite
        PROVE  draft'[c].event.eventId # t.event.eventId
    <2>0. HasDraft(c)'
      BY <1>2 DEF HasDraft
    <2>1. CASE t \in sent /\ StatusWrite(c)
      BY <2>1, FreshDraft
    <2>2. CASE t \in sent /\ ~StatusWrite(c)
      BY <1>2, <2>0, <2>2, DraftSource DEF FreshInv
    <2>3. ASSUME NEW d \in Clients, SendCommit(d), t = CommitOf(d)
          PROVE  draft'[c].event.eventId # t.event.eventId
      <3>1. c # d
        BY <1>2, <2>3 DEF SendCommit, Goto, AfterWrite, TypeOK
      <3>2. stage[c] \in AfterWrite /\ draft'[c] = draft[c]
        BY <1>2, <2>3, <3>1, OthersUntouched DEF Advances, Untouched
      <3>3. HasDraft(d) /\ t.event = draft[d].event
        BY <2>3, SentFacts DEF SendCommit, HasDraft, AfterWrite
      <3> QED
        BY <3>1, <3>2, <3>3 DEF FreshInv
    <2> QED
      BY <2>1, <2>2, <2>3, SentSource
  <1>3. ASSUME NEW t \in sent', NEW u \in sent', t # u
        PROVE  t.event.eventId # u.event.eventId
    <2>1. CASE t \in sent /\ u \in sent
      BY <1>3, <2>1 DEF FreshInv
    <2>2. ASSUME NEW d \in Clients, SendCommit(d), NEW w \in sent
          PROVE  CommitOf(d).event.eventId # w.event.eventId
      BY <2>2, SentFacts DEF FreshInv, SendCommit, AfterWrite
    <2>3. ASSUME NEW c \in Clients, NEW d \in Clients, SendCommit(c), SendCommit(d)
          PROVE  CommitOf(c) = CommitOf(d)
      BY <2>3, SentFacts
    <2> QED
      BY <1>3, <2>1, <2>2, <2>3, SentSource
  <1>4. ASSUME NEW e \in history', NEW c \in Clients, stage'[c] \in AfterWrite
        PROVE  draft'[c].event.eventId # e.eventId
    <2>0. HasDraft(c)'
      BY <1>4 DEF HasDraft
    <2>1. CASE StatusWrite(c)
      <3>1. history' = history
        BY <2>1 DEF StatusWrite, db
      <3> QED
        BY <2>1, <3>1, FreshDraft
    <2>2. CASE ~StatusWrite(c)
      <3>1. stage[c] \in AfterWrite /\ draft'[c].event = draft[c].event
        BY <1>4, <2>0, <2>2, DraftSource
      <3>2. e \in history \/ \E t \in sent : e = t.event
        BY Frame, CommitEffect
      <3> QED
        BY <3>1, <3>2 DEF FreshInv
    <2> QED
      BY <2>1, <2>2
  <1>5. ASSUME NEW e \in history', NEW t \in sent'
        PROVE  t.event.eventId # e.eventId
    <2>1. CASE t \in sent /\ e \in history
      BY <2>1 DEF FreshInv
    <2>2. ASSUME NEW u \in sent, CommitDurable(u), e = u.event
          PROVE  t.event.eventId # e.eventId
      <3>1. sent' = sent \ {u}
        BY <2>2, CommitEffect
      <3> QED
        BY <2>2, <3>1 DEF FreshInv
    <2>3. ASSUME NEW c \in Clients, SendCommit(c), t = CommitOf(c)
          PROVE  t.event.eventId # e.eventId
      BY <2>3, SentFacts DEF FreshInv, SendCommit, AfterWrite
    <2>4. e \in history \/ \E u \in sent : CommitDurable(u) /\ e = u.event
      BY Frame, CommitEffect
    <2> QED
      BY <2>1, <2>2, <2>3, <2>4, SentSource
  <1> QED
    BY <1>1, <1>2, <1>3, <1>4, <1>5 DEF FreshInv, HasDraft

-----------------------------------------------------------------------------
\* How the commit of t moves its package's row, in terms of the old one.
LEMMA CommittedRow ==
  ASSUME TypeOK, SentInv, NEW t \in sent, CommitDurable(t)
  PROVE  LET e == t.event
         IN /\ e \in Events /\ e.package \in Packages
            /\ row[e.package].version \in Nat \ {0} /\ e.version = row[e.package].version + 1
            /\ e.from = row[e.package].status
            /\ row'[e.package].version = e.version
            /\ row'[e.package].status = e.intent.status
            /\ row'[e.package].evidence = e.intent.evidence
            /\ \A p \in Packages : p # e.package => row'[p] = row[p]
            /\ history' = history \cup {e}
  <1> DEFINE e == t.event
  <1>1. /\ e \in Events /\ e.package \in Packages /\ history' = history \cup {e}
        /\ row' = [row EXCEPT ![e.package] =
                      [status |-> e.intent.status, version |-> e.version,
                       evidence |-> e.intent.evidence]]
    BY CommitEffect
  <1>2. SentOK(t)
    BY DEF SentInv
  <1>3. row[e.package].version \in Versions
    BY <1>1 DEF TypeOK, Rows
  <1>4. Versions \subseteq Nat \ {0}
    BY MaxVersionAssumption DEF Versions
  <1>5. row'[e.package] = [status |-> e.intent.status, version |-> e.version,
                           evidence |-> e.intent.evidence]
    BY <1>1 DEF TypeOK
  <1>6. \A p \in Packages : p # e.package => row'[p] = row[p]
    BY <1>1 DEF TypeOK
  <1>7. /\ row'[e.package].version = e.version
        /\ row'[e.package].status = e.intent.status
        /\ row'[e.package].evidence = e.intent.evidence
    BY <1>5
  <1>8. e.version = row[e.package].version + 1 /\ e.from = row[e.package].status
    BY <1>2 DEF SentOK
  <1> QED
    BY <1>1, <1>3, <1>4, <1>6, <1>7, <1>8

\* Versions are positive naturals, so that arithmetic on them is available.
LEMMA VersionTypes ==
  ASSUME TypeOK
  PROVE  /\ \A p \in Packages : row[p].version \in Nat \ {0}
         /\ \A e \in history : e \in Events /\ e.package \in Packages /\ e.version \in Nat
  <1>1. Versions \subseteq Nat \ {0}
    BY MaxVersionAssumption DEF Versions
  <1>2. \A p \in Packages : row[p].version \in Versions
    BY DEF TypeOK, Rows
  <1>3. \A e \in history : e \in Events /\ e.package \in Packages /\ e.version \in Versions
    BY DEF TypeOK, Events
  <1> QED
    BY <1>1, <1>2, <1>3

\* A COMMIT extends the history of one package by the next version; no other step writes it.
LEMMA ChainStep ==
  ASSUME TypeOK, SentInv, ChainInv, [Next]_vars
  PROVE  ChainInv'
  <1>1. ASSUME NEW t \in sent, CommitDurable(t) PROVE ChainInv'
    <2> DEFINE e == t.event
               p == e.package
    <2>1. /\ e \in Events /\ p \in Packages
          /\ row[p].version \in Nat \ {0} /\ e.version = row[p].version + 1
          /\ e.from = row[p].status
          /\ row'[p].version = e.version /\ row'[p].status = e.intent.status
          /\ \A q \in Packages : q # p => row'[q] = row[q]
          /\ history' = history \cup {e}
      BY <1>1, CommittedRow
    <2>2. e.intent.id = p[2] /\ e.intent.status \in Transitions[e.from]
      BY DEF SentInv, SentOK
    <2>3. /\ \A d \in history : d.package \in Packages /\ d.version \in Nat
          /\ \A q \in Packages : row[q].version \in Nat \ {0}
      BY VersionTypes
    <2> HIDE DEF e, p
    <2>e. /\ e.version \in Nat /\ e.version > row[p].version
          /\ e.version = 2 => row[p].version = 1
      BY <2>1
    <2>b. ASSUME NEW d \in history
          PROVE  2 <= d.version /\ d.version <= row[d.package].version
      <3>1. d.version \in 2 .. row[d.package].version
        BY DEF ChainInv
      <3>2. row[d.package].version \in Nat
        BY <2>3
      <3> QED
        BY <3>1, <3>2
    <2>c. ASSUME NEW d \in history
          PROVE  /\ d.intent.id = d.package[2]
                 /\ d.intent.status \in Transitions[d.from]
                 /\ d.version = row[d.package].version
                      => d.intent.status = row[d.package].status
                 /\ d.version = 2 => d.from = "Not started"
      BY DEF ChainInv
    <2>4. ASSUME NEW d \in history'
          PROVE  /\ d.intent.id = d.package[2]
                 /\ d.version \in 2 .. row'[d.package].version
                 /\ d.intent.status \in Transitions[d.from]
                 /\ d.version = row'[d.package].version
                      => d.intent.status = row'[d.package].status
                 /\ d.version = 2 => d.from = "Not started"
      <3>1. CASE d = e
        <4>1. d.package = p
          BY <3>1 DEF p
        <4>2. d.version \in 2 .. row'[p].version
          BY <2>1, <2>e, <3>1
        <4>3. d.version = 2 => d.from = "Not started"
          BY <2>1, <2>e, <3>1 DEF ChainInv
        <4> QED
          BY <2>1, <2>2, <3>1, <4>1, <4>2, <4>3
      <3>2. CASE d \in history /\ d.package = p
        <4>1. d.version \in 2 .. row'[p].version /\ d.version # row'[p].version
          <5>1. d.version \in Nat /\ 2 <= d.version /\ d.version <= row[p].version
            BY <2>b, <2>3, <3>2
          <5> QED
            BY <2>1, <2>e, <5>1
        <4> QED
          BY <2>c, <3>2, <4>1
      <3>3. CASE d \in history /\ d.package # p
        <4>1. row'[d.package] = row[d.package]
          BY <2>1, <2>3, <3>3
        <4>2. d.version \in Nat /\ 2 <= d.version /\ d.version <= row[d.package].version
          BY <2>b, <2>3, <3>3
        <4>3. row[d.package].version \in Nat
          BY <2>3, <3>3
        <4>4. d.version \in 2 .. row'[d.package].version
          BY <4>1, <4>2, <4>3
        <4> QED
          BY <2>c, <3>3, <4>1, <4>4
      <3> QED
        BY <2>1, <3>1, <3>2, <3>3
    <2>5. ASSUME NEW c \in history', NEW d \in history', c.package = d.package
          PROVE  /\ c.version = d.version => c = d
                 /\ c.version + 1 = d.version => d.from = c.intent.status
      <3>1. \A a \in history : a.package = p => a.version < e.version
        BY <2>1, <2>3, <2>b, <2>e
      <3>2. \A a \in history : a.package = p /\ a.version + 1 = e.version
                                => e.from = a.intent.status
        <4> SUFFICES ASSUME NEW a \in history, a.package = p, a.version + 1 = e.version
                     PROVE  e.from = a.intent.status
          OBVIOUS
        <4>1. a.version = row[p].version
          BY <2>1, <2>3
        <4> QED
          BY <2>1, <2>c, <4>1
      <3>3. CASE c \in history /\ d \in history
        BY <2>5, <3>3 DEF ChainInv
      <3>4. CASE c \in history /\ d = e
        BY <2>1, <2>3, <2>5, <3>1, <3>2, <3>4 DEF p
      <3>5. CASE c = e /\ d \in history
        BY <2>1, <2>3, <2>5, <3>1, <3>5 DEF p
      <3>6. CASE c = e /\ d = e
        BY <2>1, <3>6
      <3> QED
        BY <2>1, <3>3, <3>4, <3>5, <3>6
    <2>6. ASSUME NEW q \in Packages
          PROVE  /\ row'[q].version = 1 => row'[q].status = "Not started"
                 /\ \A v \in 2 .. row'[q].version :
                      \E d \in history' : d.package = q /\ d.version = v
      <3>0. \A v \in 2 .. row[q].version : \E d \in history : d.package = q /\ d.version = v
        BY DEF ChainInv
      <3>1. CASE q # p
        <4>1. row'[q] = row[q]
          BY <2>1, <3>1
        <4>2. row[q].version = 1 => row[q].status = "Not started"
          BY DEF ChainInv
        <4> QED
          BY <2>1, <3>0, <4>1, <4>2
      <3>2. CASE q = p
        <4>1. row'[q].version # 1
          BY <2>1, <2>e, <3>2
        <4>2. ASSUME NEW v \in 2 .. row'[q].version
              PROVE  v \in 2 .. row[q].version \/ v = e.version
          BY <2>1, <2>e, <3>2, <4>2
        <4>3. e \in history' /\ e.package = q
          BY <2>1, <3>2 DEF p
        <4> QED
          BY <2>1, <3>0, <4>1, <4>2, <4>3
      <3> QED
        BY <3>1, <3>2
    <2> QED
      BY <2>4, <2>5, <2>6 DEF ChainInv
  <1>2. CASE UNCHANGED <<row, history>>
    <2>1. row' = row /\ history' = history
      BY <1>2
    <2>2. ASSUME NEW e \in history'
          PROVE  /\ e.intent.id = e.package[2]
                 /\ e.version \in 2 .. row'[e.package].version
                 /\ e.intent.status \in Transitions[e.from]
                 /\ e.version = row'[e.package].version =>
                      e.intent.status = row'[e.package].status
                 /\ e.version = 2 => e.from = "Not started"
      BY <2>1, <2>2 DEF ChainInv
    <2>3. ASSUME NEW d \in history', NEW e \in history', d.package = e.package
          PROVE  /\ d.version = e.version => d = e
                 /\ d.version + 1 = e.version => e.from = d.intent.status
      BY <2>1, <2>3 DEF ChainInv
    <2>4. ASSUME NEW p \in Packages
          PROVE  /\ row'[p].version = 1 => row'[p].status = "Not started"
                 /\ \A v \in 2 .. row'[p].version :
                      \E e \in history' : e.package = p /\ e.version = v
      <3>1. row[p].version = 1 => row[p].status = "Not started"
        BY DEF ChainInv
      <3>2. \A v \in 2 .. row[p].version : \E e \in history : e.package = p /\ e.version = v
        BY DEF ChainInv
      <3> QED
        BY <2>1, <3>1, <3>2
    <2> QED
      BY <2>2, <2>3, <2>4 DEF ChainInv
  <1> QED
    BY <1>1, <1>2, Frame

\* An event that replays a request is an event of the request's package.
LEMMA ReplayPackage ==
  ASSUME NEW e \in Events, e.package \in Packages, e.intent.id = e.package[2],
         NEW r \in Requests, Replays(e, r)
  PROVE  e.package = Package(r) /\ e.intent.expected = r.expected
  <1>1. e.package[1] = r.baseline /\ e.package[2] = r.id /\ e.intent.expected = r.expected
    BY RequestFacts DEF Replays
  <1> QED
    BY <1>1, PackageAssumption DEF Package

\* Only a call that finds its version past adds to the refused requests.
LEMMA RefusedSource ==
  ASSUME [Next]_vars, NEW r \in refused'
  PROVE  r \in refused \/ \E c \in Clients : /\ VersionConflict(c) /\ r = req[c]
                                            /\ row[Package(r)].version > r.expected
  <1> USE DEF db, session, ghosts
  <1>1. ASSUME NEW c \in Clients, Proceed(c), ~VersionConflict(c) PROVE r \in refused
    BY <1>1 DEF Proceed, Authorize, LookupReplay, LookupMiss, Verify, Begin, TxReplay, TxMiss,
                Lock, PredecessorsVerified, StatusWrite, HistoryWrite, OutboxWrite, SendCommit,
                Return, Reject, Answer
  <1>2. ASSUME NEW c \in Clients, VersionConflict(c)
        PROVE  r \in refused \/ (r = req[c] /\ row[Package(r)].version > r.expected)
    BY <1>2 DEF VersionConflict
  <1>3. ASSUME NEW c \in Clients, Fail(c) \/ \E q \in Requests : Start(c, q)
        PROVE  r \in refused
    BY <1>3 DEF Fail, Start
  <1>4. ASSUME NEW t \in sent, CommitRefused(t) \/ CommitDurable(t) PROVE r \in refused
    BY <1>4 DEF CommitRefused, CommitDurable
  <1>5. ASSUME MovePlacement \/ SetScopeState PROVE r \in refused
    BY <1>5 DEF MovePlacement, SetScopeState
  <1>6. CASE UNCHANGED vars
    BY <1>6 DEF vars
  <1> QED
    BY <1>1, <1>2, <1>3, <1>4, <1>5, <1>6 DEF Next, ResolveCommit

\* A row that has moved past a refused version never moves back.
LEMMA RefusedStep ==
  ASSUME TypeOK, SessionInv, ChecksInv, SentInv, SnapshotInv, ChainInv, RefusedInv, [Next]_vars
  PROVE  RefusedInv'
  <1> SUFFICES ASSUME NEW r \in refused'
               PROVE  /\ Package(r) \in Packages /\ row'[Package(r)].version > r.expected
                      /\ ~\E e \in history' : e.keyHash = KeyHash(r) /\ Replays(e, r)
    BY DEF RefusedInv, Package, KeyHash, Replays, Intent
  <1> DEFINE p == Package(r)
  <1>1. CASE r \in refused
    <2>1. /\ r \in Requests /\ p \in Packages /\ row[p].version > r.expected
          /\ ~\E e \in history : e.keyHash = KeyHash(r) /\ Replays(e, r)
      BY <1>1 DEF RefusedInv, TypeOK
    <2>2. ASSUME NEW t \in sent, CommitDurable(t)
          PROVE  /\ row'[p].version > r.expected
                 /\ ~\E e \in history' : e.keyHash = KeyHash(r) /\ Replays(e, r)
      <3>1. /\ t.event \in Events /\ t.event.package \in Packages
            /\ row[t.event.package].version \in Nat
            /\ row'[t.event.package].version = row[t.event.package].version + 1
            /\ \A q \in Packages : q # t.event.package => row'[q] = row[q]
            /\ history' = history \cup {t.event}
        BY <2>2, CommittedRow
      <3>2. r.expected \in Nat
        BY <2>1, RequestFacts, MaxVersionAssumption DEF Versions
      <3>3. row'[p].version > r.expected
        <4>1. CASE p = t.event.package
          BY <2>1, <3>1, <3>2, <4>1
        <4>2. CASE p # t.event.package
          BY <2>1, <3>1, <4>2
        <4> QED
          BY <4>1, <4>2
      <3>4. ASSUME Replays(t.event, r) PROVE FALSE
        <4>1. t.event.intent.id = t.event.package[2]
              /\ t.event.intent.expected = row[t.event.package].version
          BY DEF SentInv, SentOK
        <4>2. t.event.package = p /\ t.event.intent.expected = r.expected
          BY <2>1, <3>1, <3>4, <4>1, ReplayPackage
        <4> QED
          BY <2>1, <3>1, <3>2, <4>1, <4>2
      <3> QED
        BY <2>1, <3>1, <3>3, <3>4
    <2>3. CASE UNCHANGED <<row, history>>
      BY <2>1, <2>3
    <2> QED
      BY <2>1, <2>2, <2>3, Frame
  <1>2. ASSUME NEW c \in Clients, VersionConflict(c), r = req[c], row[p].version > r.expected
        PROVE  /\ p \in Packages /\ row'[p].version > r.expected
               /\ ~\E e \in history' : e.keyHash = KeyHash(r) /\ Replays(e, r)
    <2>1. /\ r \in Requests /\ p \in Packages /\ row[p] = snap[c].row[p]
          /\ UNCHANGED <<row, history>>
      BY <1>2 DEF VersionConflict, RowUnchanged, SessionInv, SessionOK, db
    <2>2. /\ {e \in snap[c].history : e.keyHash = KeyHash(r)} = {}
          /\ \A e \in history \ snap[c].history : snap[c].row[e.package].version < e.version
      BY <1>2 DEF VersionConflict, ChecksInv, ChecksOK, ReceiptsFor, SnapshotInv, SnapshotOK,
                  InTransaction, BeforeLock
    <2>3. ASSUME NEW e \in history, e.keyHash = KeyHash(r), Replays(e, r) PROVE FALSE
      <3>1. /\ e \in Events /\ e.package \in Packages /\ e.version \in Nat
            /\ row[p].version \in Nat
        BY <2>1, VersionTypes
      <3>2. e.intent.id = e.package[2] /\ e.version \in 2 .. row[e.package].version
        BY DEF ChainInv
      <3>3. e.package = p
        BY <2>1, <2>3, <3>1, <3>2, ReplayPackage
      <3>4. row[p].version < e.version
        BY <2>1, <2>2, <2>3, <3>3
      <3> QED
        BY <3>1, <3>2, <3>3, <3>4
    <2> QED
      BY <1>2, <2>1, <2>3
  <1> QED
    BY <1>1, <1>2, RefusedSource

-----------------------------------------------------------------------------
\* Receipts are only handed out for events of the history.
LEMMA AnsweredSource ==
  ASSUME [Next]_vars, NEW a \in answered'
  PROVE  \/ a \in answered
         \/ \E c \in Clients :
              \/ LookupReplay(c) /\ ~KeyConflict(req[c], history)
                 /\ \E e \in ReceiptsFor(req[c], history) : a = <<req[c], e>>
              \/ TxReplay(c) /\ ~KeyConflict(req[c], snap[c].history)
                 /\ \E e \in ReceiptsFor(req[c], snap[c].history) : a = <<req[c], e>>
              \/ Return(c) /\ a = <<req[c], draft[c].event>>
  <1> USE DEF db, session, ghosts
  <1>1. ASSUME NEW c \in Clients, Proceed(c), ~LookupReplay(c), ~TxReplay(c), ~Return(c)
        PROVE  a \in answered
    BY <1>1 DEF Proceed, Authorize, LookupMiss, Verify, Begin, TxMiss, Lock, VersionConflict,
                PredecessorsVerified, StatusWrite, HistoryWrite, OutboxWrite, SendCommit, Reject
  <1>2. ASSUME NEW c \in Clients, LookupReplay(c)
        PROVE  \/ a \in answered
               \/ ~KeyConflict(req[c], history)
                  /\ \E e \in ReceiptsFor(req[c], history) : a = <<req[c], e>>
    BY <1>2 DEF LookupReplay, Answer
  <1>3. ASSUME NEW c \in Clients, TxReplay(c)
        PROVE  \/ a \in answered
               \/ ~KeyConflict(req[c], snap[c].history)
                  /\ \E e \in ReceiptsFor(req[c], snap[c].history) : a = <<req[c], e>>
    BY <1>3 DEF TxReplay, Answer
  <1>4. ASSUME NEW c \in Clients, Return(c)
        PROVE  a \in answered \/ a = <<req[c], draft[c].event>>
    BY <1>4 DEF Return, Answer
  <1>5. ASSUME NEW c \in Clients, Fail(c) \/ \E r \in Requests : Start(c, r)
        PROVE  a \in answered
    BY <1>5 DEF Fail, Start
  <1>6. ASSUME NEW t \in sent, CommitRefused(t) \/ CommitDurable(t) PROVE a \in answered
    BY <1>6 DEF CommitRefused, CommitDurable
  <1>7. ASSUME MovePlacement \/ SetScopeState PROVE a \in answered
    BY <1>7 DEF MovePlacement, SetScopeState
  <1>8. CASE UNCHANGED vars
    BY <1>8 DEF vars
  <1> QED
    BY <1>1, <1>2, <1>3, <1>4, <1>5, <1>6, <1>7, <1>8 DEF Next, ResolveCommit

\* Events are never removed.
LEMMA HistoryGrows ==
  ASSUME TypeOK, SentInv, [Next]_vars PROVE history \subseteq history'
  BY Frame, CommitEffect

\* A receipt is issued for an event that is recorded, which stays so.
LEMMA ReceiptsStep ==
  ASSUME TypeOK, SessionInv, SentInv, SnapshotInv, ChainInv, ReceiptsAreDurable, [Next]_vars
  PROVE  ReceiptsAreDurable'
  <1> DEFINE Held(r, e) == /\ e \in history /\ e.keyHash = KeyHash(r)
                           /\ e.package = Package(r) /\ e.intent = Intent(r)
  <1>1. ASSUME NEW a \in answered PROVE Held(a[1], a[2])
    BY DEF ReceiptsAreDurable
  <1>2. ASSUME NEW r \in Requests, NEW H, H \subseteq history, ~KeyConflict(r, H),
               NEW e \in ReceiptsFor(r, H)
        PROVE  Held(r, e)
    <2>1. e \in history /\ e.keyHash = KeyHash(r) /\ Replays(e, r)
      BY <1>2 DEF ReceiptsFor, KeyConflict
    <2>2. e \in Events /\ e.package \in Packages /\ e.intent.id = e.package[2]
      BY <2>1, VersionTypes DEF ChainInv
    <2> QED
      BY <2>1, <2>2, ReplayPackage DEF Replays
  <1>3. ASSUME NEW c \in Clients, Return(c) PROVE Held(req[c], draft[c].event)
    BY <1>3 DEF Return, SessionInv, SessionOK, HasDraft
  <1>4. ASSUME NEW c \in Clients, LookupReplay(c) \/ TxReplay(c) PROVE req[c] \in Requests
    BY <1>4 DEF LookupReplay, TxReplay, SessionInv, SessionOK
  <1>5. ASSUME NEW c \in Clients, TxReplay(c) PROVE snap[c].history \subseteq history
    BY <1>5 DEF TxReplay, SnapshotInv, SnapshotOK, InTransaction, BeforeLock
  <1> HIDE DEF Held
  <1>6. ASSUME NEW a \in answered' PROVE Held(a[1], a[2])
    BY <1>1, <1>2, <1>3, <1>4, <1>5, AnsweredSource
  <1> QED
    BY <1>6, HistoryGrows DEF ReceiptsAreDurable, Held, KeyHash, Package, Intent

\* Whoever commits holds the key, and found no event for it in its snapshot or since.
LEMMA OneEventStep ==
  ASSUME TypeOK, SentInv, ExclusiveInv, FreshInv, OneEventPerKey, [Next]_vars
  PROVE  OneEventPerKey'
  <1>1. ASSUME NEW t \in sent, CommitDurable(t) PROVE OneEventPerKey'
    <2>1. history' = history \cup {t.event}
      BY <1>1, CommitEffect
    <2>2. \A e \in history : e.keyHash # t.event.keyHash /\ e.eventId # t.event.eventId
      BY DEF ExclusiveInv, FreshInv
    <2> QED
      BY <2>1, <2>2 DEF OneEventPerKey
  <1> QED
    BY <1>1, Frame DEF OneEventPerKey

\* A COMMIT writes the event and its outbox entry together.
LEMMA OutboxStep ==
  ASSUME TypeOK, SentInv, OutboxMatchesHistory, [Next]_vars
  PROVE  OutboxMatchesHistory'
  <1>1. ASSUME NEW t \in sent, CommitDurable(t) PROVE OutboxMatchesHistory'
    <2>1. history' = history \cup {t.event} /\ outbox' = outbox \cup {t.event.eventId}
      BY <1>1, CommitEffect
    <2> QED
      BY <2>1 DEF OutboxMatchesHistory
  <1> QED
    BY <1>1, Frame DEF OutboxMatchesHistory

\* Done is written with the evidence verified for the version locked.
LEMMA DoneStep ==
  ASSUME TypeOK, SentInv, DoneIsVerified, [Next]_vars
  PROVE  DoneIsVerified'
  <1> SUFFICES ASSUME NEW p \in Packages, row'[p].status = "Done"
               PROVE  <<p[2], row'[p].version - 1, row'[p].evidence>> \in verified'
    BY DEF DoneIsVerified
  <1>1. ASSUME NEW t \in sent, CommitDurable(t), p = t.event.package
        PROVE  <<p[2], row'[p].version - 1, row'[p].evidence>> \in verified'
    <2>1. /\ row[p].version \in Nat /\ row'[p].version = row[p].version + 1
          /\ row'[p].status = t.event.intent.status /\ row'[p].evidence = t.event.intent.evidence
      BY <1>1, CommittedRow
    <2>2. row'[p].version - 1 = row[p].version
      BY <2>1
    <2>3. <<p[2], row[p].version, row'[p].evidence>> \in verified
      BY <1>1, <2>1 DEF SentInv, SentOK
    <2> QED
      BY <2>2, <2>3, VerifiedGrows
  <1>2. ASSUME NEW t \in sent, CommitDurable(t), p # t.event.package
        PROVE  <<p[2], row'[p].version - 1, row'[p].evidence>> \in verified'
    <2>1. row'[p] = row[p]
      BY <1>2, CommittedRow
    <2> QED
      BY <2>1, VerifiedGrows DEF DoneIsVerified
  <1>3. CASE UNCHANGED <<row, history>>
    BY <1>3, VerifiedGrows DEF DoneIsVerified
  <1> QED
    BY <1>1, <1>2, <1>3, Frame

\* A predecessor that is Done stays Done: it has no move out of it.
LEMMA StartedStep ==
  ASSUME TypeOK, SentInv, StartedAfterPredecessors, [Next]_vars
  PROVE  StartedAfterPredecessors'
  <1> SUFFICES ASSUME NEW p \in Packages, row'[p].status \in Started
               PROVE  PredecessorsDone(p, row)'
    BY DEF StartedAfterPredecessors, PredecessorsDone
  <1>1. ASSUME NEW t \in sent, CommitDurable(t), p = t.event.package
        PROVE  PredecessorsDone(p, row)
    <2>1. row'[p].status = t.event.intent.status
      BY <1>1, CommittedRow
    <2> QED
      BY <1>1, <2>1 DEF SentInv, SentOK
  <1>2. ASSUME row'[p] = row[p] PROVE PredecessorsDone(p, row)
    BY <1>2 DEF StartedAfterPredecessors
  <1>3. PredecessorsDone(p, row)
    BY <1>1, <1>2, Frame, CommittedRow
  <1> QED
    BY <1>3, PredecessorsStable

-----------------------------------------------------------------------------
\* The values of the initial state have their types.
LEMMA FirstValues ==
  /\ 1 \in Versions /\ 1 \in 1 .. MaxEpoch /\ "Not started" \in Statuses
  /\ \A v \in 2 .. 1 : FALSE
  <1>1. 1 \in Versions
    BY MaxVersionAssumption DEF Versions
  <1>2. 1 \in 1 .. MaxEpoch
    BY BoundAssumption
  <1>3. "Not started" \in Statuses
    BY DEF Statuses
  <1>4. \A v \in 2 .. 1 : FALSE
    OBVIOUS
  <1> QED
    BY <1>1, <1>2, <1>3, <1>4

\* The initial state satisfies the invariant: nothing recorded, nobody active.
LEMMA InitInv == Init => IInv
  <1> SUFFICES ASSUME Init PROVE IInv
    OBVIOUS
  <1> USE DEF Init
  <1>1. TypeOK
    BY FirstValues DEF TypeOK, Rows, Stages
  <1>2. SessionInv
    BY DEF SessionInv, SessionOK, HasDraft, InTransaction, BeforeLock, BeforeWrite, AfterWrite
  <1>3. ChecksInv
    BY DEF ChecksInv, ChecksOK, HoldsRow, InTransaction, BeforeLock, BeforeWrite, AfterWrite
  <1>4. SentInv
    BY DEF SentInv
  <1>5. ExclusiveInv
    BY DEF ExclusiveInv, HoldsRow, HoldsKey, BeforeWrite, AfterWrite
  <1>6. FreshInv
    BY DEF FreshInv, AfterWrite
  <1>7. SnapshotInv
    BY DEF SnapshotInv, InTransaction, BeforeLock, BeforeWrite, AfterWrite
  <1>8. ChainInv
    <2>1. \A p \in Packages : row[p].version = 1 /\ row[p].status = "Not started"
      OBVIOUS
    <2>2. \A p \in Packages : \A v \in 2 .. row[p].version : FALSE
      BY <2>1, FirstValues
    <2> QED
      BY <2>1, <2>2 DEF ChainInv
  <1>9. RefusedInv /\ ReceiptsAreDurable /\ OneEventPerKey
    BY DEF RefusedInv, ReceiptsAreDurable, OneEventPerKey
  <1>10. OutboxMatchesHistory
    BY DEF OutboxMatchesHistory
  <1>11. DoneIsVerified /\ StartedAfterPredecessors
    BY DEF DoneIsVerified, StartedAfterPredecessors, Started
  <1> QED
    BY <1>1, <1>2, <1>3, <1>4, <1>5, <1>6, <1>7, <1>8, <1>9, <1>10, <1>11 DEF IInv

\* Every step preserves the invariant.
LEMMA StepInv == IInv /\ [Next]_vars => IInv'
  <1> SUFFICES ASSUME IInv, [Next]_vars PROVE IInv'
    OBVIOUS
  <1>1. TypeOK' /\ SessionInv' /\ ChecksInv' /\ SentInv'
    BY TypeStep, SessionStep, ChecksStep, SentStep DEF IInv
  <1>2. ExclusiveInv' /\ FreshInv' /\ SnapshotInv'
    BY ExclusiveStep, FreshStep, SnapshotStep DEF IInv
  <1>3. ChainInv' /\ RefusedInv' /\ ReceiptsAreDurable'
    BY ChainStep, RefusedStep, ReceiptsStep DEF IInv
  <1>4. OneEventPerKey' /\ OutboxMatchesHistory' /\ DoneIsVerified' /\ StartedAfterPredecessors'
    BY OneEventStep, OutboxStep, DoneStep, StartedStep DEF IInv
  <1> QED
    BY <1>1, <1>2, <1>3, <1>4 DEF IInv

\* The inductive invariant of the service and its repository.
THEOREM Invariance == Spec => []IInv
  <1> QED
    BY InitInv, StepInv, PTL DEF Spec

\* Every variable keeps its type: no status, version, receipt or outbox row
\* outside the schema is ever written by a status change.
THEOREM TypeCorrect == Spec => []TypeOK
  <1>1. IInv => TypeOK
    BY DEF IInv
  <1> QED
    BY <1>1, Invariance, PTL

\* A receipt handed to a caller stands for a committed event of its own key,
\* package and intent, whatever happens to the call that wrote it.
THEOREM DurableReceipts == Spec => []ReceiptsAreDurable
  <1>1. IInv => ReceiptsAreDurable
    BY DEF IInv
  <1> QED
    BY <1>1, Invariance, PTL

\* Any number of concurrent sends of one idempotency key record one event.
THEOREM AtMostOneEvent == Spec => []OneEventPerKey
  <1>1. IInv => OneEventPerKey
    BY DEF IInv
  <1> QED
    BY <1>1, Invariance, PTL

\* The transactional outbox holds exactly the recorded changes.
THEOREM OutboxIsExact == Spec => []OutboxMatchesHistory
  <1>1. IInv => OutboxMatchesHistory
    BY DEF IInv
  <1> QED
    BY <1>1, Invariance, PTL

\* Done is only reached on evidence verified for the version it was reached on.
THEOREM DoneHasProof == Spec => []DoneIsVerified
  <1>1. IInv => DoneIsVerified
    BY DEF IInv
  <1> QED
    BY <1>1, Invariance, PTL

\* The dependency rule holds of all packages at once, in every committed state.
THEOREM DependencyOrder == Spec => []StartedAfterPredecessors
  <1>1. IInv => StartedAfterPredecessors
    BY DEF IInv
  <1> QED
    BY <1>1, Invariance, PTL

\* A version conflict that names a past version is final for that request.
THEOREM RefusalIsFinal == Spec => []StaleRefusalIsFinal
  <1>1. IInv => StaleRefusalIsFinal
    BY DEF IInv, RefusedInv, StaleRefusalIsFinal
  <1> QED
    BY <1>1, Invariance, PTL

\* Each version after the first was given the status of its one event.
LEMMA StatusOfEvent ==
  ASSUME ChainInv, NEW e \in history, e.version # 1
  PROVE  StatusAt(e.package, e.version) = {e.intent.status}
  <1>1. ASSUME NEW d \in history, d.package = e.package, d.version = e.version PROVE d = e
    BY <1>1 DEF ChainInv
  <1> QED
    BY <1>1 DEF StatusAt

\* ChainInv says event by event what HistoryIsChain says of the whole history.
LEMMA ChainOfEvents ==
  ASSUME TypeOK, ChainInv PROVE HistoryIsChain
  <1> SUFFICES ASSUME NEW p \in Packages
               PROVE  /\ StatusAt(p, row[p].version) = {row[p].status}
                      /\ \A v \in 1 .. row[p].version : StatusAt(p, v) # {}
                      /\ \A e \in history : e.package = p =>
                           /\ e.version \in 2 .. row[p].version
                           /\ StatusAt(p, e.version - 1) = {e.from}
                           /\ e.intent.status \in Transitions[e.from]
    BY DEF HistoryIsChain
  <1>1. row[p].version \in Nat \ {0}
    BY VersionTypes
  <1>2. ASSUME NEW v \in 2 .. row[p].version
        PROVE  \E e \in history : /\ e.package = p /\ e.version = v
                                  /\ StatusAt(p, v) = {e.intent.status}
    <2>1. PICK e \in history : e.package = p /\ e.version = v
      BY DEF ChainInv
    <2>2. e.version # 1
      BY <1>1, <2>1
    <2> QED
      BY <2>1, <2>2, StatusOfEvent
  <1>3. StatusAt(p, 1) = {"Not started"}
    BY DEF StatusAt
  <1>4. StatusAt(p, row[p].version) = {row[p].status}
    <2>1. CASE row[p].version = 1
      BY <1>3, <2>1 DEF ChainInv
    <2>2. CASE row[p].version # 1
      <3>1. row[p].version \in 2 .. row[p].version
        BY <1>1, <2>2
      <3>2. PICK e \in history : /\ e.package = p /\ e.version = row[p].version
                                 /\ StatusAt(p, row[p].version) = {e.intent.status}
        BY <1>2, <3>1
      <3>3. e.intent.status = row[p].status
        BY <3>2 DEF ChainInv
      <3> QED
        BY <3>2, <3>3
    <2> QED
      BY <2>1, <2>2
  <1>5. ASSUME NEW v \in 1 .. row[p].version PROVE StatusAt(p, v) # {}
    <2>1. v = 1 \/ v \in 2 .. row[p].version
      BY <1>1
    <2> QED
      BY <1>2, <1>3, <2>1
  <1>6. ASSUME NEW e \in history, e.package = p
        PROVE  /\ e.version \in 2 .. row[p].version
               /\ StatusAt(p, e.version - 1) = {e.from}
               /\ e.intent.status \in Transitions[e.from]
    <2>1. e.version \in 2 .. row[p].version /\ e.intent.status \in Transitions[e.from]
      BY <1>6 DEF ChainInv
    <2>2. CASE e.version = 2
      <3>1. e.from = "Not started"
        BY <2>2 DEF ChainInv
      <3>2. e.version - 1 = 1
        BY <2>2
      <3> QED
        BY <1>3, <2>1, <3>1, <3>2
    <2>3. CASE e.version # 2
      <3>1. e.version - 1 \in 2 .. row[p].version
        BY <1>1, <2>1, <2>3
      <3>2. PICK d \in history : /\ d.package = p /\ d.version = e.version - 1
                                 /\ StatusAt(p, e.version - 1) = {d.intent.status}
        BY <1>2, <3>1
      <3>3. d.version + 1 = e.version
        BY <2>1, <3>2
      <3>4. \A a, b \in history : a.package = b.package /\ a.version + 1 = b.version
                                   => b.from = a.intent.status
        BY DEF ChainInv
      <3>5. e.from = d.intent.status
        BY <1>6, <3>2, <3>3, <3>4
      <3> QED
        BY <2>1, <3>2, <3>5
    <2> QED
      BY <2>2, <2>3
  <1> QED
    BY <1>4, <1>5, <1>6

\* The history of every package is a gap-free legal chain ending in its row.
THEOREM HistoryChains == Spec => []HistoryIsChain
  <1>1. IInv => HistoryIsChain
    BY ChainOfEvents DEF IInv
  <1> QED
    BY <1>1, Invariance, PTL

\* Nothing is recorded for a caller bound to another placement or while the
\* scope is not active: the placement stays as Begin saw it until COMMIT.
THEOREM PlacementRespected == Spec => WritesUnderPlacement
  <1>1. IInv /\ [Next]_vars =>
          [\A t \in sent : (t \notin sent' /\ history' # history /\ t.event \in history') =>
              t.epoch = placement.epoch /\ placement.active]_vars
    BY DEF IInv, SentInv, SentOK
  <1> QED
    BY <1>1, Invariance, PTL DEF Spec, WritesUnderPlacement

-----------------------------------------------------------------------------
\* Seen from the ledger, a step records one event, hands out one receipt or
\* does nothing.
LEMMA LedgerView ==
  ASSUME [Next]_vars
  PROVE  \/ \E t \in sent : CommitDurable(t)
         \/ UNCHANGED <<row, history, answered>>
         \/ UNCHANGED <<row, history>> /\ \E a : answered' = answered \cup {a}
  <1> USE DEF db, session, ghosts
  <1>1. ASSUME NEW c \in Clients, LookupReplay(c) \/ TxReplay(c) \/ Return(c)
        PROVE  UNCHANGED <<row, history>> /\ \E a : answered' = answered \cup {a}
    BY <1>1 DEF LookupReplay, TxReplay, Return, Answer
  <1>2. ASSUME NEW c \in Clients, Proceed(c), ~LookupReplay(c), ~TxReplay(c), ~Return(c)
        PROVE  UNCHANGED <<row, history, answered>>
    BY <1>2 DEF Proceed, Authorize, LookupMiss, Verify, Begin, TxMiss, Lock, VersionConflict,
                PredecessorsVerified, StatusWrite, HistoryWrite, OutboxWrite, SendCommit, Reject
  <1>3. ASSUME NEW c \in Clients, Fail(c) \/ \E r \in Requests : Start(c, r)
        PROVE  UNCHANGED <<row, history, answered>>
    BY <1>3 DEF Fail, Start
  <1>4. ASSUME NEW t \in sent, CommitRefused(t) PROVE UNCHANGED <<row, history, answered>>
    BY <1>4 DEF CommitRefused
  <1>5. ASSUME MovePlacement \/ SetScopeState PROVE UNCHANGED <<row, history, answered>>
    BY <1>5 DEF MovePlacement, SetScopeState
  <1>6. CASE UNCHANGED vars
    BY <1>6 DEF vars
  <1> QED
    BY <1>1, <1>2, <1>3, <1>4, <1>5, <1>6 DEF Next, ResolveCommit

\* The commit of a transaction is the ledger's Record of its event.
LEMMA CommitRecords ==
  ASSUME IInv, NEW t \in sent, CommitDurable(t)
  PROVE  Ledger!Next
  <1> DEFINE e == t.event
             p == e.package
             head == [q \in Packages |-> [status |-> row[q].status, version |-> row[q].version]]
  <1>1. /\ e \in Events /\ p \in Packages /\ history' = history \cup {e}
        /\ row'[p].version = e.version /\ row'[p].status = e.intent.status
        /\ \A q \in Packages : q # p => row'[q] = row[q]
    BY CommittedRow DEF IInv
  <1>2. \A d \in history : d.keyHash # e.keyHash /\ d.eventId # e.eventId
    BY DEF IInv, ExclusiveInv, FreshInv
  <1>3. Ledger!Legal(e)
    <2>1. SentOK(t)
      BY DEF IInv, SentInv
    <2>2. \A q \in Preds[p] : q \in Packages
      BY <1>1, PredsAssumption
    <2>3. e.intent.status \in Started => \A q \in Preds[p] : head[q].status = "Done"
      BY <2>1, <2>2 DEF SentOK, PredecessorsDone
    <2>4. head[p].status = row[p].status /\ head[p].version = row[p].version
      BY <1>1
    <2>5. Ledger!Transitions = Transitions /\ Ledger!Started = Started
      BY DEF Ledger!Transitions, Ledger!Started, Ledger!Statuses, Ledger!Moves,
             Transitions, Started, Statuses, Moves
    <2> QED
      BY <1>1, <2>1, <2>3, <2>4, <2>5 DEF SentOK, Ledger!Legal
  <1>4. head' = [head EXCEPT ![p] = [status |-> e.intent.status, version |-> e.version]]
    BY <1>1
  <1>5. UNCHANGED answered
    BY DEF CommitDurable, ghosts
  <1>6. Ledger!Record(e)
    BY <1>1, <1>2, <1>3, <1>4, <1>5 DEF Ledger!Record
  <1>7. e \in history' \ history
    BY <1>1, <1>2
  <1> QED
    BY <1>6, <1>7 DEF Ledger!Next

\* A receipt newly handed out is the ledger's Answer.
LEMMA ReceiptAnswers ==
  ASSUME IInv', UNCHANGED <<row, history>>, NEW a, a \notin answered,
         answered' = answered \cup {a}
  PROVE  Ledger!Next
  <1>1. a = <<a[1], a[2]>> /\ a[1] \in Requests
    BY DEF IInv, TypeOK
  <1>2. /\ a[2] \in history /\ a[2].keyHash = KeyHash(a[1])
        /\ a[2].package = Package(a[1]) /\ a[2].intent = Intent(a[1])
    BY DEF IInv, ReceiptsAreDurable, KeyHash, Package, Intent
  <1>3. Ledger!Answer(a[1], a[2])
    BY <1>1, <1>2 DEF Ledger!Answer, KeyHash, Package, Intent
  <1> QED
    BY <1>3 DEF Ledger!Next

\* The service with its repository implements the ledger: whatever happens
\* inside, callers see changes recorded once, legally and atomically, and
\* receipts of recorded changes only.
THEOREM Refinement == Spec => ImplementsLedger
  <1>1. Init => Ledger!Init
    <2> SUFFICES ASSUME Init PROVE Ledger!Init
      OBVIOUS
    <2>1. \A p \in Packages : row[p].status = "Not started" /\ row[p].version = 1
      BY DEF Init
    <2>2. history = {} /\ answered = {}
      BY DEF Init
    <2> QED
      BY <2>1, <2>2 DEF Ledger!Init
  <1>2. IInv /\ IInv' /\ [Next]_vars => [Ledger!Next]_(Ledger!vars)
    <2> SUFFICES ASSUME IInv, IInv', [Next]_vars PROVE [Ledger!Next]_(Ledger!vars)
      OBVIOUS
    <2>1. ASSUME NEW t \in sent, CommitDurable(t) PROVE Ledger!Next
      BY <2>1, CommitRecords
    <2>2. CASE UNCHANGED <<row, history, answered>>
      BY <2>2 DEF Ledger!vars
    <2>3. ASSUME UNCHANGED <<row, history>>, NEW a, answered' = answered \cup {a}
          PROVE  [Ledger!Next]_(Ledger!vars)
      <3>1. CASE a \in answered
        BY <2>3, <3>1 DEF Ledger!vars
      <3>2. CASE a \notin answered
        BY <2>3, <3>2, ReceiptAnswers
      <3> QED
        BY <3>1, <3>2
    <2> QED
      BY <2>1, <2>2, <2>3, LedgerView
  <1> QED
    BY <1>1, <1>2, Invariance, PTL DEF Spec, ImplementsLedger, Ledger!Spec
=============================================================================
