------------------------- MODULE PlacementDirectory -------------------------
(***************************************************************************)
(* placement.Directory: processes that each cache one signed snapshot, and *)
(* the checkpoint store they share.                                        *)
(*                                                                         *)
(* Install holds the install slot of its process from the checks of the    *)
(* document to its activation, and the lookup lock only before and after   *)
(* the calls of the store: lookups, revocations and other processes run in *)
(* between.  A call of the store that gives up leaves its write behind.    *)
(* Each reading of the clock may return any time.                          *)
(***************************************************************************)
EXTENDS PlacementSnapshot

CONSTANTS Directories,  \* processes
          Corrupt,      \* a checkpoint that validateCheckpoint refuses
          KeyFrom,      \* key -> start of its validity
          KeyUntil,     \* key -> end of its validity
          MaxLifetime,  \* longest life of a snapshot
          MaxTime,      \* bound on the clocks
          MaxFaults,    \* bound on failures, cancellations and restarts
          MaxRestores   \* bound on regressions of the store

ASSUME ClockAssumption ==
  /\ KeyFrom \in [Keys -> Nat] /\ KeyUntil \in [Keys -> Nat]
  /\ MaxLifetime \in Nat /\ MaxTime \in Nat /\ MaxFaults \in Nat /\ MaxRestores \in Nat

\* The digest of a checkpoint stands for the document it is of.
Checkpoints == [digest : Documents \cup {None},
                entries : EntryMaps]

ASSUME CorruptAssumption == Corrupt \notin Checkpoints

Writes == [by : Directories, awaited : BOOLEAN,
           expected : Documents \cup {None}, next : Documents]

VARIABLES
  checkpoint,  \* the durable anti-rollback record
  accepted,    \* documents that were ever made durable
  writes,      \* compare-and-swaps on their way to the store
  stage,       \* process -> how far its Install is
  doc,         \* process -> the document of its Install, or None
  active,      \* process -> its visible snapshot, or None
  revoked,     \* process -> keys revoked in this instance
  last,        \* process -> lastClock
  answer,      \* process -> the binding it returned last, or None
  faults,      \* failures, cancellations and restarts so far
  restores     \* regressions of the store so far

store == <<checkpoint, accepted, writes>>
install == <<stage, doc>>
cache == <<active, revoked, last>>
bounds == <<faults, restores>>
vars == <<store, install, cache, answer, bounds>>

Chain == INSTANCE PlacementChain

Record(d) == [digest |-> d, entries |-> d.entries]
Zero == [digest |-> None, entries |-> NoEntries]

Init ==
  /\ checkpoint = Zero
  /\ accepted = {}
  /\ writes = {}
  /\ stage = [p \in Directories |-> "idle"]
  /\ doc = [p \in Directories |-> None]
  /\ active = [p \in Directories |-> None]
  /\ revoked = [p \in Directories |-> {}]
  /\ last = [p \in Directories |-> 0]
  /\ answer = [p \in Directories |-> None]
  /\ faults = 0
  /\ restores = 0

-----------------------------------------------------------------------------
(* What the code looks at                                                  *)

VersionOf(d) == IF d = None THEN 0 ELSE d.version

\* clockLocked returns this time.
Reads(p, now) ==
  /\ last[p] <= now
  /\ last' = [last EXCEPT ![p] = now]

Trusted(p, key, now) ==
  /\ key \notin revoked[p]
  /\ KeyFrom[key] <= now /\ now < KeyUntil[key]

\* The validity checks of Install.
Valid(d, now) ==
  /\ d.issued <= now /\ now < d.expires
  /\ d.issued < d.expires /\ d.expires <= d.issued + MaxLifetime
  /\ KeyFrom[d.key] <= d.issued /\ d.expires <= KeyUntil[d.key]

\* Wrong: the same version is refused too.
RollbackOrSame(d) == VersionOf(checkpoint.digest) >= d.version

\* Older than the checkpoint, or another document of its version.
Rollback(d) ==
  /\ VersionOf(checkpoint.digest) >= d.version
  /\ checkpoint.digest # d

\* Wrong: only another document of the same version is noticed.
RegressedSame(p) ==
  /\ active[p] # None
  /\ VersionOf(checkpoint.digest) = active[p].version
  /\ checkpoint.digest # active[p]

\* The checkpoint is behind the visible snapshot.
Regressed(p) ==
  /\ active[p] # None
  /\ VersionOf(checkpoint.digest) <= active[p].version
  /\ checkpoint.digest # active[p]

Altered(d) == checkpoint.digest = d /\ checkpoint.entries # d.entries

Goto(p, s) == stage' = [stage EXCEPT ![p] = s]

Idle(p) ==
  /\ Goto(p, "idle")
  /\ doc' = [doc EXCEPT ![p] = None]

Serve(p, d) == active' = [active EXCEPT ![p] = d]

Fault == faults < MaxFaults /\ faults' = faults + 1

-----------------------------------------------------------------------------
(* Install                                                                 *)

\* The slot is taken and the document passes every check before the store.
Verify(p, d, now) ==
  /\ stage[p] = "idle"
  /\ Reads(p, now)
  /\ Trusted(p, d.key, now)
  /\ Valid(d, now)
  /\ Goto(p, "load")
  /\ doc' = [doc EXCEPT ![p] = d]
  /\ UNCHANGED <<store, active, revoked, answer, bounds>>

\* The checkpoint cannot be trusted: nothing is served.
LoadFailsClosed(p) ==
  /\ stage[p] = "load"
  /\ \/ checkpoint = Corrupt
     \/ /\ checkpoint # Corrupt
        /\ ~ Rollback(doc[p])
        /\ Regressed(p) \/ Altered(doc[p])
  /\ Serve(p, None)
  /\ Idle(p)
  /\ UNCHANGED <<store, revoked, last, answer, bounds>>

\* The document may not replace what was accepted: the visible one stays.
LoadRefuses(p) ==
  /\ stage[p] = "load"
  /\ checkpoint # Corrupt
  /\ \/ Rollback(doc[p])
     \/ /\ ~ Regressed(p) /\ ~ Altered(doc[p])
        /\ ~ Extends(checkpoint.entries, doc[p].entries)
  /\ Idle(p)
  /\ UNCHANGED <<store, cache, answer, bounds>>

Admits(p) ==
  /\ stage[p] = "load"
  /\ checkpoint # Corrupt
  /\ ~ Rollback(doc[p]) /\ ~ Regressed(p) /\ ~ Altered(doc[p])
  /\ Extends(checkpoint.entries, doc[p].entries)

\* The document is the accepted one already.
LoadSame(p) ==
  /\ Admits(p)
  /\ checkpoint.digest = doc[p]
  /\ Goto(p, "activate")
  /\ UNCHANGED <<store, doc, cache, answer, bounds>>

\* The compare-and-swap is sent.
LoadNewer(p) ==
  /\ Admits(p)
  /\ checkpoint.digest # doc[p]
  /\ writes' = writes \cup {[by |-> p, awaited |-> TRUE,
                             expected |-> checkpoint.digest, next |-> doc[p]]}
  /\ Goto(p, "swap")
  /\ UNCHANGED <<checkpoint, accepted, doc, cache, answer, bounds>>

\* Wrong: the clock that went on while the store was called is read, but not
\* compared.
ActivateUnclocked(p, now) ==
  /\ stage[p] = "activate"
  /\ doc[p].key \notin revoked[p]
  /\ Reads(p, now)
  /\ Serve(p, doc[p])
  /\ Idle(p)
  /\ UNCHANGED <<store, revoked, answer, bounds>>

\* The document is durable and still current: it becomes visible.
Activate(p, now) ==
  /\ stage[p] = "activate"
  /\ doc[p].key \notin revoked[p]
  /\ Reads(p, now)
  /\ now < doc[p].expires /\ now < KeyUntil[doc[p].key]
  /\ Serve(p, doc[p])
  /\ Idle(p)
  /\ UNCHANGED <<store, revoked, answer, bounds>>

\* Revoked or expired while the store was called.
TooLate(p, now) ==
  /\ stage[p] = "activate"
  /\ \/ doc[p].key \in revoked[p] /\ UNCHANGED last
     \/ /\ doc[p].key \notin revoked[p]
        /\ Reads(p, now)
        /\ ~ (now < doc[p].expires /\ now < KeyUntil[doc[p].key])
  /\ Serve(p, None)
  /\ Idle(p)
  /\ UNCHANGED <<store, revoked, answer, bounds>>

\* Wrong: the answer of the write finds the next call.
AbandonNone(p) == writes' = writes

\* The write of p, if one is awaited, goes on without it.
Abandon(p) ==
  writes' = {IF w.by = p THEN [w EXCEPT !.awaited = FALSE] ELSE w : w \in writes}

\* Load fails, or the caller cancels before the write: the visible one stays.
LoadError(p) ==
  /\ stage[p] = "load"
  /\ Fault
  /\ Idle(p)
  /\ UNCHANGED <<store, cache, answer, restores>>

\* Wrong: a write without an answer leaves the visible one in place.
UnconfirmedKeeps(p) ==
  /\ stage[p] \in {"swap", "activate"}
  /\ Fault
  /\ Abandon(p)
  /\ Idle(p)
  /\ UNCHANGED <<checkpoint, accepted, cache, answer, restores>>

\* The write has no answer, or the caller cancels or the clock is set back
\* after it: nothing is served.  (A reading of the clock before that is a Status
\* step.)
Unconfirmed(p) ==
  /\ stage[p] \in {"swap", "activate"}
  /\ Fault
  /\ Abandon(p)
  /\ Serve(p, None)
  /\ Idle(p)
  /\ UNCHANGED <<checkpoint, accepted, revoked, last, answer, restores>>

-----------------------------------------------------------------------------
(* Lookups, revocation and restarts                                        *)

Resolve(p, a, now) ==
  /\ Reads(p, now)
  /\ active[p] # None
  /\ Trusted(p, active[p].key, now)
  /\ active[p].issued <= now /\ now < active[p].expires
  /\ a \in DOMAIN active[p].entries
  /\ active[p].entries[a].state = "active"
  /\ answer' = [answer EXCEPT ![p] = [asset |-> a, document |-> active[p]]]
  /\ UNCHANGED <<store, install, active, revoked, bounds>>

\* Status, a lookup without an answer and a refused document only read the
\* clock.
Status(p, now) ==
  /\ Reads(p, now)
  /\ UNCHANGED <<store, install, active, revoked, answer, bounds>>

RevokeKey(p, key) ==
  /\ revoked' = [revoked EXCEPT ![p] = @ \cup {key}]
  /\ active' = [active EXCEPT ![p] = IF @ # None /\ @.key = key THEN None ELSE @]
  /\ UNCHANGED <<store, install, last, answer, bounds>>

\* New, after a crash.
Restart(p) ==
  /\ Fault
  /\ Abandon(p)
  /\ Idle(p)
  /\ Serve(p, None)
  /\ revoked' = [revoked EXCEPT ![p] = {}]
  /\ last' = [last EXCEPT ![p] = 0]
  /\ UNCHANGED <<checkpoint, accepted, answer, restores>>

-----------------------------------------------------------------------------
(* The store                                                               *)

\* Wrong: the previous checkpoint is not compared.
MatchesAny(w) == checkpoint # Corrupt

\* The whole previous checkpoint is compared.
Matches(w) == checkpoint # Corrupt /\ checkpoint.digest = w.expected

Swap(w) ==
  /\ Matches(w)
  /\ checkpoint' = Record(w.next)
  /\ accepted' = accepted \cup {w.next}
  /\ writes' = writes \ {w}
  /\ IF w.awaited THEN Goto(w.by, "activate") ELSE UNCHANGED stage
  /\ UNCHANGED <<doc, cache, answer, bounds>>

\* The answer is false.
Refuse(w) ==
  /\ ~ Matches(w)
  /\ writes' = writes \ {w}
  /\ IF w.awaited THEN Idle(w.by) /\ Serve(w.by, None) ELSE UNCHANGED <<install, active>>
  /\ UNCHANGED <<checkpoint, accepted, revoked, last, answer, bounds>>

\* Outside the contract of the store: it is restored from a backup or damaged.
Restore ==
  /\ restores < MaxRestores
  /\ restores' = restores + 1
  /\ checkpoint' \in {Zero, Corrupt} \cup {Record(d) : d \in accepted}
       \cup {[digest |-> d, entries |-> e.entries] : d \in accepted, e \in Documents}
  /\ UNCHANGED <<accepted, writes, install, cache, answer, faults>>

-----------------------------------------------------------------------------
Clock == 1 .. MaxTime

Install(p) ==
  \/ \E d \in Documents, now \in Clock : Verify(p, d, now)
  \/ LoadFailsClosed(p) \/ LoadRefuses(p) \/ LoadSame(p) \/ LoadNewer(p)
  \/ \E now \in Clock : Activate(p, now) \/ TooLate(p, now)
  \/ LoadError(p) \/ Unconfirmed(p)

Next ==
  \/ \E p \in Directories :
       \/ Install(p)
       \/ \E now \in Clock : Status(p, now) \/ \E a \in Assets : Resolve(p, a, now)
       \/ \E key \in Keys : RevokeKey(p, key)
       \/ Restart(p)
  \/ \E w \in writes : Swap(w) \/ Refuse(w)

Spec == Init /\ [][Next]_vars

\* With a store that may break its contract.
RestoreSpec == Init /\ [][Next \/ Restore]_vars

\* What answers within a bounded time: the code itself and the store.
Progress(p) ==
  \/ LoadFailsClosed(p) \/ LoadRefuses(p) \/ LoadSame(p) \/ LoadNewer(p)
  \/ \E now \in Clock : Activate(p, now) \/ TooLate(p, now)
  \/ \E w \in writes : w.by = p /\ w.awaited /\ (Swap(w) \/ Refuse(w))

\* The control plane offers the accepted document again.
Redeliver(p) ==
  /\ checkpoint.digest # None
  /\ \E now \in Clock : Verify(p, checkpoint.digest, now)

FairSpec ==
  /\ Spec
  /\ \A p \in Directories : WF_vars(Progress(p)) /\ SF_vars(Redeliver(p))

-----------------------------------------------------------------------------
(* Properties                                                              *)

\* Types; a process that is not installing has no document, and it awaits a
\* write exactly while its Install does, which is the write of its document.
TypeOK ==
  /\ checkpoint \in Checkpoints \cup {Corrupt}
  /\ accepted \subseteq Documents
  /\ writes \subseteq Writes
  /\ stage \in [Directories -> {"idle", "load", "swap", "activate"}]
  /\ doc \in [Directories -> Documents \cup {None}]
  /\ active \in [Directories -> Documents \cup {None}]
  /\ revoked \in [Directories -> SUBSET Keys]
  /\ last \in [Directories -> 0 .. MaxTime]
  /\ answer \in [Directories -> Chain!Bindings \cup {None}]
  /\ faults \in 0 .. MaxFaults
  /\ restores \in 0 .. MaxRestores
  /\ \A p \in Directories : stage[p] = "idle" <=> doc[p] = None
  /\ \A w \in writes : w.awaited => stage[w.by] = "swap" /\ doc[w.by] = w.next

\* Two processes never contradict each other: of two bindings of an asset,
\* given by anyone at any time, the one of the later snapshot has no lower
\* epoch, and the same placement if it has the same epoch.
AnswersAgree ==
  \A p, q \in Directories :
    /\ answer[p] # None /\ answer[q] # None
    /\ answer[p].asset = answer[q].asset
    /\ answer[p].document.version <= answer[q].document.version
    => LET old == answer[p].document.entries[answer[p].asset]
           new == answer[q].document.entries[answer[q].asset]
       IN  old.epoch < new.epoch \/ old = new

\* A snapshot becomes visible only if its key was not revoked and no reading
\* of the clock, by a lookup while the store was called either, has reached
\* its end or that of its key; and a revoked key has no visible snapshot.
ActivationIsCurrent ==
  [][\A p \in Directories :
       active'[p] # None =>
         /\ active'[p].key \notin revoked'[p]
         /\ active'[p] # active[p] =>
              last'[p] < active'[p].expires /\ last'[p] < KeyUntil[active'[p].key]]_vars

\* An Install that reached the store leaves its own snapshot visible, or none:
\* an uncertain write is never papered over with the snapshot before it.
InstallIsDecisive ==
  [][\A p \in Directories :
       stage[p] \in {"swap", "activate"} /\ stage'[p] = "idle" =>
         active'[p] \in {None, doc[p]}]_vars

\* Even when the store forgets, a visible snapshot is not replaced by an older
\* one or by another of its version.
NeverBelowLive ==
  [][\A p \in Directories :
       active[p] # None /\ active'[p] \notin {None, active[p]} =>
         active[p].version < active'[p].version]_vars

\* The processes implement the one history of PlacementChain.
ImplementsChain == Chain!Spec

\* Installing the accepted document again makes up for a lost answer of the
\* store: it becomes visible unless it is replaced, revoked or expired.
RetryRecovers ==
  \A p \in Directories, d \in Documents :
    (checkpoint.digest = d) ~>
      \/ active[p] = d \/ checkpoint.digest # d
      \/ d.key \in revoked[p] \/ d.expires <= last[p]
=============================================================================
