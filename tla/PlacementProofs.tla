-------------------------- MODULE PlacementProofs ---------------------------
(***************************************************************************)
(* Safety of PlacementDirectory for any number of processes, assets and    *)
(* documents.  LInv is inductive even when the store breaks its contract;  *)
(* HInv, which the history needs, is inductive when it does not.           *)
(***************************************************************************)
EXTENDS PlacementDirectory, TLAPS

-----------------------------------------------------------------------------
(* Documents                                                               *)

\* What a document is made of.
LEMMA DocumentParts ==
  ASSUME NEW d \in Documents
  PROVE  /\ d \in Snapshots
         /\ d.version \in 1 .. MaxSafe
         /\ d.expires \in Nat
         /\ d.key \in Keys
         /\ d.entries \in EntryMaps
         /\ \A a \in DOMAIN d.entries : a \in Assets /\ d.entries[a] \in Entries
         /\ d # None
         /\ Record(d) \in Checkpoints
  <1>1. d \in Snapshots /\ d # None
    BY DocumentAssumption, NoneAssumption
  <1>2. d.entries \in EntryMaps
    BY <1>1 DEF Snapshots
  <1>3. \A a \in DOMAIN d.entries : a \in Assets /\ d.entries[a] \in Entries
    BY <1>2 DEF EntryMaps
  <1>4. Record(d) \in Checkpoints
    BY <1>2 DEF Record, Checkpoints
  <1> QED
    BY <1>1, <1>2, <1>3, <1>4 DEF Snapshots

\* d comes before e in the history.
Before(d, e) == d.version < e.version /\ Extends(d.entries, e.entries)

LEMMA BeforeTransitive ==
  ASSUME NEW d \in Documents, NEW e \in Documents, NEW f \in Documents,
         Before(d, e), Before(e, f)
  PROVE  Before(d, f)
  <1>1. d.version < f.version
    BY DocumentParts, DocumentAssumption DEF Before
  <1>2. ASSUME NEW a \in DOMAIN d.entries
        PROVE  /\ a \in DOMAIN f.entries
               /\ d.entries[a].epoch <= f.entries[a].epoch
               /\ d.entries[a].epoch = f.entries[a].epoch => d.entries[a] = f.entries[a]
    <2>1. /\ a \in DOMAIN e.entries
          /\ d.entries[a].epoch <= e.entries[a].epoch
          /\ d.entries[a].epoch = e.entries[a].epoch => d.entries[a] = e.entries[a]
      BY <1>2 DEF Before, Extends
    <2>2. /\ a \in DOMAIN f.entries
          /\ e.entries[a].epoch <= f.entries[a].epoch
          /\ e.entries[a].epoch = f.entries[a].epoch => e.entries[a] = f.entries[a]
      BY <2>1 DEF Before, Extends
    <2>3. /\ d.entries[a].epoch \in Nat /\ e.entries[a].epoch \in Nat
          /\ f.entries[a].epoch \in Nat
      BY <1>2, <2>1, <2>2, DocumentParts, DocumentAssumption DEF Entries
    <2> QED
      BY <2>1, <2>2, <2>3
  <1> QED
    BY <1>1, <1>2 DEF Before, Extends

-----------------------------------------------------------------------------
(* The visible snapshot                                                    *)

OneAwaited ==
  \A v, w \in writes : v.awaited /\ w.awaited /\ v.by = w.by => v = w

ActiveTrusted ==
  \A p \in Directories : active[p] # None => active[p].key \notin revoked[p]

NotBelow ==
  \A p \in Directories :
    stage[p] \in {"swap", "activate"} /\ active[p] # None =>
      active[p] = doc[p] \/ active[p].version < doc[p].version

LInv == TypeOK /\ OneAwaited /\ ActiveTrusted /\ NotBelow

LEMMA InitLive == Init => LInv
  <1> SUFFICES ASSUME Init PROVE LInv
    OBVIOUS
  <1>1. NoEntries \in EntryMaps
    BY DEF NoEntries, EntryMaps
  <1>2. TypeOK
    BY <1>1, ClockAssumption DEF Init, TypeOK, Zero, Checkpoints
  <1> QED
    BY <1>2 DEF Init, LInv, OneAwaited, ActiveTrusted, NotBelow

\* An Install begins.
LEMMA VerifyLive ==
  ASSUME LInv, NEW p \in Directories, NEW d \in Documents, NEW now \in Clock, Verify(p, d, now)
  PROVE  LInv'
  <1> USE DEF store, cache, bounds
  <1>1. TypeOK'
    BY DocumentParts, ClockAssumption DEF LInv, TypeOK, Verify, Reads, Clock, Goto
  <1>2. OneAwaited' /\ ActiveTrusted' /\ NotBelow'
    BY DEF LInv, TypeOK, Verify, Goto, OneAwaited, ActiveTrusted, NotBelow
  <1> QED
    BY <1>1, <1>2 DEF LInv

\* An Install ends before its write, or without one.
LEMMA EndLive ==
  ASSUME LInv, NEW p \in Directories,
         \/ LoadFailsClosed(p) \/ LoadRefuses(p) \/ LoadError(p)
         \/ \E now \in Clock : Activate(p, now) \/ TooLate(p, now)
  PROVE  LInv'
  <1> USE DEF store, cache, bounds
  <1>1. /\ stage[p] \in {"load", "activate"} /\ Idle(p)
        /\ \/ active' = active \/ Serve(p, None)
           \/ Serve(p, doc[p]) /\ doc[p].key \notin revoked[p]
        /\ \/ last' = last \/ \E now \in Clock : last' = [last EXCEPT ![p] = now]
        /\ faults' \in 0 .. MaxFaults
        /\ UNCHANGED <<store, revoked, answer, restores>>
    BY ClockAssumption DEF LoadFailsClosed, LoadRefuses, LoadError, Activate, TooLate,
         Reads, Fault, LInv, TypeOK
  <1>2. TypeOK'
    BY <1>1, ClockAssumption DEF LInv, TypeOK, Idle, Goto, Serve, Clock
  <1>3. OneAwaited' /\ ActiveTrusted' /\ NotBelow'
    BY <1>1 DEF LInv, TypeOK, Idle, Goto, Serve, OneAwaited, ActiveTrusted, NotBelow
  <1> QED
    BY <1>2, <1>3 DEF LInv

\* What Install makes sure of before the store is written: the document is not
\* below the visible snapshot.
LEMMA AdmittedNotBelow ==
  ASSUME LInv, NEW p \in Directories, Admits(p), active[p] # None
  PROVE  active[p] = doc[p] \/ active[p].version < doc[p].version
  <1>1. /\ active[p] \in Documents /\ doc[p] \in Documents
        /\ checkpoint.digest \in Documents \cup {None}
    BY DEF LInv, TypeOK, Admits, Checkpoints
  <1>2. /\ active[p].version \in Nat /\ doc[p].version \in Nat
        /\ VersionOf(checkpoint.digest) \in Nat
    BY <1>1, DocumentParts, DocumentAssumption DEF VersionOf
  <1> QED
    BY <1>1, <1>2, NoneAssumption DEF Admits, Rollback, Regressed, VersionOf

LEMMA LoadSameLive ==
  ASSUME LInv, NEW p \in Directories, LoadSame(p)
  PROVE  LInv'
  <1> USE DEF store, cache, bounds
  <1>1. TypeOK'
    BY DEF LInv, TypeOK, LoadSame, Admits, Goto
  <1>2. OneAwaited' /\ ActiveTrusted' /\ NotBelow'
    BY AdmittedNotBelow DEF LInv, TypeOK, LoadSame, Goto, OneAwaited, ActiveTrusted, NotBelow
  <1> QED
    BY <1>1, <1>2 DEF LInv

LEMMA LoadNewerLive ==
  ASSUME LInv, NEW p \in Directories, LoadNewer(p)
  PROVE  LInv'
  <1> USE DEF store, cache, bounds
  <1> DEFINE w == [by |-> p, awaited |-> TRUE, expected |-> checkpoint.digest, next |-> doc[p]]
  <1>1. w \in Writes /\ w.by = p /\ w.awaited /\ w.next = doc[p]
    BY DEF LInv, TypeOK, LoadNewer, Admits, Checkpoints, Writes
  <1>2. \A v \in writes : v.by = p => ~ v.awaited
    BY DEF LInv, TypeOK, LoadNewer, Admits
  <1>3. writes' = writes \cup {w}
    BY DEF LoadNewer
  <1> HIDE DEF w
  <1>4. TypeOK'
    BY <1>1, <1>3 DEF LInv, TypeOK, LoadNewer, Admits, Goto, Writes
  <1>5. OneAwaited'
    BY <1>1, <1>2, <1>3 DEF LInv, OneAwaited
  <1>6. ActiveTrusted' /\ NotBelow'
    BY AdmittedNotBelow DEF LInv, TypeOK, LoadNewer, Goto, ActiveTrusted, NotBelow
  <1> QED
    BY <1>4, <1>5, <1>6 DEF LInv

\* After the write of p is abandoned nobody awaits it.
LEMMA Abandoned ==
  ASSUME LInv, NEW p \in Directories, Abandon(p)
  PROVE  /\ writes' \subseteq Writes
         /\ \A w \in writes' : w.awaited => w \in writes /\ w.by # p
         /\ \A w \in writes' : \E v \in writes : w.expected = v.expected /\ w.next = v.next
  <1>1. ASSUME NEW v \in writes
        PROVE  LET w == IF v.by = p THEN [v EXCEPT !.awaited = FALSE] ELSE v
               IN /\ w \in Writes
                  /\ w.awaited => w = v /\ w.by # p
                  /\ w.expected = v.expected /\ w.next = v.next
    <2>1. v \in Writes
      BY <1>1 DEF LInv, TypeOK
    <2>2. CASE v.by = p
      BY <2>1, <2>2 DEF Writes
    <2>3. CASE v.by # p
      BY <2>1, <2>3
    <2> QED
      BY <2>2, <2>3
  <1> QED
    BY <1>1 DEF Abandon

LEMMA AbandonLive ==
  ASSUME LInv, NEW p \in Directories, Unconfirmed(p) \/ Restart(p)
  PROVE  LInv'
  <1> USE DEF store, cache, bounds
  <1>1. /\ Abandon(p) /\ Idle(p) /\ Serve(p, None)
        /\ revoked' = revoked \/ revoked' = [revoked EXCEPT ![p] = {}]
        /\ last' = last \/ last' = [last EXCEPT ![p] = 0]
        /\ faults' \in 0 .. MaxFaults
        /\ UNCHANGED <<checkpoint, accepted, answer, restores>>
    BY ClockAssumption DEF Unconfirmed, Restart, Fault, LInv, TypeOK
  <1>2. TypeOK'
    BY <1>1, Abandoned, ClockAssumption DEF LInv, TypeOK, Idle, Goto, Serve, Writes
  <1>3. OneAwaited' /\ ActiveTrusted' /\ NotBelow'
    BY <1>1, Abandoned DEF LInv, TypeOK, Idle, Goto, Serve, OneAwaited, ActiveTrusted, NotBelow
  <1> QED
    BY <1>2, <1>3 DEF LInv

LEMMA LookupLive ==
  ASSUME LInv, NEW p \in Directories,
         \/ \E now \in Clock : Status(p, now) \/ \E a \in Assets : Resolve(p, a, now)
         \/ \E key \in Keys : RevokeKey(p, key)
  PROVE  LInv'
  <1> USE DEF store, install, bounds
  <1>1. CASE \E now \in Clock : Status(p, now) \/ \E a \in Assets : Resolve(p, a, now)
    <2>1. /\ \E now \in Clock : last' = [last EXCEPT ![p] = now]
          /\ \/ answer' = answer
             \/ \E a \in Assets : /\ active[p] # None
                                  /\ answer' = [answer EXCEPT ![p] = [asset |-> a, document |-> active[p]]]
          /\ UNCHANGED <<store, install, active, revoked, bounds>>
      BY <1>1 DEF Status, Resolve, Reads
    <2>2. TypeOK'
      BY <2>1, ClockAssumption DEF LInv, TypeOK, Clock, Chain!Bindings
    <2> QED
      BY <2>1, <2>2 DEF LInv, OneAwaited, ActiveTrusted, NotBelow
  <1>2. CASE \E key \in Keys : RevokeKey(p, key)
    BY <1>2 DEF LInv, TypeOK, RevokeKey, OneAwaited, ActiveTrusted, NotBelow
  <1> QED
    BY <1>1, <1>2

LEMMA StoreLive ==
  ASSUME LInv, (\E w \in writes : Swap(w) \/ Refuse(w)) \/ Restore
  PROVE  LInv'
  <1> USE DEF cache, bounds, install
  <1>1. ASSUME NEW w \in writes, Swap(w) PROVE LInv'
    <2>1. w \in Writes /\ w.by \in Directories /\ w.next \in Documents
      BY <1>1 DEF LInv, TypeOK, Writes
    <2>2. \A v \in writes' : v \in writes /\ (v.awaited /\ w.awaited => v.by # w.by)
      BY <1>1 DEF LInv, OneAwaited, Swap
    <2>3. TypeOK'
      <3>1. /\ checkpoint' \in Checkpoints /\ accepted' \subseteq Documents
            /\ writes' \subseteq Writes
        BY <1>1, <2>1, DocumentParts DEF LInv, TypeOK, Swap
      <3>2. stage' = stage \/ (w.awaited /\ stage' = [stage EXCEPT ![w.by] = "activate"])
        BY <1>1 DEF Swap, Goto
      <3>3. w.awaited => stage[w.by] = "swap" /\ doc[w.by] = w.next
        BY DEF LInv, TypeOK
      <3>4. \A v \in writes' : v.by \in Directories /\ (v.awaited => stage'[v.by] = "swap")
        BY <1>1, <2>1, <2>2, <3>2 DEF LInv, TypeOK, Swap, Writes
      <3>5. \A p \in Directories : stage'[p] = "idle" <=> doc[p] = None
        BY <2>1, <3>2, <3>3 DEF LInv, TypeOK
      <3>6. stage' \in [Directories -> {"idle", "load", "swap", "activate"}]
        BY <2>1, <3>2 DEF LInv, TypeOK
      <3> QED
        BY <1>1, <2>2, <3>1, <3>4, <3>5, <3>6 DEF LInv, TypeOK, Swap
    <2>4. OneAwaited' /\ ActiveTrusted' /\ NotBelow'
      BY <1>1, <2>1 DEF LInv, TypeOK, Swap, Goto, OneAwaited, ActiveTrusted, NotBelow
    <2> QED
      BY <2>3, <2>4 DEF LInv
  <1>2. ASSUME NEW w \in writes, Refuse(w) PROVE LInv'
    <2>1. w \in Writes /\ w.by \in Directories
      BY <1>2 DEF LInv, TypeOK, Writes
    <2>2. \A v \in writes' : v \in writes /\ (v.awaited /\ w.awaited => v.by # w.by)
      BY <1>2 DEF LInv, OneAwaited, Refuse
    <2>3. TypeOK'
      <3>1. \/ UNCHANGED <<stage, doc, active>>
            \/ w.awaited /\ Idle(w.by) /\ Serve(w.by, None)
        BY <1>2 DEF Refuse
      <3>2. UNCHANGED <<checkpoint, accepted, revoked, last, answer, faults, restores>>
        BY <1>2 DEF Refuse
      <3>3. \A v \in writes' :
              v.awaited => v.by \in Directories /\ stage'[v.by] = "swap" /\ doc'[v.by] = v.next
        BY <2>1, <2>2, <3>1 DEF LInv, TypeOK, Writes, Idle, Goto
      <3>4. /\ stage' \in [Directories -> {"idle", "load", "swap", "activate"}]
            /\ doc' \in [Directories -> Documents \cup {None}]
            /\ active' \in [Directories -> Documents \cup {None}]
            /\ \A p \in Directories : stage'[p] = "idle" <=> doc'[p] = None
        BY <2>1, <3>1 DEF LInv, TypeOK, Idle, Goto, Serve
      <3>5. writes' \subseteq Writes
        BY <2>2 DEF LInv, TypeOK
      <3> QED
        BY <3>2, <3>3, <3>4, <3>5 DEF LInv, TypeOK
    <2>4. OneAwaited' /\ ActiveTrusted' /\ NotBelow'
      BY <1>2, <2>1 DEF LInv, TypeOK, Refuse, Idle, Goto, Serve, OneAwaited, ActiveTrusted, NotBelow
    <2> QED
      BY <2>3, <2>4 DEF LInv
  <1>3. CASE Restore
    <2>1. checkpoint' \in Checkpoints \cup {Corrupt}
      <3>1. Zero \in Checkpoints
        BY DEF Zero, Checkpoints, NoEntries, EntryMaps
      <3>2. \A d \in accepted : Record(d) \in Checkpoints
        BY DocumentParts DEF LInv, TypeOK
      <3>3. \A d \in accepted, e \in Documents : [digest |-> d, entries |-> e.entries] \in Checkpoints
        BY DocumentParts DEF LInv, TypeOK, Checkpoints
      <3> QED
        BY <1>3, <3>1, <3>2, <3>3 DEF Restore
    <2>2. TypeOK'
      BY <1>3, <2>1, ClockAssumption DEF LInv, TypeOK, Restore
    <2> QED
      BY <1>3, <2>2 DEF LInv, Restore, OneAwaited, ActiveTrusted, NotBelow
  <1> QED
    BY <1>1, <1>2, <1>3

LEMMA LiveStep ==
  ASSUME LInv, [Next \/ Restore]_vars
  PROVE  LInv'
  <1>1. ASSUME NEW p \in Directories, Install(p) PROVE LInv'
    BY <1>1, VerifyLive, EndLive, LoadSameLive, LoadNewerLive, AbandonLive DEF Install
  <1>2. CASE UNCHANGED vars
    BY <1>2 DEF vars, store, install, cache, bounds, LInv, TypeOK, OneAwaited,
         ActiveTrusted, NotBelow
  <1> QED
    BY <1>1, <1>2, AbandonLive, LookupLive, StoreLive DEF Next

LEMMA LiveInvariance == RestoreSpec => []LInv
  <1>1. LInv /\ [Next \/ Restore]_vars => LInv'
    BY LiveStep
  <1> QED
    BY InitLive, <1>1, PTL DEF RestoreSpec

\* The state is well typed, whatever the store does: an abandoned write never
\* answers a later Install.
THEOREM TypeCorrect == RestoreSpec => []TypeOK
  BY LiveInvariance, PTL DEF LInv

\* Only Activate makes a snapshot visible.
LEMMA VisibleByActivate ==
  ASSUME LInv, [Next \/ Restore]_vars, NEW p \in Directories, active'[p] # None,
         active'[p] # active[p]
  PROVE  \E now \in Clock : Activate(p, now)
  <1> USE DEF store, cache, bounds, install, vars
  <1>1. ASSUME NEW q \in Directories, NEW now \in Clock, Activate(q, now)
        PROVE  q = p
    BY <1>1 DEF Activate, Serve, LInv, TypeOK
  <1>2. ASSUME NEW q \in Directories, Install(q), ~ \E now \in Clock : Activate(q, now)
        PROVE  FALSE
    BY <1>2 DEF Install, Verify, LoadFailsClosed, LoadRefuses, LoadSame, LoadNewer, TooLate,
         LoadError, Unconfirmed, Serve, LInv, TypeOK
  <1>3. ASSUME NEW w \in writes, Swap(w) \/ Refuse(w) PROVE FALSE
    BY <1>3 DEF Swap, Refuse, Serve, LInv, TypeOK, Writes
  <1>4. ASSUME NEW q \in Directories,
               \/ \E now \in Clock : Status(q, now) \/ \E a \in Assets : Resolve(q, a, now)
               \/ \E key \in Keys : RevokeKey(q, key)
               \/ Restart(q)
        PROVE  FALSE
    BY <1>4 DEF Status, Resolve, RevokeKey, Restart, Serve, LInv, TypeOK
  <1>5. ~ Restore /\ ~ UNCHANGED vars
    BY DEF Restore
  <1> QED
    BY <1>1, <1>2, <1>3, <1>4, <1>5 DEF Next

\* A snapshot becomes visible only under a key that is not revoked and before
\* its end and the key's on every clock reading, those taken while the store
\* was called too.
THEOREM ActivationCurrent == RestoreSpec => ActivationIsCurrent
  <1>1. ASSUME LInv, LInv', [Next \/ Restore]_vars, NEW p \in Directories, active'[p] # None
        PROVE  /\ active'[p].key \notin revoked'[p]
               /\ active'[p] # active[p] =>
                    last'[p] < active'[p].expires /\ last'[p] < KeyUntil[active'[p].key]
    <2>1. active'[p].key \notin revoked'[p]
      BY <1>1 DEF LInv, ActiveTrusted
    <2>2. ASSUME active'[p] # active[p]
          PROVE  last'[p] < active'[p].expires /\ last'[p] < KeyUntil[active'[p].key]
      <3>1. PICK now \in Clock : Activate(p, now)
        BY <1>1, <2>2, VisibleByActivate
      <3>2. active'[p] = doc[p] /\ last'[p] = now
        BY <1>1, <3>1 DEF Activate, Serve, Reads, LInv, TypeOK
      <3> QED
        BY <3>1, <3>2 DEF Activate
    <2> QED
      BY <2>1, <2>2
  <1>2. LInv /\ LInv' /\ [Next \/ Restore]_vars =>
          [\A p \in Directories :
             active'[p] # None =>
               /\ active'[p].key \notin revoked'[p]
               /\ active'[p] # active[p] =>
                    last'[p] < active'[p].expires /\ last'[p] < KeyUntil[active'[p].key]]_vars
    BY <1>1
  <1> QED
    BY <1>2, LiveInvariance, PTL DEF RestoreSpec, ActivationIsCurrent

\* The store cannot make a process go back: what is visible is replaced by a
\* later version only.
THEOREM NeverBelow == RestoreSpec => NeverBelowLive
  <1>1. ASSUME LInv, [Next \/ Restore]_vars, NEW p \in Directories,
               active[p] # None, active'[p] \notin {None, active[p]}
        PROVE  active[p].version < active'[p].version
    <2>1. PICK now \in Clock : Activate(p, now)
      BY <1>1, VisibleByActivate
    <2> QED
      BY <1>1, <2>1 DEF Activate, Serve, LInv, TypeOK, NotBelow
  <1>2. LInv /\ [Next \/ Restore]_vars =>
          [\A p \in Directories :
             active[p] # None /\ active'[p] \notin {None, active[p]} =>
               active[p].version < active'[p].version]_vars
    BY <1>1
  <1> QED
    BY <1>2, LiveInvariance, PTL DEF RestoreSpec, NeverBelowLive

\* An Install that reached the store leaves its own snapshot visible or none.
THEOREM InstallDecides == RestoreSpec => InstallIsDecisive
  <1> USE DEF store, cache, bounds, install, vars
  <1>1. ASSUME LInv, [Next \/ Restore]_vars, NEW p \in Directories,
               stage[p] \in {"swap", "activate"}, stage'[p] = "idle"
        PROVE  active'[p] \in {None, doc[p]}
    <2>1. ASSUME NEW q \in Directories, Install(q) PROVE active'[p] \in {None, doc[p]}
      <3>1. CASE \E d \in Documents, now \in Clock : Verify(q, d, now)
        BY <1>1, <3>1 DEF Verify, Goto, LInv, TypeOK
      <3>2. CASE LoadFailsClosed(q) \/ LoadRefuses(q) \/ LoadSame(q) \/ LoadNewer(q) \/ LoadError(q)
        BY <1>1, <3>2 DEF LoadFailsClosed, LoadRefuses, LoadSame, LoadNewer, LoadError, Admits,
             Idle, Goto, LInv, TypeOK
      <3>3. CASE Unconfirmed(q) \/ \E now \in Clock : Activate(q, now) \/ TooLate(q, now)
        BY <1>1, <3>3 DEF Unconfirmed, Activate, TooLate, Idle, Goto, Serve, LInv, TypeOK
      <3> QED
        BY <2>1, <3>1, <3>2, <3>3 DEF Install
    <2>2. ASSUME NEW w \in writes, Swap(w) \/ Refuse(w) PROVE active'[p] \in {None, doc[p]}
      BY <1>1, <2>2 DEF Swap, Refuse, Idle, Goto, Serve, LInv, TypeOK, Writes
    <2>3. ASSUME NEW q \in Directories, Restart(q) PROVE active'[p] \in {None, doc[p]}
      BY <1>1, <2>3 DEF Restart, Idle, Goto, Serve, LInv, TypeOK
    <2>4. ASSUME NEW q \in Directories,
                 \/ \E now \in Clock : Status(q, now) \/ \E a \in Assets : Resolve(q, a, now)
                 \/ \E key \in Keys : RevokeKey(q, key)
          PROVE  FALSE
      BY <1>1, <2>4 DEF Status, Resolve, RevokeKey
    <2>5. ~ Restore /\ ~ UNCHANGED vars
      BY <1>1 DEF Restore
    <2> QED
      BY <1>1, <2>1, <2>2, <2>3, <2>4, <2>5 DEF Next
  <1>2. LInv /\ [Next \/ Restore]_vars =>
          [\A p \in Directories :
             stage[p] \in {"swap", "activate"} /\ stage'[p] = "idle" =>
               active'[p] \in {None, doc[p]}]_vars
    BY <1>1
  <1> QED
    BY <1>2, LiveInvariance, PTL DEF RestoreSpec, InstallIsDecisive

-----------------------------------------------------------------------------
(* The history                                                             *)

\* The checkpoint is of the last accepted document.
CheckpointIsLast ==
  \/ checkpoint = Zero /\ accepted = {}
  \/ \E d \in accepted : /\ checkpoint = Record(d)
                         /\ \A e \in accepted : e = d \/ Before(e, d)

AcceptedInOrder ==
  \A d, e \in accepted : d = e \/ Before(d, e) \/ Before(e, d)

WritesExtend ==
  \A w \in writes : w.expected # None => Before(w.expected, w.next)

\* What a process shows, has answered or is about to show was accepted.
ShownIsAccepted ==
  \A p \in Directories :
    /\ active[p] # None => active[p] \in accepted
    /\ stage[p] = "activate" => doc[p] \in accepted
    /\ answer[p] # None => /\ answer[p].document \in accepted
                           /\ answer[p].asset \in DOMAIN answer[p].document.entries

\* What a process has answered is not above what it shows or is to show.
AnswersBehind ==
  \A p \in Directories :
    answer[p] # None =>
      /\ active[p] # None => answer[p].document.version <= active[p].version
      /\ stage[p] \in {"swap", "activate"} => answer[p].document.version <= doc[p].version

HInv == /\ LInv /\ CheckpointIsLast /\ AcceptedInOrder /\ WritesExtend
        /\ ShownIsAccepted /\ AnswersBehind

LEMMA InitHistory == Init => HInv
  BY InitLive DEF Init, HInv, CheckpointIsLast, AcceptedInOrder, WritesExtend, ShownIsAccepted,
     AnswersBehind

\* Parts of a step that the history and the store do not see.
LEMMA StoreFrame ==
  ASSUME HInv, LInv', UNCHANGED <<checkpoint, accepted>>,
         \A w \in writes' : \E v \in writes : w.expected = v.expected /\ w.next = v.next
  PROVE  CheckpointIsLast' /\ AcceptedInOrder' /\ WritesExtend'
  BY DEF HInv, CheckpointIsLast, AcceptedInOrder, WritesExtend

\* Documents of the history are not above the checkpoint.
LEMMA CheckpointIsHighest ==
  ASSUME HInv, NEW d \in accepted
  PROVE  /\ checkpoint.digest \in accepted
         /\ checkpoint = Record(checkpoint.digest)
         /\ d = checkpoint.digest \/ Before(d, checkpoint.digest)
  BY DEF HInv, CheckpointIsLast, Record

LEMMA VersionsAreNatural ==
  ASSUME HInv
  PROVE  \A d \in accepted : d \in Documents /\ d.version \in Nat /\ d # None
  BY DocumentParts, DocumentAssumption DEF HInv, LInv, TypeOK

\* An Install that is admitted may write its document.
LEMMA AdmittedExtends ==
  ASSUME HInv, NEW p \in Directories, Admits(p)
  PROVE  /\ doc[p] \in Documents
         /\ checkpoint.digest # None => checkpoint.digest = doc[p] \/ Before(checkpoint.digest, doc[p])
         /\ answer[p] # None => answer[p].document.version <= doc[p].version
  <1>1. doc[p] \in Documents /\ doc[p].version \in Nat
    BY DocumentParts, DocumentAssumption DEF Admits, HInv, LInv, TypeOK
  <1>2. ASSUME checkpoint.digest # None, checkpoint.digest # doc[p]
        PROVE  Before(checkpoint.digest, doc[p])
    <2>1. PICK d \in accepted : checkpoint = Record(d)
      BY <1>2 DEF HInv, CheckpointIsLast, Zero
    <2> QED
      BY <1>1, <1>2, <2>1, VersionsAreNatural DEF Admits, Rollback, VersionOf, Record, Before
  <1>3. ASSUME answer[p] # None PROVE answer[p].document.version <= doc[p].version
    <2>1. answer[p].document \in accepted
      BY <1>3 DEF HInv, ShownIsAccepted
    <2>2. /\ checkpoint.digest \in accepted
          /\ answer[p].document = checkpoint.digest \/ Before(answer[p].document, checkpoint.digest)
      BY <2>1, CheckpointIsHighest
    <2> QED
      BY <1>1, <1>2, <2>1, <2>2, VersionsAreNatural DEF Before
  <1> QED
    BY <1>1, <1>2, <1>3

\* The steps of an Install.
LEMMA InstallHistory ==
  ASSUME HInv, LInv', NEW p \in Directories, Install(p)
  PROVE  HInv'
  <1> USE DEF store, cache, bounds
  <1>1. CASE \E d \in Documents, now \in Clock : Verify(p, d, now)
    <2>1. ShownIsAccepted' /\ AnswersBehind'
      BY <1>1 DEF Verify, Goto, HInv, LInv, TypeOK, ShownIsAccepted, AnswersBehind
    <2> QED
      BY <1>1, <2>1, StoreFrame DEF Verify, HInv
  <1>2. CASE LoadFailsClosed(p) \/ LoadRefuses(p) \/ LoadError(p)
    <2>1. /\ Idle(p) /\ (active' = active \/ Serve(p, None))
          /\ UNCHANGED <<store, answer>>
      BY <1>2 DEF LoadFailsClosed, LoadRefuses, LoadError
    <2>2. ShownIsAccepted' /\ AnswersBehind'
      BY <2>1 DEF Idle, Goto, Serve, HInv, LInv, TypeOK, ShownIsAccepted, AnswersBehind
    <2> QED
      BY <2>1, <2>2, StoreFrame DEF HInv
  <1>3. CASE \E now \in Clock : Activate(p, now) \/ TooLate(p, now)
    <2>1. /\ stage[p] = "activate" /\ Idle(p) /\ (Serve(p, doc[p]) \/ Serve(p, None))
          /\ UNCHANGED <<store, answer>>
      BY <1>3 DEF Activate, TooLate
    <2>2. ShownIsAccepted' /\ AnswersBehind'
      BY <2>1 DEF Idle, Goto, Serve, HInv, LInv, TypeOK, ShownIsAccepted, AnswersBehind
    <2> QED
      BY <2>1, <2>2, StoreFrame DEF HInv
  <1>4. CASE LoadSame(p)
    <2>1. doc[p] \in accepted
      BY <1>4, AdmittedExtends, NoneAssumption DEF LoadSame, HInv, CheckpointIsLast, Zero, Record
    <2>2. ShownIsAccepted' /\ AnswersBehind'
      BY <1>4, <2>1, AdmittedExtends DEF LoadSame, Goto, HInv, LInv, TypeOK, ShownIsAccepted,
         AnswersBehind
    <2> QED
      BY <1>4, <2>2, StoreFrame DEF LoadSame, HInv
  <1>5. CASE LoadNewer(p)
    <2>1. ShownIsAccepted' /\ AnswersBehind'
      <3>1. answer[p] # None => answer[p].document.version <= doc[p].version
        BY <1>5, AdmittedExtends DEF LoadNewer
      <3>2. /\ stage' = [stage EXCEPT ![p] = "swap"]
            /\ UNCHANGED <<accepted, active, answer, doc>>
        BY <1>5 DEF LoadNewer, Goto
      <3>3. ShownIsAccepted'
        BY <3>2 DEF HInv, ShownIsAccepted
      <3>4. AnswersBehind'
        BY <3>1, <3>2 DEF HInv, LInv, TypeOK, AnswersBehind
      <3> QED
        BY <3>3, <3>4
    <2>2. WritesExtend'
      <3> DEFINE w == [by |-> p, awaited |-> TRUE, expected |-> checkpoint.digest, next |-> doc[p]]
      <3>1. w.expected = checkpoint.digest /\ w.next = doc[p]
        OBVIOUS
      <3>2. writes' = writes \cup {w}
        BY <1>5 DEF LoadNewer
      <3> HIDE DEF w
      <3>3. w.expected # None => Before(w.expected, w.next)
        BY <1>5, <3>1, AdmittedExtends DEF LoadNewer
      <3> QED
        BY <3>2, <3>3 DEF HInv, WritesExtend
    <2>3. CheckpointIsLast' /\ AcceptedInOrder'
      BY <1>5 DEF LoadNewer, HInv, CheckpointIsLast, AcceptedInOrder
    <2> QED
      BY <2>1, <2>2, <2>3 DEF HInv
  <1>6. CASE Unconfirmed(p)
    <2>1. ShownIsAccepted' /\ AnswersBehind'
      BY <1>6 DEF Unconfirmed, Idle, Goto, Serve, HInv, LInv, TypeOK, ShownIsAccepted, AnswersBehind
    <2> QED
      BY <1>6, <2>1, StoreFrame, Abandoned DEF Unconfirmed, HInv
  <1> QED
    BY <1>1, <1>2, <1>3, <1>4, <1>5, <1>6 DEF Install

\* A lookup answers from the visible snapshot; a restart loses it.
LEMMA LookupHistory ==
  ASSUME HInv, LInv', NEW p \in Directories,
         \/ \E now \in Clock : Status(p, now) \/ \E a \in Assets : Resolve(p, a, now)
         \/ \E key \in Keys : RevokeKey(p, key)
         \/ Restart(p)
  PROVE  HInv'
  <1> USE DEF store, install, cache, bounds
  <1>1. CASE \E now \in Clock, a \in Assets : Resolve(p, a, now)
    <2> PICK now \in Clock, a \in Assets : Resolve(p, a, now)
      BY <1>1
    <2>1. /\ active[p] \in accepted /\ a \in DOMAIN active[p].entries
          /\ UNCHANGED <<store, stage, doc, active>>
          /\ stage[p] \in {"swap", "activate"} => doc[p] \in Documents
      <3>1. active[p] \in accepted /\ a \in DOMAIN active[p].entries
        BY DEF Resolve, HInv, ShownIsAccepted
      <3>2. UNCHANGED <<store, stage, doc, active>>
        BY DEF Resolve
      <3>3. stage[p] \in {"swap", "activate"} => doc[p] \in Documents
        BY DEF HInv, LInv, TypeOK
      <3> QED
        BY <3>1, <3>2, <3>3
    <2>2. active[p].version \in Nat /\ (doc[p] \in Documents => doc[p].version \in Nat)
      BY <2>1, VersionsAreNatural, DocumentParts, DocumentAssumption
    <2> DEFINE b == [asset |-> a, document |-> active[p]]
    <2>3. b.asset = a /\ b.document = active[p] /\ answer' = [answer EXCEPT ![p] = b]
      BY DEF Resolve
    <2> HIDE DEF b
    <2>4. ShownIsAccepted'
      BY <2>1, <2>3 DEF HInv, LInv, TypeOK, ShownIsAccepted
    <2>5. AnswersBehind'
      <3>1. active[p] # None /\ (stage[p] \in {"swap", "activate"} =>
                active[p] = doc[p] \/ active[p].version < doc[p].version)
        BY <2>1, VersionsAreNatural DEF HInv, LInv, NotBelow
      <3>2. stage[p] \in {"swap", "activate"} => active[p].version <= doc[p].version
        BY <2>1, <2>2, <3>1
      <3> QED
        BY <2>1, <2>2, <2>3, <3>2 DEF HInv, LInv, TypeOK, AnswersBehind
    <2> QED
      BY <2>1, <2>4, <2>5, StoreFrame DEF HInv
  <1>2. CASE (\E now \in Clock : Status(p, now)) \/ \E key \in Keys : RevokeKey(p, key)
    <2>1. UNCHANGED <<store, stage, doc, answer>> /\ (active' = active \/ Serve(p, None))
      BY <1>2 DEF Status, RevokeKey, Serve, HInv, LInv, TypeOK
    <2>2. ShownIsAccepted' /\ AnswersBehind'
      BY <2>1 DEF Serve, HInv, LInv, TypeOK, ShownIsAccepted, AnswersBehind
    <2> QED
      BY <2>1, <2>2, StoreFrame DEF HInv
  <1>3. CASE Restart(p)
    <2>1. ShownIsAccepted' /\ AnswersBehind'
      BY <1>3 DEF Restart, Idle, Goto, Serve, HInv, LInv, TypeOK, ShownIsAccepted, AnswersBehind
    <2> QED
      BY <1>3, <2>1, StoreFrame, Abandoned DEF Restart, HInv
  <1> QED
    BY <1>1, <1>2, <1>3

\* What a swap writes comes after all that was accepted.
LEMMA SwapExtends ==
  ASSUME HInv, NEW w \in writes, Matches(w)
  PROVE  /\ w.next \in Documents
         /\ \A e \in accepted : Before(e, w.next)
  <1>1. w.next \in Documents /\ w.expected \in Documents \cup {None}
    BY DEF HInv, LInv, TypeOK, Writes
  <1>2. ASSUME NEW e \in accepted PROVE Before(e, w.next)
    <2>1. /\ w.expected \in accepted
          /\ e = w.expected \/ Before(e, w.expected)
      BY <1>2, CheckpointIsHighest DEF Matches
    <2>2. Before(w.expected, w.next)
      BY <2>1, VersionsAreNatural DEF HInv, WritesExtend
    <2> QED
      BY <1>1, <1>2, <2>1, <2>2, VersionsAreNatural, BeforeTransitive
  <1> QED
    BY <1>1, <1>2

LEMMA StoreHistory ==
  ASSUME HInv, LInv', NEW w \in writes, Swap(w) \/ Refuse(w)
  PROVE  HInv'
  <1> USE DEF cache, bounds, install
  <1>1. w.by \in Directories /\ (w.awaited => doc[w.by] = w.next /\ stage[w.by] = "swap")
    BY DEF HInv, LInv, TypeOK, Writes
  <1>2. CASE Swap(w)
    <2>1. CheckpointIsLast' /\ AcceptedInOrder'
      BY <1>2, SwapExtends DEF Swap, HInv, CheckpointIsLast, AcceptedInOrder
    <2>2. WritesExtend'
      BY <1>2 DEF Swap, HInv, WritesExtend
    <2>3. ShownIsAccepted' /\ AnswersBehind'
      BY <1>1, <1>2 DEF Swap, Goto, HInv, LInv, TypeOK, ShownIsAccepted, AnswersBehind
    <2> QED
      BY <2>1, <2>2, <2>3 DEF HInv
  <1>3. CASE Refuse(w)
    <2>1. ShownIsAccepted' /\ AnswersBehind'
      BY <1>1, <1>3 DEF Refuse, Idle, Goto, Serve, HInv, LInv, TypeOK, ShownIsAccepted, AnswersBehind
    <2> QED
      BY <1>3, <2>1, StoreFrame DEF Refuse, HInv
  <1> QED
    BY <1>2, <1>3

LEMMA HistoryInvariance == Spec => []HInv
  <1>1. HInv /\ [Next]_vars => HInv'
    <2> SUFFICES ASSUME HInv, [Next]_vars PROVE HInv'
      OBVIOUS
    <2>1. LInv'
      BY LiveStep DEF HInv
    <2>2. CASE UNCHANGED vars
      BY <2>1, <2>2 DEF vars, store, install, cache, bounds, HInv, CheckpointIsLast,
           AcceptedInOrder, WritesExtend, ShownIsAccepted, AnswersBehind
    <2> QED
      BY <2>1, <2>2, InstallHistory, LookupHistory, StoreHistory DEF Next
  <1> QED
    BY InitHistory, <1>1, PTL DEF Spec

\* What two snapshots of one history say of an asset does not contradict.
LEMMA EntriesAgree ==
  ASSUME NEW d \in Documents, NEW e \in Documents, d = e \/ Before(d, e),
         NEW a, a \in DOMAIN d.entries, a \in DOMAIN e.entries
  PROVE  d.entries[a].epoch < e.entries[a].epoch \/ d.entries[a] = e.entries[a]
  <1>1. d.entries[a] \in Entries /\ e.entries[a] \in Entries
    BY DocumentParts
  <1>2. d.entries[a].epoch \in Nat /\ e.entries[a].epoch \in Nat
    BY <1>1, DocumentAssumption DEF Entries
  <1>3. CASE Before(d, e)
    <2>1. /\ d.entries[a].epoch <= e.entries[a].epoch
          /\ d.entries[a].epoch = e.entries[a].epoch => d.entries[a] = e.entries[a]
      BY <1>3 DEF Before, Extends
    <2> QED
      BY <1>2, <2>1
  <1> QED
    BY <1>3

\* Any two bindings that were given agree: of those of one asset, the one of
\* the later snapshot has a higher epoch or the same placement.
THEOREM Agree == Spec => []AnswersAgree
  <1>1. HInv => AnswersAgree
    <2> SUFFICES ASSUME HInv, NEW p \in Directories, NEW q \in Directories,
                        answer[p] # None, answer[q] # None,
                        answer[p].asset = answer[q].asset,
                        answer[p].document.version <= answer[q].document.version
                 PROVE  LET old == answer[p].document.entries[answer[p].asset]
                            new == answer[q].document.entries[answer[q].asset]
                        IN  old.epoch < new.epoch \/ old = new
      BY DEF AnswersAgree
    <2> DEFINE a == answer[p].asset
               d == answer[p].document
               e == answer[q].document
    <2>1. d \in accepted /\ e \in accepted /\ a \in DOMAIN d.entries /\ a \in DOMAIN e.entries
      BY DEF HInv, ShownIsAccepted
    <2>2. d = e \/ Before(d, e)
      BY <2>1, VersionsAreNatural DEF HInv, AcceptedInOrder, Before
    <2>3. d.entries[a].epoch < e.entries[a].epoch \/ d.entries[a] = e.entries[a]
      <3>1. d \in Documents /\ e \in Documents
        BY <2>1, VersionsAreNatural
      <3> HIDE DEF a, d, e
      <3> QED
        BY <2>1, <2>2, <3>1, EntriesAgree
    <2> QED
      BY <2>3
  <1> QED
    BY <1>1, HistoryInvariance, PTL

\* Together the directories implement PlacementChain: one history of snapshots,
\* which each of them answers from without going back, whatever fails.
THEOREM Refinement == Spec => ImplementsChain
  <1> USE DEF store, cache, bounds, install
  <1>1. Init => Chain!Init
    BY DEF Init, Chain!Init
  <1>2. ASSUME HInv, [Next]_vars
        PROVE  Chain!Next \/ UNCHANGED Chain!vars
    <2>1. ASSUME NEW w \in writes, Swap(w) PROVE Chain!Next
      <3>1. \A e \in accepted : Before(e, w.next)
        BY <1>2, <2>1, SwapExtends DEF Swap
      <3>2. Chain!Accept(w.next)
        BY <2>1, <3>1 DEF Swap, Chain!Accept, Before, Extends, Chain!Extends
      <3> QED
        BY <1>2, <2>1, <3>2, SwapExtends DEF Swap, Chain!Next
    <2>2. ASSUME NEW p \in Directories, NEW a \in Assets, NEW now \in Clock, Resolve(p, a, now)
          PROVE  Chain!Next
      <3>1. active[p] \in accepted /\ active[p] \in Documents
        BY <1>2, <2>2, VersionsAreNatural DEF Resolve, HInv, ShownIsAccepted
      <3>2. answer[p] # None => answer[p].document.version <= active[p].version
        BY <1>2, <2>2 DEF Resolve, HInv, AnswersBehind
      <3>3. Chain!Answer(p, a, active[p])
        BY <2>2, <3>1, <3>2 DEF Resolve, Chain!Answer
      <3> QED
        BY <3>1, <3>3 DEF Chain!Next
    <2>3. ASSUME NEW w \in writes, Refuse(w) PROVE UNCHANGED <<accepted, answer>>
      BY <2>3 DEF Refuse
    <2>4. ASSUME NEW p \in Directories, Install(p) PROVE UNCHANGED <<accepted, answer>>
      BY <2>4 DEF Install, Verify, LoadFailsClosed, LoadRefuses, LoadSame, LoadNewer, Activate,
           TooLate, LoadError, Unconfirmed
    <2>5. ASSUME NEW p \in Directories,
                 \/ \E now \in Clock : Status(p, now)
                 \/ \E key \in Keys : RevokeKey(p, key)
                 \/ Restart(p)
          PROVE  UNCHANGED <<accepted, answer>>
      BY <2>5 DEF Status, RevokeKey, Restart
    <2>6. CASE UNCHANGED vars
      BY <2>6 DEF vars, Chain!vars
    <2> QED
      BY <1>2, <2>1, <2>2, <2>3, <2>4, <2>5, <2>6 DEF Next, Chain!vars
  <1>3. HInv /\ [Next]_vars => [Chain!Next]_(Chain!vars)
    BY <1>2
  <1> QED
    BY <1>1, <1>3, HistoryInvariance, PTL DEF Spec, Chain!Spec, ImplementsChain
=============================================================================
