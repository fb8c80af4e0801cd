--------------------------- MODULE CallbackBridge ---------------------------
(* bindSignupCallbacks: what the browser does with the two fragments of one
   signup attempt, on one thread.  A step runs until the code awaits a hash, the
   transport or pumpPromise, or until notify() hands control to the observer,
   which may call the bridge back before the code around it goes on.        *)
EXTENDS SignupRecord, Sequences

VARIABLES
  bridge,       \* what snapshot() shows as the state
  slots,        \* kind -> the fragment collected, and whether it is acknowledged
  hashing,      \* fragments whose digest is being computed
  queue,        \* kinds to be recorded
  pending,      \* the kind that is being recorded, or waits for a retry
  pump,         \* where pump() stands
  active,       \* what it has taken up: a kind, or "cancel"
  assigned,     \* pumpPromise is the promise of this pump
  intent,       \* cancelledIntent
  waits,        \* calls of cancel() that await pumpPromise
  due,          \* those whose await is over
  outstanding,  \* transportOutstanding
  wire,         \* calls of the transport that have not settled
  lastView,
  watch         \* the browser's clock: "good", "over" or "bad"

pageVars == <<bridge, slots, hashing, queue, pending, pump, active, assigned,
              intent, waits, due, outstanding, lastView, watch>>
bridgeVars == <<pageVars, wire>>

Kinds == {"code", "session"}
KindOf(f) == IF f \in Codes THEN "code" ELSE "session"

Slots == [fragment : Fragments, ack : BOOLEAN]

ASSUME SlotAssumption == None \notin Slots

Ended == {"cancelled", "stopped", "expired", "disposed"}
Open == bridge \notin Ended \cup {"unbound"}

\* Inside notify().
Notices == {"recording", "closing", "told"}

BridgeInit ==
  /\ bridge = "unbound"
  /\ slots = [k \in Kinds |-> None]
  /\ hashing = {} /\ queue = <<>> /\ pending = None
  /\ pump = "idle" /\ active = None /\ assigned = TRUE
  /\ intent = FALSE /\ waits = 0 /\ due = 0
  /\ outstanding = FALSE /\ wire = <<>>
  /\ lastView = None /\ watch = "good"

-----------------------------------------------------------------------------
\* The stack is empty and no continuation of cancel() is due.
EventLoop == pump \in {"idle", "await"} /\ due = 0

\* The bridge's methods may be called.
Callable == Open /\ (EventLoop \/ pump \in Notices)

\* Closed for good: continuations of cancel() find nothing to do.
Shut(reason) ==
  /\ bridge' = reason
  /\ queue' = <<>> /\ pending' = None /\ waits' = 0 /\ due' = 0

\* The awaits of the pump find nothing to do either; code around an observer
\* goes on.
Stop(reason) ==
  /\ Shut(reason)
  /\ pump' = IF pump \in Notices THEN pump ELSE "idle"

PumpEnds ==
  /\ pump' = "idle"
  /\ due' = due + waits /\ waits' = 0

\* Wrong: a transport that timed out does not keep the pump from starting.
KickAnyway ==
  IF pump = "idle" THEN pump' = "turn" /\ assigned' = FALSE
  ELSE UNCHANGED <<pump, assigned>>

\* A pump that runs, or a transport that does not end, is left alone.
Kick ==
  IF pump = "idle" /\ ~outstanding THEN pump' = "turn" /\ assigned' = FALSE
  ELSE UNCHANGED <<pump, assigned>>

-----------------------------------------------------------------------------
(* The page                                                                *)

\* The ticket is of an attempt that was launched, and the clock is good.
Bind ==
  /\ bridge = "unbound" /\ bridge' = "waiting"
  /\ UNCHANGED <<slots, hashing, queue, pending, pump, active, assigned, intent,
                 waits, due, outstanding, wire, lastView, watch>>

\* The clock passes the end of the ticket, goes back or throws.
Pass ==
  /\ Open /\ watch = "good" /\ watch' \in {"over", "bad"}
  /\ UNCHANGED <<bridge, slots, hashing, queue, pending, pump, active, assigned,
                 intent, waits, due, outstanding, wire, lastView>>

\* stamp(), wherever it is called, and the timer of the ticket.
Expire ==
  /\ Callable \/ pump = "turn"
  /\ Open /\ watch # "good"
  /\ \E reason \in IF watch = "over" THEN {"expired"} ELSE {"stopped", "expired"} : Stop(reason)
  /\ UNCHANGED <<slots, hashing, active, assigned, intent, outstanding, wire, lastView, watch>>

\* accept(): one digest of a kind at a time.
Collect(f) ==
  /\ EventLoop /\ Open /\ ~intent /\ watch = "good"
  /\ \A g \in hashing : KindOf(g) # KindOf(f)
  /\ hashing' = hashing \cup {f}
  /\ UNCHANGED <<bridge, slots, queue, pending, pump, active, assigned, intent,
                 waits, due, outstanding, wire, lastView, watch>>

Hashed(f) == EventLoop /\ f \in hashing /\ hashing' = hashing \ {f}

\* The bridge has been stopped or cancelled since, or has the fragment.
Ignore(f) ==
  /\ Hashed(f)
  /\ \/ ~Open \/ intent
     \/ slots[KindOf(f)] # None /\ slots[KindOf(f)].fragment = f
  /\ UNCHANGED <<bridge, slots, queue, pending, pump, active, assigned, intent,
                 waits, due, outstanding, wire, lastView, watch>>

Enqueue(f) ==
  /\ Hashed(f) /\ Open /\ ~intent /\ watch = "good"
  /\ slots[KindOf(f)] = None
  /\ slots' = [slots EXCEPT ![KindOf(f)] = [fragment |-> f, ack |-> FALSE]]
  /\ queue' = Append(queue, KindOf(f))
  /\ Kick
  /\ UNCHANGED <<bridge, pending, active, intent, waits, due, outstanding, wire, lastView, watch>>

\* Another fragment of a kind that was collected.
Contradict(f) ==
  /\ Hashed(f) /\ Open /\ ~intent /\ watch = "good"
  /\ slots[KindOf(f)] # None /\ slots[KindOf(f)].fragment # f
  /\ Stop("stopped")
  /\ UNCHANGED <<slots, active, assigned, intent, outstanding, wire, lastView, watch>>

\* The digest fails: stopped even when a cancellation is under way.
NoDigest(f) ==
  /\ Hashed(f) /\ Open
  /\ Stop("stopped")
  /\ UNCHANGED <<slots, active, assigned, intent, outstanding, wire, lastView, watch>>

\* A response without a code, or the provider's ERROR event.
Denied ==
  /\ EventLoop /\ Open /\ ~intent /\ watch = "good"
  /\ Stop("stopped")
  /\ UNCHANGED <<slots, hashing, active, assigned, intent, outstanding, wire, lastView, watch>>

Dispose ==
  /\ Callable
  /\ Stop("disposed")
  /\ UNCHANGED <<slots, hashing, active, assigned, intent, outstanding, wire, lastView, watch>>

\* From an observer the pump still runs, and takes no notice.
RetryPending ==
  /\ Callable /\ bridge = "recovery_required" /\ watch = "good"
  /\ ~intent /\ ~outstanding /\ pending # None
  /\ queue' = <<pending>> \o queue /\ pending' = None /\ bridge' = "waiting"
  /\ Kick
  /\ UNCHANGED <<slots, hashing, active, intent, waits, due, outstanding, wire, lastView, watch>>

\* It awaits the pump that it starts, or pumpPromise: still an older promise,
\* resolved, until the pump that runs has awaited something.
Cancel ==
  /\ Callable
  /\ intent' = TRUE /\ queue' = <<>>
  /\ Kick
  /\ IF pump' # "idle" /\ (pump = "idle" \/ assigned)
     THEN waits' = waits + 1 /\ UNCHANGED due
     ELSE due' = due + 1 /\ UNCHANGED waits
  /\ UNCHANGED <<bridge, slots, hashing, pending, active, outstanding, wire, lastView, watch>>

-----------------------------------------------------------------------------
(* cancel(), after its first await                                         *)

Continues == due > 0 /\ pump \in {"idle", "await"}

\* Wrong: cancel() does not look whether the pump has seen its intent.
AskHostTrusting ==
  /\ Continues /\ ~outstanding
  /\ due' = due - 1
  /\ UNCHANGED <<bridge, slots, hashing, queue, pending, pump, active, assigned, intent,
                 waits, outstanding, wire, lastView, watch>>

\* The pump has ended, or had not begun: it runs again and sees the intent.  The
\* rest of cancel() finds the bridge closed.
AskHost ==
  /\ Continues /\ ~outstanding
  /\ due' = due - 1
  /\ Kick
  /\ UNCHANGED <<bridge, slots, hashing, queue, pending, active, intent, waits,
                 outstanding, wire, lastView, watch>>

\* A transport is still executing: stopped without the host's word.
GiveUp ==
  /\ Continues /\ outstanding
  /\ Stop("stopped")
  /\ UNCHANGED <<slots, hashing, active, assigned, intent, outstanding, wire, lastView, watch>>

-----------------------------------------------------------------------------
(* The pump                                                                *)

TurnCancel ==
  /\ pump = "turn" /\ watch = "good" /\ intent
  /\ bridge' = "closing" /\ pump' = "closing" /\ active' = "cancel"
  /\ UNCHANGED <<slots, hashing, queue, pending, assigned, intent, waits, due,
                 outstanding, wire, lastView, watch>>

\* Nothing is taken up before the user asks for the retry.
TurnRecovery ==
  /\ pump = "turn" /\ watch = "good" /\ ~intent /\ bridge = "recovery_required"
  /\ PumpEnds
  /\ UNCHANGED <<bridge, slots, hashing, queue, pending, active, assigned, intent,
                 outstanding, wire, lastView, watch>>

Acked(k) == slots[k] # None /\ slots[k].ack

TurnIdle ==
  /\ pump = "turn" /\ watch = "good" /\ ~intent /\ bridge # "recovery_required"
  /\ queue = <<>>
  /\ bridge' = IF \A k \in Kinds : Acked(k) THEN "recorded" ELSE "waiting"
  /\ pump' = "told"
  /\ UNCHANGED <<slots, hashing, queue, pending, active, assigned, intent, waits, due,
                 outstanding, wire, lastView, watch>>

TurnNext ==
  /\ pump = "turn" /\ watch = "good" /\ ~intent /\ bridge # "recovery_required"
  /\ queue # <<>>
  /\ active' = Head(queue) /\ pending' = Head(queue) /\ queue' = Tail(queue)
  /\ bridge' = "recording" /\ pump' = "recording"
  /\ UNCHANGED <<slots, hashing, assigned, intent, waits, due, outstanding, wire, lastView, watch>>

\* Wrong: a fragment counts as acknowledged when it is sent.
SubmitTrusting ==
  /\ pump \in {"recording", "closing"}
  /\ wire' = Append(wire, [kind |-> active, at |-> "sent", view |-> None,
                           body |-> IF active \in Kinds /\ Open THEN slots[active].fragment ELSE None])
  /\ slots' = IF active \in Kinds THEN [slots EXCEPT ![active].ack = TRUE] ELSE slots
  /\ outstanding' = TRUE
  /\ pump' = "await" /\ assigned' = TRUE
  /\ UNCHANGED <<bridge, hashing, queue, pending, active, intent, waits, due, lastView, watch>>

\* call().  An observer that stopped the bridge has taken the body away.
Submit ==
  /\ pump \in {"recording", "closing"}
  /\ wire' = Append(wire, [kind |-> active, at |-> "sent", view |-> None,
                           body |-> IF active \in Kinds /\ Open THEN slots[active].fragment ELSE None])
  /\ outstanding' = TRUE
  /\ pump' = "await" /\ assigned' = TRUE
  /\ UNCHANGED <<bridge, slots, hashing, queue, pending, active, intent, waits, due, lastView, watch>>

Told ==
  /\ pump = "told"
  /\ PumpEnds
  /\ UNCHANGED <<bridge, slots, hashing, queue, pending, active, assigned, intent,
                 outstanding, wire, lastView, watch>>

\* The catch of the pump: no receipt.
NoReceipt ==
  /\ UNCHANGED <<slots, lastView>>
  /\ IF ~Open THEN PumpEnds /\ UNCHANGED <<bridge, queue, pending>>
     ELSE IF active = "cancel" THEN Shut("stopped") /\ pump' = "idle"
     ELSE /\ bridge' = "recovery_required" /\ pump' = "told"
          /\ UNCHANGED <<queue, pending, waits, due>>

\* The clock throws in call(), after it counted the transport as outstanding: no
\* request is made, and none will settle.
Unsent ==
  /\ pump \in {"recording", "closing"} /\ watch = "bad"
  /\ outstanding' = TRUE /\ assigned' = TRUE
  /\ NoReceipt
  /\ UNCHANGED <<hashing, active, intent, wire, watch>>

\* ack(): the shape of a view, nothing taken back since the last one, and what
\* was asked for.
Matches(v) ==
  /\ v.version = FactCount(v)
  /\ lastView # None =>
       /\ lastView.version <= v.version
       /\ lastView.code # None => v.code # None
       /\ lastView.session # None => v.session # None
  /\ CASE active = "cancel" -> v.status \in Terminal
       [] active = "code" -> v.status \notin Terminal /\ v.code # None
       [] active = "session" -> v.status \notin Terminal /\ v.session # None

\* The fragment is recorded, or the attempt is closed.
Receipt(v) ==
  /\ Open /\ Matches(v)
  /\ lastView' = v
  /\ IF active = "cancel" THEN Shut("cancelled") /\ pump' = "idle" /\ UNCHANGED slots
     ELSE /\ slots' = [slots EXCEPT ![active] = [fragment |-> @.fragment, ack |-> TRUE]]
          /\ pending' = None /\ pump' = "turn"
          /\ UNCHANGED <<bridge, queue, waits, due>>

\* The transport settles.  The pump may not await it any more, and a view may be
\* too old or too new for the browser's clock.
Deliver(i) ==
  /\ EventLoop /\ i \in DOMAIN wire /\ wire[i].at = "answered"
  /\ wire' = SubSeq(wire, 1, i - 1) \o SubSeq(wire, i + 1, Len(wire))
  /\ outstanding' = FALSE
  /\ IF pump = "await" /\ i = Len(wire)
     THEN \/ wire[i].view # None /\ Receipt(wire[i].view)
          \/ NoReceipt
     ELSE UNCHANGED <<bridge, slots, queue, pending, pump, waits, due, lastView>>
  /\ UNCHANGED <<hashing, active, assigned, intent, watch>>

\* The budget of the operation is used up; the transport may run on.
TimeOut ==
  /\ EventLoop /\ pump = "await"
  /\ NoReceipt
  /\ UNCHANGED <<hashing, active, assigned, intent, outstanding, wire, watch>>

-----------------------------------------------------------------------------
Run ==
  \/ Expire \/ AskHost \/ GiveUp
  \/ TurnCancel \/ TurnRecovery \/ TurnIdle \/ TurnNext \/ Submit \/ Unsent \/ Told
  \/ \E f \in hashing : Ignore(f) \/ Enqueue(f) \/ Contradict(f) \/ NoDigest(f)

Page ==
  \/ Bind \/ Pass \/ Denied \/ Dispose \/ RetryPending \/ Cancel
  \/ \E f \in Fragments : Collect(f)
=============================================================================
