--------------------------- MODULE WebhookDispatch ---------------------------
(***************************************************************************)
(* The sending side of webhooks: the egress client that posts one attempt  *)
(* (services/webhook-dispatcher/egress/client.go) and the recorder that    *)
(* stores what came of it (lifecycle/recorder.go, planner.go).             *)
(*                                                                         *)
(* The host of both is not in the repository. It is modelled from what the *)
(* two packages ask of it: an attempt is durable before it is sent, it is  *)
(* sent once, what Send returned is recorded, and a successor is created   *)
(* only when the ledger says RETRY_WAIT and the time has come. The ledger  *)
(* commits a receipt at most once per attempt, perhaps after the recorder  *)
(* gave up on it. The authority withdraws permits at any time. The process *)
(* may crash and forget everything but the ledger.                         *)
(***************************************************************************)
EXTENDS WebhookWire

CONSTANTS Lifetimes,    \* from the creation of a delivery to its deadline
          JitterSamples,
          MaxTime, MaxCrashes, MaxUpgrades      \* bounds

ASSUME DispatchAssumption ==
    /\ Lifetimes \subseteq Nat \ {0}
    /\ JitterSamples \subseteq Samples
    /\ MaxTime \in Nat /\ MaxCrashes \in Nat /\ MaxUpgrades \in Nat

VARIABLES now,
          profile,      \* the version of the policy the planner runs with
          attempt,      \* ledger: the attempt record, or None
          receipt,      \* ledger: the outcome of the attempt, or None
          late,         \* commits the recorder gave up on and the ledger may still do
          permit,       \* the attempts whose permit stands
          withdrawn,    \* the stage each send was in when its permit was withdrawn
          send,         \* the stage of Send
          posted,       \* the attempts whose connection was handed to HTTP
          result,       \* the observation the host holds, or None
          rec,          \* the stage of Record
          told,         \* what Record answered last
          crashes

hostVars == <<attempt, result, told>>
sendVars == <<permit, withdrawn, send, posted>>
ledgerVars == <<receipt, late, rec>>
clockVars == <<now, profile, crashes>>
dispatchVars == <<now, profile, attempt, receipt, late, permit, withdrawn, send,
                  posted, result, rec, told, crashes>>

\* "ready" is past the last check of the authority, "posting" past the
\* hand-over of the connection.
BeforePost == {"resolving", "connecting", "ready"}
Sending == BeforePost \cup {"posting"}
SendStages == {"idle", "ended"} \cup Sending
RecordStages == {"idle", "committing", "committed", "refused"}
Replies == {"none", "receipt", "conflict", "unavailable", "input"}

Receipts == [observation : Observations, decision : Decisions]

ASSUME NoRecordAssumption ==
    /\ None \notin AttemptRecords
    /\ None \notin Receipts /\ None \notin Observations
    /\ None \notin SendStages

DispatchInit ==
    /\ now = 0 /\ profile = 0 /\ crashes = 0
    /\ attempt = [a \in Attempts |-> None]
    /\ receipt = [a \in Attempts |-> None]
    /\ late = {}
    /\ permit = Attempts
    /\ withdrawn = [a \in Attempts |-> None]
    /\ send = [a \in Attempts |-> "idle"]
    /\ posted = {}
    /\ result = [a \in Attempts |-> None]
    /\ rec = [a \in Attempts |-> "idle"]
    /\ told = [a \in Attempts |-> "none"]

-----------------------------------------------------------------------------
(* The host *)

\* A retry keeps the delivery and its times, and waits for its due time.
Due(a) ==
    \/ a[2] = 1
    \/ /\ a[2] > 1
       /\ receipt[Previous(a)] # None
       /\ receipt[Previous(a)].decision.state = "RETRY_WAIT"
       /\ receipt[Previous(a)].decision.next <= now

Created(a) == IF a[2] = 1 THEN now ELSE attempt[Previous(a)].created

Deadlines(a) ==
    IF a[2] = 1 THEN {now + l : l \in Lifetimes} ELSE {attempt[Previous(a)].deadline}

CreateAttempt(a) ==
    /\ attempt[a] = None
    /\ Due(a)
    /\ \E d \in Deadlines(a), s \in JitterSamples :
          /\ now < d
          /\ attempt' = [attempt EXCEPT ![a] =
                 [sequence |-> a[2], created |-> Created(a), started |-> now,
                  deadline |-> d, policy |-> profile, sample |-> s]]
    /\ UNCHANGED <<result, told, sendVars, ledgerVars, clockVars, wire, answer>>

Tick ==
    /\ now < MaxTime
    /\ now' = now + 1
    /\ UNCHANGED <<profile, crashes, hostVars, sendVars, ledgerVars, wire, answer>>

\* The planner is built anew with the next version of the policy.
Upgrade ==
    /\ profile < MaxUpgrades
    /\ profile' = profile + 1
    /\ UNCHANGED <<now, crashes, hostVars, sendVars, ledgerVars, wire, answer>>

Revoke(a) ==
    /\ a \in permit
    /\ permit' = permit \ {a}
    /\ withdrawn' = [withdrawn EXCEPT ![a] = send[a]]
    /\ UNCHANGED <<send, posted, hostVars, ledgerVars, clockVars, wire, answer>>

-----------------------------------------------------------------------------
(* Send *)

Observed(outcome, code, status, hint) ==
    [outcome |-> outcome, code |-> code, status |-> status, hint |-> hint, at |-> now]

EndSend(a, o) ==
    /\ send' = [send EXCEPT ![a] = "ended"]
    /\ result' = [result EXCEPT ![a] = o]

\* A slot, the checks of the request itself, and the first of the authority.
Admit(a) ==
    /\ send[a] = "idle"
    /\ attempt[a] # None
    /\ a \in permit
    /\ send' = [send EXCEPT ![a] = "resolving"]
    /\ UNCHANGED <<permit, withdrawn, posted, hostVars, ledgerVars, clockVars, wire, answer>>

\* The slots are shared with the sends of other endpoints, which are not
\* modelled.
Busy(a) ==
    /\ send[a] = "idle"
    /\ attempt[a] # None
    /\ EndSend(a, Observed("blocked", "busy", 0, None))
    /\ UNCHANGED <<permit, withdrawn, posted, attempt, told, ledgerVars, clockVars, wire, answer>>

\* The addresses are public and the permit still stands.
Resolve(a) ==
    /\ send[a] = "resolving"
    /\ a \in permit
    /\ send' = [send EXCEPT ![a] = "connecting"]
    /\ UNCHANGED <<permit, withdrawn, posted, hostVars, ledgerVars, clockVars, wire, answer>>

\* Mutant: the permit is not checked again once the connection is up.
ConnectUnchecked(a) ==
    /\ send[a] = "connecting"
    /\ send' = [send EXCEPT ![a] = "ready"]
    /\ UNCHANGED <<permit, withdrawn, posted, hostVars, ledgerVars, clockVars, wire, answer>>

\* The peer is the resolved address, TLS is up, and the permit still stands.
Connect(a) ==
    /\ send[a] = "connecting"
    /\ a \in permit
    /\ send' = [send EXCEPT ![a] = "ready"]
    /\ UNCHANGED <<permit, withdrawn, posted, hostVars, ledgerVars, clockVars, wire, answer>>

\* handedOff.Swap(true): from here on the request may have left.
HandOver(a) ==
    /\ send[a] = "ready"
    /\ send' = [send EXCEPT ![a] = "posting"]
    /\ posted' = posted \cup {a}
    /\ wire' = wire \cup {a}
    /\ UNCHANGED <<permit, withdrawn, hostVars, ledgerVars, clockVars, answer>>

\* The ways a send can end without an answer, by the stage it is in. A permit
\* found withdrawn is one of them.
StopCodes(stage) ==
    CASE stage = "idle"       -> {"denied"}
      [] stage = "resolving"  -> {"denied", "dns"}
      [] stage = "connecting" -> {"denied", "connect"}
      [] OTHER                -> {"http"}

StopOutcome(stage) == IF stage = "posting" THEN "unknown" ELSE "blocked"

Stop(a) ==
    /\ send[a] # "ended"
    /\ attempt[a] # None
    /\ \E c \in StopCodes(send[a]) :
          EndSend(a, Observed(StopOutcome(send[a]), c, 0, None))
    /\ UNCHANGED <<permit, withdrawn, posted, attempt, told, ledgerVars, clockVars, wire, answer>>

\* The headers of an answer decide the outcome, whatever becomes of its body.
Answered(a) ==
    /\ send[a] = "posting"
    /\ answer[a] # None
    /\ EndSend(a, Observed(IF answer[a].status \in Success
                           THEN "accepted_by_endpoint" ELSE "not_accepted",
                           "", answer[a].status, answer[a].hint))
    /\ UNCHANGED <<permit, withdrawn, posted, attempt, told, ledgerVars, clockVars, wire, answer>>

-----------------------------------------------------------------------------
(* Record *)

Desired(a) == [observation |-> result[a], decision |-> Decision(attempt[a], result[a])]

\* Record reads the attempt, plans, and compares with a receipt that is there;
\* otherwise it asks the ledger to commit. The host repeats it until it holds
\* the receipt.
RecordRefused(a) ==
    /\ ~Plannable(attempt[a], result[a], profile)
    /\ told' = [told EXCEPT ![a] = "input"]
    /\ UNCHANGED rec

RecordFound(a) ==
    /\ Plannable(attempt[a], result[a], profile)
    /\ receipt[a] # None
    /\ told' = [told EXCEPT ![a] = IF receipt[a] = Desired(a) THEN "receipt" ELSE "conflict"]
    /\ UNCHANGED rec

RecordPlanned(a) ==
    /\ Plannable(attempt[a], result[a], profile)
    /\ receipt[a] = None
    /\ rec' = [rec EXCEPT ![a] = "committing"]
    /\ UNCHANGED told

Record(a) ==
    /\ rec[a] = "idle"
    /\ result[a] # None
    /\ told[a] # "receipt"
    /\ RecordRefused(a) \/ RecordFound(a) \/ RecordPlanned(a)
    /\ UNCHANGED <<attempt, result, receipt, late, sendVars, clockVars, wire, answer>>

\* The ledger's conditional commit: the first one wins.
Commit(a) ==
    /\ rec[a] = "committing"
    /\ IF receipt[a] = None
       THEN /\ receipt' = [receipt EXCEPT ![a] = Desired(a)]
            /\ rec' = [rec EXCEPT ![a] = "committed"]
       ELSE /\ rec' = [rec EXCEPT ![a] = "refused"]
            /\ UNCHANGED receipt
    /\ UNCHANGED <<late, hostVars, sendVars, clockVars, wire, answer>>

RecordReturn(a) ==
    /\ rec[a] \in {"committed", "refused"}
    /\ rec' = [rec EXCEPT ![a] = "idle"]
    /\ told' = [told EXCEPT ![a] = IF rec[a] = "committed" THEN "receipt" ELSE "conflict"]
    /\ UNCHANGED <<attempt, result, receipt, late, sendVars, clockVars, wire, answer>>

\* The commits that are out when the recorder stops waiting for them.
Abandoned(a) ==
    IF rec[a] = "committing" THEN {[id |-> a, receipt |-> Desired(a)]} ELSE {}

\* Mutant: a commit that was asked for counts as done.
RecordFailOptimistic(a) ==
    /\ rec[a] # "idle"
    /\ late' = late \cup Abandoned(a)
    /\ rec' = [rec EXCEPT ![a] = "idle"]
    /\ told' = [told EXCEPT ![a] = "receipt"]
    /\ UNCHANGED <<attempt, result, receipt, sendVars, clockVars, wire, answer>>

\* The store failed or its answer was lost; the commit may happen yet.
RecordFail(a) ==
    /\ rec[a] # "idle"
    /\ late' = late \cup Abandoned(a)
    /\ rec' = [rec EXCEPT ![a] = "idle"]
    /\ told' = [told EXCEPT ![a] = "unavailable"]
    /\ UNCHANGED <<attempt, result, receipt, sendVars, clockVars, wire, answer>>

LateCommit(c) ==
    /\ late' = late \ {c}
    /\ receipt' = IF receipt[c.id] = None
                  THEN [receipt EXCEPT ![c.id] = c.receipt] ELSE receipt
    /\ UNCHANGED <<rec, hostVars, sendVars, clockVars, wire, answer>>

-----------------------------------------------------------------------------

\* The process dies: every send and every recording with it. Nothing resumes
\* them: what was not recorded stays without an outcome.
Crash ==
    /\ crashes < MaxCrashes
    /\ crashes' = crashes + 1
    /\ send' = [a \in Attempts |-> IF attempt[a] = None THEN "idle" ELSE "ended"]
    /\ result' = [a \in Attempts |-> None]
    /\ told' = [a \in Attempts |-> "none"]
    /\ rec' = [a \in Attempts |-> "idle"]
    /\ late' = late \cup UNION {Abandoned(a) : a \in Attempts}
    /\ UNCHANGED <<now, profile, attempt, receipt, permit, withdrawn, posted, wire, answer>>

DispatchNext ==
    \/ \E a \in Attempts :
          \/ CreateAttempt(a) \/ Revoke(a)
          \/ Admit(a) \/ Busy(a) \/ Resolve(a) \/ Connect(a) \/ HandOver(a)
          \/ Stop(a) \/ Answered(a)
          \/ Record(a) \/ Commit(a) \/ RecordReturn(a) \/ RecordFail(a)
    \/ \E c \in late : LateCommit(c)
    \/ Tick \/ Upgrade \/ Crash
=============================================================================
