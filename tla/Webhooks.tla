------------------------------ MODULE Webhooks ------------------------------
(***************************************************************************)
(* Webhooks end to end: dispatcher and receiver over a network that delays *)
(* and loses. The properties are about what neither side sees alone.       *)
(***************************************************************************)
EXTENDS WebhookDispatch, WebhookReceiver

vars == <<dispatchVars, receiverVars, wire, answer>>

Init == DispatchInit /\ ReceiverInit /\ WireInit

Sender == DispatchNext /\ UNCHANGED receiverVars
Receiver == ReceiverNext /\ UNCHANGED dispatchVars

Next == Sender \/ Receiver

Spec == Init /\ [][Next]_vars

\* Send is bounded by limits.Timeout, and the host repeats a recording until
\* it has the receipt; a ledger that keeps failing is the only excuse, hence
\* strong fairness of its commit.
Fairness ==
    \A a \in Attempts :
        /\ WF_vars(Stop(a) /\ UNCHANGED receiverVars)
        /\ WF_vars((Record(a) \/ RecordReturn(a)) /\ UNCHANGED receiverVars)
        /\ SF_vars(Commit(a) /\ UNCHANGED receiverVars)

FairSpec == Spec /\ Fairness

-----------------------------------------------------------------------------

Following(a) == <<a[1], a[2] + 1>>

\* The variables of both sides stay in their types.
TypeOK ==
    /\ now \in Nat /\ profile \in Nat /\ crashes \in Nat
    /\ attempt \in [Attempts -> AttemptRecords \cup {None}]
    /\ receipt \in [Attempts -> Receipts \cup {None}]
    /\ late \subseteq [id : Attempts, receipt : Receipts]
    /\ permit \subseteq Attempts
    /\ withdrawn \in [Attempts -> SendStages \cup {None}]
    /\ send \in [Attempts -> SendStages]
    /\ posted \subseteq Attempts
    /\ result \in [Attempts -> Observations \cup {None}]
    /\ rec \in [Attempts -> RecordStages]
    /\ told \in [Attempts -> Replies]
    /\ serving \in [Attempts -> Stages]
    /\ offered \in [Attempts -> {204, 503} \cup Refusals]
    /\ active \in Nat /\ draining \in BOOLEAN
    /\ closings \in Nat
    /\ inbox \subseteq Deliveries /\ lateAccepts \subseteq Deliveries
    /\ WireTypeOK

\* A request is repeated only when the one before it cannot have been
\* accepted: no byte of it left, or its endpoint answered that it did not
\* take it. What is left open (unknown, crashed) is never sent again.
NoBlindResend ==
    \A a \in Attempts :
        attempt[a] # None /\ a[2] > 1 =>
            \/ Previous(a) \notin posted
            \/ /\ answer[Previous(a)] # None
               /\ answer[Previous(a)].status \notin Success

\* A permit withdrawn before the connection was up keeps the request from
\* leaving; only the time between the last check and the hand-over is open.
PermitIsFresh ==
    \A a \in posted : withdrawn[a] \notin {"idle", "resolving", "connecting"}

\* A retry is due no sooner than the minimum wait and the endpoint's own hint
\* ask, and before the deadline of its delivery and before its age is used up,
\* with an attempt left. It starts when it is due, or later, but before that
\* deadline.
RetriesAreSpaced ==
    \A p \in Attempts :
        receipt[p] # None /\ receipt[p].decision.state = "RETRY_WAIT" =>
            LET o == receipt[p].observation
                next == receipt[p].decision.next
                retry == Following(p)
            IN  /\ o.at + RetryDelays[p[2]] <= next
                /\ o.outcome = "not_accepted" /\ o.hint # None => o.hint <= next
                /\ next < attempt[p].deadline
                /\ next < attempt[p].created + MaxAge
                /\ retry \in Attempts
                /\ attempt[retry] # None =>
                      next <= attempt[retry].started /\ attempt[retry].started < attempt[p].deadline

\* What Record told the host is what the ledger holds.
RecordedIsDurable ==
    \A a \in Attempts :
        told[a] = "receipt" => receipt[a] # None /\ receipt[a].observation = result[a]

\* The channel Drain waits on is closed when nobody is served any more, and
\* once: a second close panics.
DrainIsFinal ==
    /\ closings <= 1
    /\ closings = 1 => \A a \in Attempts : serving[a] \notin Admitted

\* Whatever Send makes of an attempt can be recorded under the attempt's own
\* policy, however late it is; but for an answer whose status is outside
\* 200..599, which Send reports as not accepted and Plan refuses for ever.
Unplannable(o) == o.outcome = "not_accepted" /\ o.status \notin 300..599

OutcomesArePlannable ==
    \A a \in Attempts :
        told[a] = "input" => attempt[a].policy # profile \/ Unplannable(result[a])

\* Every attempt that is created, but for a crash, a change of policy or an
\* answer that cannot be planned, gets its outcome into the ledger.
OutcomesAreRecorded ==
    \A a \in Attempts :
        attempt[a] # None ~>
            \/ receipt[a] # None
            \/ attempt[a] # None /\ attempt[a].policy # profile
            \/ send[a] = "ended" /\ (result[a] = None \/ Unplannable(result[a]))

-----------------------------------------------------------------------------

Ledger(d) == {n \in 1..MaxAttempts : receipt[<<d, n>>] # None}

StateOf(d, n) == receipt[<<d, n>>].decision.state

OutcomeOf(d) ==
    IF \E n \in Ledger(d) : StateOf(d, n) # "RETRY_WAIT"
    THEN StateOf(d, CHOOSE n \in Ledger(d) : StateOf(d, n) # "RETRY_WAIT")
    ELSE "RETRY_WAIT"

Outcome == INSTANCE WebhookOutcome
    WITH Open <- "RETRY_WAIT", Accepted <- "ACCEPTED_BY_ENDPOINT",
         Outcomes <- States \ {"RETRY_WAIT"}, stored <- inbox,
         outcome <- [d \in Deliveries |-> OutcomeOf(d)]

\* Dispatcher and receiver implement the outcome of deliveries.
ImplementsOutcome == Outcome!Spec
=============================================================================
