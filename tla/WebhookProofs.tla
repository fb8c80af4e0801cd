---------------------------- MODULE WebhookProofs ----------------------------
(***************************************************************************)
(* Safety of Webhooks for any deliveries, profile, clock and number of     *)
(* crashes: when a request is repeated and how soon, what a receipt is     *)
(* worth, how a drain ends, and the outcome of a delivery implemented.     *)
(***************************************************************************)
EXTENDS Webhooks, FiniteSetTheorems, TLAPS

\* The stages at which Send still asks for the permit.
Early == {"idle", "resolving", "connecting"}

\* What an observation says of its attempt holds for good.
Truthful(a, o) ==
    /\ o.outcome = "blocked" => a \notin posted
    /\ o.outcome = "not_accepted" => answer[a] # None /\ answer[a].status \notin Success
    /\ o.outcome = "accepted_by_endpoint" => DeliveryOf(a) \in inbox

\* A receipt is the plan of a truthful observation.
Planned(a, r) ==
    /\ attempt[a] # None /\ send[a] = "ended"
    /\ Truthful(a, r.observation)
    /\ r.decision = Decision(attempt[a], r.observation)

\* A send before the hand-over has left no byte, and its permit was not seen
\* withdrawn after the last check.
SendInv ==
    \A a \in Attempts :
        /\ attempt[a] = None => send[a] = "idle"
        /\ send[a] \in {"idle"} \cup BeforePost => a \notin posted
        /\ a \in permit => withdrawn[a] = None
        /\ send[a] \in {"ready", "posting"} \/ a \in posted => withdrawn[a] \notin Early

\* A request is on its way, or served, or answered; what a 2xx answer says is in
\* the inbox.
WireInv ==
    \A a \in Attempts :
        /\ a \in wire => serving[a] = "none" /\ answer[a] = None
        /\ a \in wire \/ serving[a] # "none" \/ answer[a] # None => a \in posted
        /\ serving[a] \in Admitted \ {"releasing"} => answer[a] = None
        /\ serving[a] = "stored" \/ offered[a] = 204 => DeliveryOf(a) \in inbox
        /\ answer[a] # None /\ answer[a].status \in Success => DeliveryOf(a) \in inbox

ReceiptInv ==
    /\ \A a \in Attempts : receipt[a] # None => Planned(a, receipt[a])
    /\ \A c \in late : Planned(c.id, c.receipt)

ResultInv ==
    \A a \in Attempts :
        result[a] # None =>
            attempt[a] # None /\ send[a] = "ended" /\ Truthful(a, result[a])

RecorderInv ==
    \A a \in Attempts :
        /\ rec[a] # "idle" => result[a] # None
        /\ rec[a] = "committed" => receipt[a] = Desired(a)
        /\ told[a] = "receipt" =>
              result[a] # None /\ receipt[a] # None /\ receipt[a].observation = result[a]

\* An attempt comes after its predecessors were found retryable and due.
ChainInv ==
    \A d \in Deliveries : \A n \in 1..MaxAttempts :
        attempt[<<d, n>>] # None =>
            /\ attempt[<<d, n>>].sequence = n
            /\ \A m \in 1..(n - 1) :
                  receipt[<<d, m>>] # None /\ receipt[<<d, m>>].decision.state = "RETRY_WAIT"
            /\ n > 1 =>
                  /\ attempt[<<d, n - 1>>] # None
                  /\ attempt[<<d, n>>].created = attempt[<<d, n - 1>>].created
                  /\ attempt[<<d, n>>].deadline = attempt[<<d, n - 1>>].deadline
                  /\ receipt[<<d, n - 1>>].decision.next <= attempt[<<d, n>>].started

Serving == {a \in Attempts : serving[a] \in Admitted}

\* The channel is closed by the drain or by the last one served.
DrainInv ==
    /\ IsFiniteSet(Serving) /\ active = Cardinality(Serving)
    /\ closings \in {0, 1}
    /\ closings = 1 => draining /\ active = 0

IInv ==
    /\ TypeOK
    /\ SendInv /\ WireInv /\ ReceiptInv /\ ResultInv /\ RecorderInv /\ ChainInv /\ DrainInv

-----------------------------------------------------------------------------
(* The planner                                                             *)

LEMMA AttemptFacts ==
    /\ MaxAttempts \in Nat
    /\ \A d \in Deliveries : \A n \in 1..MaxAttempts : <<d, n>> \in Attempts
    /\ \A a \in Attempts :
          /\ a[1] \in Deliveries /\ a[2] \in 1..MaxAttempts /\ a = <<a[1], a[2]>>
          /\ a[2] > 1 => Previous(a) \in Attempts
  BY ProfileAssumption DEF Attempts, Previous

\* Shares of a natural number are natural numbers.
LEMMA Shares ==
    /\ Samples \subseteq Nat
    /\ \A x, y \in Nat : x * y \in Nat
    /\ \A x \in Nat : x \div 1000 \in Nat /\ x \div SampleParts \in Nat
  <1>1. SampleParts \in Nat \ {0}
    BY SMT DEF SampleParts
  <1> QED
    BY <1>1, SMT DEF Samples

\* The wait is at least the profile's delay, whatever the jitter.
LEMMA WaitBound ==
  ASSUME NEW a \in AttemptRecords, a.sequence < MaxAttempts
  PROVE  /\ RetryDelays[a.sequence] \in Nat
         /\ Wait(a) \in Nat /\ RetryDelays[a.sequence] <= Wait(a)
  <1> DEFINE delay == RetryDelays[a.sequence]
             span == (delay * MaxJitterPermille) \div 1000
             share == (span * a.sample) \div SampleParts
  <1>1. delay \in Nat
    <2>1. a.sequence \in 1..(MaxAttempts - 1)
      BY ProfileAssumption DEF AttemptRecords
    <2> QED
      BY <2>1, ProfileAssumption
  <1>2. MaxJitterPermille \in Nat
    BY ProfileAssumption
  <1>3. a.sample \in Nat
    BY Shares DEF AttemptRecords
  <1>4. span \in Nat
    BY <1>1, <1>2, Shares
  <1>5. share \in Nat
    BY <1>3, <1>4, Shares
  <1>6. Wait(a) = delay + share
    BY DEF Wait
  <1> HIDE DEF span, share
  <1> QED
    BY <1>1, <1>5, <1>6

\* A state of the plan, and what each says of the observation.
LEMMA StateFacts ==
  ASSUME NEW a \in AttemptRecords, NEW o \in Observations
  PROVE  /\ State(a, o) \in States
         /\ State(a, o) = "RETRY_WAIT" => Retryable(o) /\ InBudget(a, o)
         /\ State(a, o) = "ACCEPTED_BY_ENDPOINT" => o.outcome = "accepted_by_endpoint"
  BY DEF State, States, Observations, Outcomes, Retryable

\* A due time is after the wait and after the endpoint's hint.
LEMMA NextAttemptBound ==
  ASSUME NEW a \in AttemptRecords, NEW o \in Observations, a.sequence < MaxAttempts
  PROVE  /\ NextAttempt(a, o) \in Nat
         /\ NextAttempt(a, o) >= o.at + RetryDelays[a.sequence]
         /\ o.outcome = "not_accepted" /\ o.hint # None => NextAttempt(a, o) >= o.hint
  <1>1. Wait(a) \in Nat /\ RetryDelays[a.sequence] \in Nat /\ RetryDelays[a.sequence] <= Wait(a)
    BY WaitBound
  <1>2. o.at \in Nat /\ (o.hint # None => o.hint \in Nat)
    BY DEF Observations, Times
  <1> QED
    BY <1>1, <1>2 DEF NextAttempt

LEMMA DecisionFacts ==
  ASSUME NEW a \in AttemptRecords, NEW o \in Observations
  PROVE  /\ Decision(a, o) \in Decisions
         /\ Decision(a, o).state = State(a, o)
         /\ State(a, o) = "RETRY_WAIT" => Decision(a, o).next = NextAttempt(a, o)
  <1>1. State(a, o) \in States
    BY StateFacts
  <1>2. State(a, o) = "RETRY_WAIT" => NextAttempt(a, o) \in Nat
    BY StateFacts, NextAttemptBound DEF InBudget
  <1> QED
    BY <1>1, <1>2 DEF Decision, Decisions, Times

-----------------------------------------------------------------------------
(* Frames                                                                  *)

\* What no step takes back.
Grows ==
    /\ \A a \in Attempts :
          /\ attempt[a] # None => attempt'[a] = attempt[a]
          /\ attempt[a] # None /\ send[a] = "ended" => send'[a] = "ended"
          /\ send[a] = "ended" /\ a \notin posted => a \notin posted'
          /\ answer[a] # None => answer'[a] = answer[a]
    /\ inbox \subseteq inbox'

LEMMA TruthLasts ==
  ASSUME Grows, NEW a \in Attempts, NEW o, attempt[a] # None, send[a] = "ended",
         Truthful(a, o)
  PROVE  attempt'[a] # None /\ send'[a] = "ended" /\ Truthful(a, o)'
  BY DEF Grows, Truthful

LEMMA PlanLasts ==
  ASSUME Grows, NEW a \in Attempts, NEW r, Planned(a, r)
  PROVE  Planned(a, r)'
  <1>1. attempt'[a] # None /\ send'[a] = "ended" /\ Truthful(a, r.observation)'
    BY TruthLasts DEF Planned
  <1>2. attempt'[a] = attempt[a]
    BY DEF Planned, Grows
  <1> QED
    BY <1>1, <1>2 DEF Planned

\* Where nothing is recorded, what was recorded stays true.
LEMMA RecordsLast ==
  ASSUME IInv, Grows, UNCHANGED <<receipt, late, result, rec, told>>
  PROVE  ReceiptInv' /\ ResultInv' /\ RecorderInv'
  <1>1. ReceiptInv'
    <2>1. ASSUME NEW a \in Attempts, receipt[a] # None
          PROVE  Planned(a, receipt[a])'
      <3>1. PICK r : r = receipt[a]
        OBVIOUS
      <3>2. Planned(a, r)'
        BY <2>1, <3>1, PlanLasts DEF IInv, ReceiptInv
      <3> QED
        BY <3>1, <3>2
    <2>2. ASSUME NEW c \in late
          PROVE  Planned(c.id, c.receipt)'
      <3>1. c.id \in Attempts /\ Planned(c.id, c.receipt)
        BY DEF IInv, TypeOK, ReceiptInv
      <3> QED
        BY <3>1, PlanLasts
    <2> QED
      BY <2>1, <2>2 DEF ReceiptInv
  <1>2. ResultInv'
    BY TruthLasts DEF IInv, ResultInv
  <1>3. RecorderInv'
    <2>1. SUFFICES ASSUME NEW a \in Attempts
                   PROVE  rec[a] = "committed" => Desired(a)' = Desired(a)
      BY DEF IInv, RecorderInv
    <2>2. rec[a] = "committed" => attempt'[a] = attempt[a]
      BY DEF IInv, RecorderInv, ResultInv, Grows
    <2> QED
      BY <2>2 DEF Desired
  <1> QED
    BY <1>1, <1>2, <1>3

LEMMA SendStays ==
  ASSUME IInv, UNCHANGED <<attempt, send, posted, permit, withdrawn>>
  PROVE  SendInv'
  BY DEF IInv, SendInv

LEMMA WireStays ==
  ASSUME IInv, UNCHANGED <<wire, serving, answer, posted, offered>>, inbox \subseteq inbox'
  PROVE  WireInv'
  BY DEF IInv, WireInv

LEMMA ChainStays ==
  ASSUME IInv, UNCHANGED <<attempt, receipt>>
  PROVE  ChainInv'
  BY DEF IInv, ChainInv

LEMMA DrainStays ==
  ASSUME IInv, UNCHANGED <<serving, active, draining, closings>>
  PROVE  DrainInv'
  BY DEF IInv, DrainInv, Serving

-----------------------------------------------------------------------------
(* The host                                                                *)

\* What the receipts of a chain say of the attempt that may come next.
LEMMA DueFacts ==
  ASSUME IInv, NEW a \in Attempts, attempt[a] = None, Due(a)
  PROVE  /\ Created(a) \in Nat /\ Deadlines(a) \subseteq Nat
         /\ \A m \in 1..(a[2] - 1) :
               /\ receipt[<<a[1], m>>] # None
               /\ receipt[<<a[1], m>>].decision.state = "RETRY_WAIT"
         /\ a[2] > 1 =>
               /\ attempt[Previous(a)] # None
               /\ Created(a) = attempt[Previous(a)].created
               /\ Deadlines(a) = {attempt[Previous(a)].deadline}
               /\ receipt[Previous(a)].decision.next <= now
  <1>1. a[1] \in Deliveries /\ a[2] \in 1..MaxAttempts /\ MaxAttempts \in Nat
    BY AttemptFacts
  <1>2. CASE a[2] = 1
    BY <1>1, <1>2, DispatchAssumption DEF Created, Deadlines, IInv, TypeOK
  <1>3. CASE a[2] > 1
    <2>a. PICK n \in 1..MaxAttempts : n = a[2] - 1
      BY <1>1, <1>3
    <2>1. Previous(a) = <<a[1], n>> /\ Previous(a) \in Attempts
      BY <1>3, <2>a, AttemptFacts DEF Previous
    <2>2. /\ receipt[<<a[1], n>>] # None
          /\ receipt[<<a[1], n>>].decision.state = "RETRY_WAIT"
          /\ receipt[Previous(a)].decision.next <= now
      BY <1>1, <1>3, <2>1 DEF Due
    <2>3. attempt[Previous(a)] # None
      BY <2>1, <2>2 DEF IInv, ReceiptInv, Planned
    <2>4. attempt[Previous(a)] \in AttemptRecords
      BY <2>1, <2>3 DEF IInv, TypeOK
    <2>5. /\ Created(a) = attempt[Previous(a)].created /\ Created(a) \in Nat
          /\ Deadlines(a) = {attempt[Previous(a)].deadline} /\ Deadlines(a) \subseteq Nat
      BY <1>3, <2>4 DEF Created, Deadlines, AttemptRecords
    <2>6. \A m \in 1..(n - 1) :
             /\ receipt[<<a[1], m>>] # None
             /\ receipt[<<a[1], m>>].decision.state = "RETRY_WAIT"
      <3>1. PICK d \in Deliveries : d = a[1]
        BY <1>1
      <3>2. attempt[<<d, n>>] # None
        BY <2>1, <2>3, <3>1
      <3>3. \A m \in 1..(n - 1) :
               receipt[<<d, m>>] # None /\ receipt[<<d, m>>].decision.state = "RETRY_WAIT"
        BY <3>2 DEF IInv, ChainInv
      <3> QED
        BY <3>1, <3>3
    <2>7. \A m \in 1..(a[2] - 1) : m = n \/ m \in 1..(n - 1)
      BY <1>1, <2>a
    <2> QED
      BY <2>2, <2>3, <2>5, <2>6, <2>7
  <1> QED
    BY <1>1, <1>2, <1>3

LEMMA CreateAttemptStep ==
  ASSUME IInv, NEW a \in Attempts, CreateAttempt(a), UNCHANGED receiverVars
  PROVE  IInv'
  <1> USE DEF hostVars, sendVars, ledgerVars, clockVars, receiverVars, handlerVars, drainVars,
              inboxVars
  <1>1. attempt[a] = None /\ Due(a)
    BY DEF CreateAttempt
  <1>2. Created(a) \in Nat /\ Deadlines(a) \subseteq Nat /\ now \in Nat /\ profile \in Nat
    BY <1>1, DueFacts DEF IInv, TypeOK
  <1>3. PICK end \in Deadlines(a), s \in JitterSamples :
           attempt' = [attempt EXCEPT ![a] =
              [sequence |-> a[2], created |-> Created(a), started |-> now,
               deadline |-> end, policy |-> profile, sample |-> s]]
    BY DEF CreateAttempt
  <1> DEFINE w == [sequence |-> a[2], created |-> Created(a), started |-> now,
                   deadline |-> end, policy |-> profile, sample |-> s]
  <1>4. w \in AttemptRecords
    BY <1>2, AttemptFacts, DispatchAssumption DEF AttemptRecords
  <1>5. /\ w.sequence = a[2] /\ w.created = Created(a) /\ w.started = now /\ w # None
        /\ w.deadline \in Deadlines(a)
    BY <1>4, NoRecordAssumption
  <1>6. attempt' = [attempt EXCEPT ![a] = w]
    BY <1>3
  <1> HIDE DEF w
  <1>7. /\ attempt' \in [Attempts -> AttemptRecords \cup {None}]
        /\ attempt'[a] = w /\ \A b \in Attempts \ {a} : attempt'[b] = attempt[b]
    BY <1>4, <1>6 DEF IInv, TypeOK
  <1>8. TypeOK'
    BY <1>7 DEF IInv, TypeOK, CreateAttempt, WireTypeOK
  <1>9. Grows
    BY <1>1, <1>7 DEF Grows, CreateAttempt
  <1>10. ReceiptInv' /\ ResultInv' /\ RecorderInv'
    BY <1>9, RecordsLast DEF CreateAttempt
  <1>11. SendInv'
    BY <1>5, <1>7 DEF IInv, SendInv, CreateAttempt
  <1>12. WireInv' /\ DrainInv'
    BY WireStays, DrainStays DEF CreateAttempt
  <1>13. ChainInv'
    <2>1. SUFFICES ASSUME NEW d \in Deliveries, NEW n \in 1..MaxAttempts,
                          attempt'[<<d, n>>] # None
                   PROVE  /\ attempt'[<<d, n>>].sequence = n
                          /\ \A m \in 1..(n - 1) :
                                /\ receipt[<<d, m>>] # None
                                /\ receipt[<<d, m>>].decision.state = "RETRY_WAIT"
                          /\ n > 1 =>
                                /\ attempt'[<<d, n - 1>>] # None
                                /\ attempt'[<<d, n>>].created = attempt'[<<d, n - 1>>].created
                                /\ attempt'[<<d, n>>].deadline = attempt'[<<d, n - 1>>].deadline
                                /\ receipt[<<d, n - 1>>].decision.next <= attempt'[<<d, n>>].started
      BY DEF ChainInv, CreateAttempt
    <2>2. <<d, n>> \in Attempts /\ (n > 1 => <<d, n - 1>> \in Attempts)
      BY AttemptFacts
    <2>3. n > 1 /\ attempt[<<d, n - 1>>] # None => attempt'[<<d, n - 1>>] = attempt[<<d, n - 1>>]
      BY <1>1, <1>7, <2>2
    <2>4. CASE <<d, n>> = a
      <3>1. d = a[1] /\ n = a[2] /\ Previous(a) = <<d, n - 1>>
        BY <2>4 DEF Previous
      <3> QED
        BY <1>1, <1>5, <1>7, <2>3, <2>4, <3>1, DueFacts
    <2>5. CASE <<d, n>> # a
      <3>1. attempt'[<<d, n>>] = attempt[<<d, n>>]
        BY <1>7, <2>2, <2>5
      <3> QED
        BY <2>1, <2>3, <3>1 DEF IInv, ChainInv
    <2> QED
      BY <2>4, <2>5
  <1> QED
    BY <1>8, <1>10, <1>11, <1>12, <1>13 DEF IInv

\* Time, the policy and the permit.
LEMMA ClockStep ==
  ASSUME IInv, Tick \/ Upgrade, UNCHANGED receiverVars
  PROVE  IInv'
  <1> USE DEF hostVars, sendVars, ledgerVars, receiverVars, handlerVars, drainVars, inboxVars
  <1>1. TypeOK'
    BY DEF IInv, TypeOK, WireTypeOK, Tick, Upgrade
  <1>2. ReceiptInv' /\ ResultInv' /\ RecorderInv'
    BY RecordsLast DEF Grows, Tick, Upgrade
  <1>3. SendInv' /\ WireInv' /\ DrainInv' /\ ChainInv'
    BY SendStays, WireStays, DrainStays, ChainStays DEF Tick, Upgrade
  <1> QED
    BY <1>1, <1>2, <1>3 DEF IInv

LEMMA RevokeStep ==
  ASSUME IInv, NEW a \in Attempts, Revoke(a), UNCHANGED receiverVars
  PROVE  IInv'
  <1> USE DEF hostVars, ledgerVars, clockVars, receiverVars, handlerVars, drainVars, inboxVars
  <1>1. TypeOK'
    BY DEF IInv, TypeOK, WireTypeOK, Revoke
  <1>2. ReceiptInv' /\ ResultInv' /\ RecorderInv'
    BY RecordsLast DEF Grows, Revoke
  <1>3. WireInv' /\ DrainInv' /\ ChainInv'
    BY WireStays, DrainStays, ChainStays DEF Revoke
  <1>4. SendInv'
    BY DEF IInv, TypeOK, SendInv, Revoke, Early, BeforePost
  <1> QED
    BY <1>1, <1>2, <1>3, <1>4 DEF IInv

-----------------------------------------------------------------------------
(* Send                                                                    *)

\* A send that goes on to its next stage before the hand-over.
LEMMA StageStep ==
  ASSUME IInv, NEW a \in Attempts, NEW s \in BeforePost,
         attempt[a] # None, send[a] \in {"idle"} \cup BeforePost,
         s = "ready" => withdrawn[a] \notin Early,
         send' = [send EXCEPT ![a] = s],
         UNCHANGED <<permit, withdrawn, posted, hostVars, ledgerVars, clockVars, wire, answer,
                     receiverVars>>
  PROVE  IInv'
  <1> USE DEF hostVars, ledgerVars, clockVars, receiverVars
  <1>1. /\ send' \in [Attempts -> SendStages] /\ send'[a] = s
        /\ \A b \in Attempts \ {a} : send'[b] = send[b]
    BY DEF IInv, TypeOK, SendStages, Sending, BeforePost
  <1>2. TypeOK'
    BY <1>1 DEF IInv, TypeOK, WireTypeOK
  <1>3. ReceiptInv' /\ ResultInv' /\ RecorderInv'
    BY <1>1, RecordsLast DEF Grows, BeforePost
  <1>4. WireInv' /\ DrainInv' /\ ChainInv'
    BY WireStays, DrainStays, ChainStays
  <1>5. SendInv'
    BY <1>1 DEF IInv, SendInv, BeforePost
  <1> QED
    BY <1>2, <1>3, <1>4, <1>5 DEF IInv

LEMMA AdmitStep ==
  ASSUME IInv, NEW a \in Attempts, Admit(a), UNCHANGED receiverVars
  PROVE  IInv'
  <1>1. "resolving" \in BeforePost /\ "resolving" # "ready"
    BY DEF BeforePost
  <1> QED
    BY <1>1, StageStep DEF Admit

LEMMA ResolveStep ==
  ASSUME IInv, NEW a \in Attempts, Resolve(a), UNCHANGED receiverVars
  PROVE  IInv'
  <1>1. "connecting" \in BeforePost /\ "connecting" # "ready" /\ send[a] \in BeforePost
    BY DEF BeforePost, Resolve
  <1>2. attempt[a] # None
    BY DEF IInv, SendInv, Resolve
  <1> QED
    BY <1>1, <1>2, StageStep DEF Resolve

\* The last check of the permit: it was not withdrawn before.
LEMMA ConnectStep ==
  ASSUME IInv, NEW a \in Attempts, Connect(a), UNCHANGED receiverVars
  PROVE  IInv'
  <1>1. "ready" \in BeforePost /\ send[a] \in BeforePost
    BY DEF BeforePost, Connect
  <1>2. attempt[a] # None /\ withdrawn[a] = None
    BY DEF IInv, SendInv, Connect
  <1>3. withdrawn[a] \notin Early
    BY <1>2, NoRecordAssumption DEF Early, SendStages, Sending, BeforePost
  <1> QED
    BY <1>1, <1>2, <1>3, StageStep DEF Connect

\* What is handed over was neither sent nor answered before.
LEMMA HandOverStep ==
  ASSUME IInv, NEW a \in Attempts, HandOver(a), UNCHANGED receiverVars
  PROVE  IInv'
  <1> USE DEF hostVars, ledgerVars, clockVars, receiverVars
  <1>1. send[a] = "ready" /\ posted' = posted \cup {a} /\ wire' = wire \cup {a}
    BY DEF HandOver
  <1>2. a \notin posted /\ withdrawn[a] \notin Early /\ attempt[a] # None
    BY <1>1 DEF IInv, SendInv, BeforePost
  <1>3. serving[a] = "none" /\ answer[a] = None
    BY <1>2 DEF IInv, WireInv
  <1>4. /\ send' \in [Attempts -> SendStages] /\ send'[a] = "posting"
        /\ \A b \in Attempts \ {a} : send'[b] = send[b]
    BY DEF IInv, TypeOK, SendStages, Sending, BeforePost, HandOver
  <1>5. TypeOK'
    BY <1>1, <1>4 DEF IInv, TypeOK, WireTypeOK, HandOver
  <1>6. ReceiptInv' /\ ResultInv' /\ RecorderInv'
    BY <1>1, <1>4, RecordsLast DEF Grows, HandOver
  <1>7. DrainInv' /\ ChainInv'
    BY DrainStays, ChainStays DEF HandOver
  <1>8. SendInv'
    BY <1>1, <1>2, <1>4 DEF IInv, SendInv, BeforePost, HandOver
  <1>9. WireInv'
    BY <1>1, <1>3 DEF IInv, WireInv, HandOver
  <1> QED
    BY <1>5, <1>6, <1>7, <1>8, <1>9 DEF IInv

\* A send that ends with a truthful observation.
LEMMA EndSendStep ==
  ASSUME IInv, NEW a \in Attempts, NEW o \in Observations,
         attempt[a] # None, send[a] # "ended", Truthful(a, o), EndSend(a, o),
         UNCHANGED <<permit, withdrawn, posted, attempt, told, ledgerVars, clockVars, wire,
                     answer, receiverVars>>
  PROVE  IInv'
  <1> USE DEF ledgerVars, clockVars, receiverVars
  <1>1. /\ send' \in [Attempts -> SendStages] /\ send'[a] = "ended"
        /\ \A b \in Attempts \ {a} : send'[b] = send[b]
    BY DEF IInv, TypeOK, SendStages, EndSend
  <1>2. /\ result' \in [Attempts -> Observations \cup {None}] /\ result'[a] = o
        /\ \A b \in Attempts \ {a} : result'[b] = result[b]
    BY DEF IInv, TypeOK, EndSend
  <1>3. TypeOK'
    BY <1>1, <1>2 DEF IInv, TypeOK, WireTypeOK
  <1>4. result[a] = None /\ rec[a] = "idle" /\ told[a] # "receipt"
    BY DEF IInv, ResultInv, RecorderInv
  <1>5. Grows
    BY <1>1 DEF Grows
  <1>6. ReceiptInv'
    <2>1. \A b \in Attempts : \A r : Planned(b, r) => Planned(b, r)'
      BY <1>5, PlanLasts
    <2>2. \A c \in late : c.id \in Attempts
      BY DEF IInv, TypeOK
    <2> QED
      BY <2>1, <2>2 DEF IInv, ReceiptInv
  <1>7. ResultInv'
    <2>1. SUFFICES ASSUME NEW b \in Attempts, result'[b] # None
                   PROVE  attempt'[b] # None /\ send'[b] = "ended" /\ Truthful(b, result[b])'
      BY DEF ResultInv
    <2>2. CASE b = a
      BY <1>1, <1>2, <2>2 DEF Truthful
    <2>3. CASE b # a
      BY <1>1, <1>2, <2>1, <2>3 DEF IInv, ResultInv, Truthful
    <2> QED
      BY <2>2, <2>3
  <1>8. RecorderInv'
    BY <1>2, <1>4 DEF IInv, RecorderInv, Desired
  <1>9. WireInv' /\ DrainInv' /\ ChainInv'
    BY WireStays, DrainStays, ChainStays
  <1>10. SendInv'
    BY <1>1 DEF IInv, SendInv, BeforePost
  <1> QED
    BY <1>3, <1>6, <1>7, <1>8, <1>9, <1>10 DEF IInv

LEMMA ObservedType ==
  ASSUME IInv, NEW out \in Outcomes, NEW c \in Codes, NEW st \in Nat, NEW hint \in Times
  PROVE  Observed(out, c, st, hint) \in Observations /\ Observed(out, c, st, hint).outcome = out
  BY DEF Observed, Observations, IInv, TypeOK

LEMMA BusyStep ==
  ASSUME IInv, NEW a \in Attempts, Busy(a), UNCHANGED receiverVars
  PROVE  IInv'
  <1> DEFINE o == Observed("blocked", "busy", 0, None)
  <1>1. PICK p \in Observations : p = o
    BY DEF Observed, Observations, Outcomes, Codes, BlockedCodes, Transient, Times, IInv, TypeOK
  <1>2. p.outcome = "blocked"
    BY <1>1 DEF Observed
  <1>3. a \notin posted
    BY DEF IInv, SendInv, Busy
  <1> QED
    BY <1>1, <1>2, <1>3, EndSendStep DEF Busy, Truthful

\* Without an answer: unknown after the hand-over, and blocked before it.
LEMMA StopStep ==
  ASSUME IInv, NEW a \in Attempts, Stop(a), UNCHANGED receiverVars
  PROVE  IInv'
  <1>1. PICK c \in StopCodes(send[a]) : EndSend(a, Observed(StopOutcome(send[a]), c, 0, None))
    BY DEF Stop
  <1> DEFINE o == Observed(StopOutcome(send[a]), c, 0, None)
  <1>2. c \in Codes
    BY DEF StopCodes, Codes, BlockedCodes, Transient
  <1>3. StopOutcome(send[a]) \in Outcomes /\ None \in Times
    BY DEF StopOutcome, Outcomes, Times
  <1>4. PICK p \in Observations : p = o /\ p.outcome = StopOutcome(send[a])
    BY <1>2, <1>3, ObservedType
  <1>5. send[a] \in {"idle"} \cup BeforePost \cup {"posting"}
    BY DEF IInv, TypeOK, SendStages, Sending, Stop
  <1>6. Truthful(a, p)
    BY <1>4, <1>5 DEF StopOutcome, Truthful, IInv, SendInv
  <1> QED
    BY <1>1, <1>4, <1>6, EndSendStep DEF Stop

\* The answer decides, and it stays.
LEMMA AnsweredStep ==
  ASSUME IInv, NEW a \in Attempts, Answered(a), UNCHANGED receiverVars
  PROVE  IInv'
  <1> DEFINE out == IF answer[a].status \in Success
                    THEN "accepted_by_endpoint" ELSE "not_accepted"
             o == Observed(out, "", answer[a].status, answer[a].hint)
  <1>1. answer[a] \in Answers /\ answer[a] # None /\ send[a] # "ended"
    BY DEF IInv, TypeOK, WireTypeOK, Answered
  <1>2. attempt[a] # None
    BY DEF IInv, SendInv, Answered
  <1>3. out \in Outcomes /\ "" \in Codes /\ answer[a].status \in Nat /\ answer[a].hint \in Times
    BY <1>1 DEF Answers, Outcomes, Codes
  <1>4. PICK p \in Observations : p = o /\ p.outcome = out
    <2> HIDE DEF out
    <2> QED
      BY <1>3, ObservedType
  <1>5. answer[a].status \in Success => DeliveryOf(a) \in inbox
    BY <1>1 DEF IInv, WireInv
  <1>6. Truthful(a, p)
    BY <1>1, <1>4, <1>5 DEF Truthful
  <1> QED
    BY <1>1, <1>2, <1>4, <1>6, EndSendStep DEF Answered

-----------------------------------------------------------------------------
(* Record                                                                  *)

\* What Record asks the ledger to commit.
LEMMA DesiredFacts ==
  ASSUME IInv, NEW a \in Attempts, result[a] # None
  PROVE  /\ Desired(a) \in Receipts /\ Desired(a) # None
         /\ Desired(a).observation = result[a]
         /\ Planned(a, Desired(a))
  <1>1. attempt[a] # None /\ send[a] = "ended" /\ Truthful(a, result[a])
    BY DEF IInv, ResultInv
  <1>2. attempt[a] \in AttemptRecords /\ result[a] \in Observations
    BY <1>1 DEF IInv, TypeOK
  <1>3. Decision(attempt[a], result[a]) \in Decisions
    BY <1>2, DecisionFacts
  <1>4. Desired(a) \in Receipts /\ Desired(a) # None
    BY <1>2, <1>3, NoRecordAssumption DEF Desired, Receipts
  <1> QED
    BY <1>1, <1>4 DEF Desired, Planned

\* A receipt that is stored where there was none keeps the chains.
LEMMA ReceiptStored ==
  ASSUME IInv, NEW a \in Attempts, NEW r \in Receipts, receipt[a] = None, r # None,
         receipt' = [receipt EXCEPT ![a] = r], UNCHANGED attempt
  PROVE  /\ receipt' \in [Attempts -> Receipts \cup {None}]
         /\ receipt'[a] = r /\ \A b \in Attempts \ {a} : receipt'[b] = receipt[b]
         /\ ChainInv'
  <1>1. /\ receipt' \in [Attempts -> Receipts \cup {None}]
        /\ receipt'[a] = r /\ \A b \in Attempts \ {a} : receipt'[b] = receipt[b]
    BY DEF IInv, TypeOK
  <1>2. \A b \in Attempts : receipt[b] # None => receipt'[b] = receipt[b]
    BY <1>1
  <1>3. ChainInv'
    <2>1. SUFFICES ASSUME NEW d \in Deliveries, NEW n \in 1..MaxAttempts,
                          attempt[<<d, n>>] # None
                   PROVE  /\ \A m \in 1..(n - 1) :
                                /\ receipt'[<<d, m>>] # None
                                /\ receipt'[<<d, m>>].decision.state = "RETRY_WAIT"
                          /\ n > 1 => receipt'[<<d, n - 1>>].decision.next
                                         <= attempt[<<d, n>>].started
      BY DEF IInv, ChainInv
    <2>2. ASSUME NEW m \in 1..(n - 1)
          PROVE  /\ receipt'[<<d, m>>] # None
                 /\ receipt'[<<d, m>>].decision.state = "RETRY_WAIT"
      <3>1. m \in 1..MaxAttempts
        BY AttemptFacts
      <3>2. /\ <<d, m>> \in Attempts /\ receipt[<<d, m>>] # None
            /\ receipt[<<d, m>>].decision.state = "RETRY_WAIT"
        BY <2>1, <3>1, AttemptFacts DEF IInv, ChainInv
      <3> QED
        BY <1>2, <3>2
    <2>3. ASSUME n > 1
          PROVE  receipt'[<<d, n - 1>>].decision.next <= attempt[<<d, n>>].started
      <3>1. n - 1 \in 1..MaxAttempts /\ n - 1 \in 1..(n - 1)
        BY <2>3, AttemptFacts
      <3>2. /\ <<d, n - 1>> \in Attempts /\ receipt[<<d, n - 1>>] # None
            /\ receipt[<<d, n - 1>>].decision.next <= attempt[<<d, n>>].started
        BY <2>1, <2>3, <3>1, AttemptFacts DEF IInv, ChainInv
      <3> QED
        BY <1>2, <3>2
    <2> QED
      BY <2>2, <2>3
  <1> QED
    BY <1>1, <1>3

LEMMA RecordStep ==
  ASSUME IInv, NEW a \in Attempts, Record(a), UNCHANGED receiverVars
  PROVE  IInv'
  <1> USE DEF sendVars, clockVars, receiverVars
  <1>1. result[a] # None /\ rec[a] = "idle"
    BY DEF Record
  <1>2. /\ rec' \in [Attempts -> RecordStages] /\ told' \in [Attempts -> Replies]
        /\ \A b \in Attempts \ {a} : rec'[b] = rec[b] /\ told'[b] = told[b]
    BY DEF Record, RecordRefused, RecordFound, RecordPlanned, IInv, TypeOK, RecordStages, Replies
  <1>3. /\ rec'[a] \in {"idle", "committing"}
        /\ told'[a] = "receipt" => told[a] = "receipt" \/ receipt[a] = Desired(a)
    BY <1>1 DEF Record, RecordRefused, RecordFound, RecordPlanned, IInv, TypeOK
  <1>4. TypeOK'
    BY <1>2 DEF IInv, TypeOK, WireTypeOK, Record
  <1>5. RecorderInv'
    <2>1. SUFFICES ASSUME NEW b \in Attempts
                   PROVE  /\ rec'[b] # "idle" => result[b] # None
                          /\ rec'[b] = "committed" => receipt[b] = Desired(b)
                          /\ told'[b] = "receipt" =>
                                /\ result[b] # None /\ receipt[b] # None
                                /\ receipt[b].observation = result[b]
      BY DEF RecorderInv, Record, Desired
    <2>2. CASE b = a
      BY <1>1, <1>3, <2>2, DesiredFacts DEF Record
    <2>3. CASE b # a
      BY <1>2, <2>3 DEF IInv, RecorderInv
    <2> QED
      BY <2>2, <2>3
  <1>6. ReceiptInv' /\ ResultInv'
    BY DEF IInv, ReceiptInv, ResultInv, Planned, Truthful, Record
  <1>7. SendInv' /\ WireInv' /\ DrainInv' /\ ChainInv'
    BY SendStays, WireStays, DrainStays, ChainStays DEF Record
  <1> QED
    BY <1>4, <1>5, <1>6, <1>7 DEF IInv

LEMMA CommitStep ==
  ASSUME IInv, NEW a \in Attempts, Commit(a), UNCHANGED receiverVars
  PROVE  IInv'
  <1> USE DEF hostVars, sendVars, clockVars, receiverVars
  <1>1. rec[a] = "committing" /\ result[a] # None
    BY DEF Commit, IInv, RecorderInv
  <1>2. /\ rec' \in [Attempts -> RecordStages]
        /\ rec'[a] = IF receipt[a] = None THEN "committed" ELSE "refused"
        /\ \A b \in Attempts \ {a} : rec'[b] = rec[b]
    BY DEF Commit, IInv, TypeOK, RecordStages
  <1>3. /\ receipt' \in [Attempts -> Receipts \cup {None}] /\ ChainInv'
        /\ receipt'[a] = IF receipt[a] = None THEN Desired(a) ELSE receipt[a]
        /\ \A b \in Attempts \ {a} : receipt'[b] = receipt[b]
    <2>1. CASE receipt[a] = None
      <3>1. PICK r \in Receipts : r = Desired(a)
        BY <1>1, DesiredFacts
      <3> QED
        BY <1>1, <2>1, <3>1, DesiredFacts, ReceiptStored DEF Commit
    <2>2. CASE receipt[a] # None
      BY <2>2, ChainStays DEF Commit, IInv, TypeOK
    <2> QED
      BY <2>1, <2>2
  <1>4. TypeOK'
    BY <1>2, <1>3 DEF IInv, TypeOK, WireTypeOK, Commit
  <1>5. RecorderInv'
    <2>1. SUFFICES ASSUME NEW b \in Attempts
                   PROVE  /\ rec'[b] # "idle" => result[b] # None
                          /\ rec'[b] = "committed" => receipt'[b] = Desired(b)
                          /\ told[b] = "receipt" =>
                                /\ result[b] # None /\ receipt'[b] # None
                                /\ receipt'[b].observation = result[b]
      BY DEF RecorderInv, Commit, Desired
    <2>2. CASE b = a
      BY <1>1, <1>2, <1>3, <2>2 DEF IInv, RecorderInv
    <2>3. CASE b # a
      BY <1>2, <1>3, <2>3 DEF IInv, RecorderInv
    <2> QED
      BY <2>2, <2>3
  <1>6. ReceiptInv'
    <2>1. \A b \in Attempts : \A r : Planned(b, r)' <=> Planned(b, r)
      BY DEF Planned, Truthful, Commit
    <2>2. \A b \in Attempts : receipt'[b] # None => Planned(b, receipt'[b])
      BY <1>1, <1>3, DesiredFacts DEF IInv, ReceiptInv
    <2>3. \A c \in late : c.id \in Attempts
      BY DEF IInv, TypeOK
    <2> QED
      BY <2>1, <2>2, <2>3 DEF IInv, ReceiptInv, Commit
  <1>7. ResultInv'
    BY DEF IInv, ResultInv, Truthful, Commit
  <1>8. SendInv' /\ WireInv' /\ DrainInv'
    BY SendStays, WireStays, DrainStays DEF Commit
  <1> QED
    BY <1>3, <1>4, <1>5, <1>6, <1>7, <1>8 DEF IInv

LEMMA RecordReturnStep ==
  ASSUME IInv, NEW a \in Attempts, RecordReturn(a), UNCHANGED receiverVars
  PROVE  IInv'
  <1> USE DEF sendVars, clockVars, receiverVars
  <1>1. result[a] # None /\ (rec[a] = "committed" => receipt[a] = Desired(a))
    BY DEF RecordReturn, IInv, RecorderInv
  <1>2. /\ rec' \in [Attempts -> RecordStages] /\ told' \in [Attempts -> Replies]
        /\ rec'[a] = "idle" /\ (told'[a] = "receipt" => rec[a] = "committed")
        /\ \A b \in Attempts \ {a} : rec'[b] = rec[b] /\ told'[b] = told[b]
    BY DEF RecordReturn, IInv, TypeOK, RecordStages, Replies
  <1>3. TypeOK'
    BY <1>2 DEF IInv, TypeOK, WireTypeOK, RecordReturn
  <1>4. RecorderInv'
    BY <1>1, <1>2, DesiredFacts DEF IInv, RecorderInv, Desired, RecordReturn
  <1>5. ReceiptInv' /\ ResultInv'
    BY DEF IInv, ReceiptInv, ResultInv, Planned, Truthful, RecordReturn
  <1>6. SendInv' /\ WireInv' /\ DrainInv' /\ ChainInv'
    BY SendStays, WireStays, DrainStays, ChainStays DEF RecordReturn
  <1> QED
    BY <1>3, <1>4, <1>5, <1>6 DEF IInv

\* A commit the recorder gives up on is planned like any other.
LEMMA AbandonedFacts ==
  ASSUME IInv, NEW a \in Attempts
  PROVE  \A c \in Abandoned(a) :
            /\ c \in [id : Attempts, receipt : Receipts]
            /\ c.id = a /\ Planned(a, c.receipt)
  <1>1. CASE rec[a] = "committing"
    <2>1. result[a] # None
      BY <1>1 DEF IInv, RecorderInv
    <2> QED
      BY <1>1, <2>1, DesiredFacts DEF Abandoned
  <1>2. CASE rec[a] # "committing"
    BY <1>2 DEF Abandoned
  <1> QED
    BY <1>1, <1>2

LEMMA RecordFailStep ==
  ASSUME IInv, NEW a \in Attempts, RecordFail(a), UNCHANGED receiverVars
  PROVE  IInv'
  <1> USE DEF sendVars, clockVars, receiverVars
  <1>1. late' = late \cup Abandoned(a)
    BY DEF RecordFail
  <1>2. /\ rec' \in [Attempts -> RecordStages] /\ told' \in [Attempts -> Replies]
        /\ rec'[a] = "idle" /\ told'[a] = "unavailable"
        /\ \A b \in Attempts \ {a} : rec'[b] = rec[b] /\ told'[b] = told[b]
    BY DEF RecordFail, IInv, TypeOK, RecordStages, Replies
  <1>3. late' \subseteq [id : Attempts, receipt : Receipts]
    BY <1>1, AbandonedFacts DEF IInv, TypeOK
  <1>4. TypeOK'
    BY <1>2, <1>3 DEF IInv, TypeOK, WireTypeOK, RecordFail
  <1>5. RecorderInv'
    BY <1>2 DEF IInv, RecorderInv, Desired, RecordFail
  <1>6. ReceiptInv'
    <2>1. \A b \in Attempts : \A r : Planned(b, r)' <=> Planned(b, r)
      BY DEF Planned, Truthful, RecordFail
    <2>2. \A c \in late' : c.id \in Attempts /\ Planned(c.id, c.receipt)
      BY <1>1, <1>3, AbandonedFacts DEF IInv, ReceiptInv
    <2> QED
      BY <2>1, <2>2 DEF IInv, ReceiptInv, RecordFail
  <1>7. ResultInv'
    BY DEF IInv, ResultInv, Truthful, RecordFail
  <1>8. SendInv' /\ WireInv' /\ DrainInv' /\ ChainInv'
    BY SendStays, WireStays, DrainStays, ChainStays DEF RecordFail
  <1> QED
    BY <1>4, <1>5, <1>6, <1>7, <1>8 DEF IInv

LEMMA LateCommitStep ==
  ASSUME IInv, NEW c \in late, LateCommit(c), UNCHANGED receiverVars
  PROVE  IInv'
  <1> USE DEF hostVars, sendVars, clockVars, receiverVars
  <1>1. c.id \in Attempts /\ c.receipt \in Receipts /\ c.receipt # None /\ Planned(c.id, c.receipt)
    BY NoRecordAssumption DEF IInv, TypeOK, ReceiptInv
  <1>2. /\ receipt' \in [Attempts -> Receipts \cup {None}] /\ ChainInv'
        /\ receipt'[c.id] = IF receipt[c.id] = None THEN c.receipt ELSE receipt[c.id]
        /\ \A b \in Attempts \ {c.id} : receipt'[b] = receipt[b]
    <2>1. CASE receipt[c.id] = None
      <3>1. receipt' = [receipt EXCEPT ![c.id] = c.receipt] /\ UNCHANGED attempt
        BY <2>1 DEF LateCommit
      <3> QED
        BY <1>1, <2>1, <3>1, ReceiptStored
    <2>2. CASE receipt[c.id] # None
      BY <1>1, <2>2, ChainStays DEF LateCommit, IInv, TypeOK
    <2> QED
      BY <2>1, <2>2
  <1>3. TypeOK'
    BY <1>2 DEF IInv, TypeOK, WireTypeOK, LateCommit
  <1>4. RecorderInv'
    <2>1. \A b \in Attempts : receipt[b] # None => receipt'[b] = receipt[b]
      BY <1>2
    <2>2. ASSUME NEW b \in Attempts, rec[b] = "committed"
          PROVE  receipt[b] = Desired(b) /\ receipt[b] # None
      BY <2>2, DesiredFacts DEF IInv, RecorderInv
    <2> QED
      BY <2>1, <2>2 DEF IInv, RecorderInv, Desired, LateCommit
  <1>5. ReceiptInv'
    <2>1. \A b \in Attempts : \A r : Planned(b, r)' <=> Planned(b, r)
      BY DEF Planned, Truthful, LateCommit
    <2>2. \A b \in Attempts : receipt'[b] # None => Planned(b, receipt'[b])
      BY <1>1, <1>2 DEF IInv, ReceiptInv
    <2>3. \A e \in late' : e.id \in Attempts /\ Planned(e.id, e.receipt)
      BY DEF IInv, TypeOK, ReceiptInv, LateCommit
    <2> QED
      BY <2>1, <2>2, <2>3 DEF ReceiptInv
  <1>6. ResultInv'
    BY DEF IInv, ResultInv, Truthful, LateCommit
  <1>7. SendInv' /\ WireInv' /\ DrainInv'
    BY SendStays, WireStays, DrainStays DEF LateCommit
  <1> QED
    BY <1>2, <1>3, <1>4, <1>5, <1>6, <1>7 DEF IInv

\* A crash forgets everything but the ledger and what is on its way.
LEMMA CrashStep ==
  ASSUME IInv, Crash, UNCHANGED receiverVars
  PROVE  IInv'
  <1> USE DEF receiverVars
  <1>1. /\ send' = [a \in Attempts |-> IF attempt[a] = None THEN "idle" ELSE "ended"]
        /\ result' = [a \in Attempts |-> None] /\ told' = [a \in Attempts |-> "none"]
        /\ rec' = [a \in Attempts |-> "idle"]
        /\ late' = late \cup UNION {Abandoned(a) : a \in Attempts}
    BY DEF Crash
  <1>2. \A c \in late' : c \in [id : Attempts, receipt : Receipts] /\ Planned(c.id, c.receipt)
    BY <1>1, AbandonedFacts DEF IInv, TypeOK, ReceiptInv
  <1>3. TypeOK'
    BY <1>1, <1>2 DEF IInv, TypeOK, WireTypeOK, Crash, SendStages, RecordStages, Replies
  <1>4. Grows
    BY <1>1 DEF Grows, Crash
  <1>5. ReceiptInv'
    <2>1. \A b \in Attempts : \A r : Planned(b, r) => Planned(b, r)'
      BY <1>4, PlanLasts
    <2>2. \A c \in late' : c.id \in Attempts
      BY <1>2
    <2> QED
      BY <1>2, <2>1, <2>2 DEF IInv, ReceiptInv, Crash
  <1>6. ResultInv' /\ RecorderInv'
    BY <1>1 DEF ResultInv, RecorderInv
  <1>7. SendInv'
    BY <1>1 DEF IInv, SendInv, BeforePost, Crash
  <1>8. WireInv' /\ DrainInv' /\ ChainInv'
    BY WireStays, DrainStays, ChainStays DEF Crash
  <1> QED
    BY <1>3, <1>5, <1>6, <1>7, <1>8 DEF IInv

-----------------------------------------------------------------------------
(* The receiver                                                            *)

LEMMA ReceiverFrame ==
  ASSUME IInv, UNCHANGED dispatchVars, inbox \subseteq inbox',
         \A a \in Attempts : answer[a] # None => answer'[a] = answer[a]
  PROVE  SendInv' /\ ChainInv' /\ ReceiptInv' /\ ResultInv' /\ RecorderInv'
  <1> USE DEF dispatchVars
  <1>1. Grows
    BY DEF Grows
  <1>2. ReceiptInv' /\ ResultInv' /\ RecorderInv'
    BY <1>1, RecordsLast
  <1> QED
    BY <1>2, SendStays, ChainStays

\* A request that moves on without changing who is served.
LEMMA ServedKept ==
  ASSUME IInv, NEW a \in Attempts, NEW s \in Stages, Move(a, s),
         serving[a] \in Admitted <=> s \in Admitted, UNCHANGED drainVars
  PROVE  DrainInv'
  <1>1. Serving' = Serving
    BY DEF Serving, Move, IInv, TypeOK
  <1> QED
    BY <1>1 DEF IInv, DrainInv, drainVars

LEMMA MoveEffect ==
  ASSUME IInv, NEW a \in Attempts, NEW s \in Stages, Move(a, s)
  PROVE  /\ serving' \in [Attempts -> Stages] /\ serving'[a] = s
         /\ \A b \in Attempts \ {a} : serving'[b] = serving[b]
  BY DEF IInv, TypeOK, Move

\* The first answer to a request that had none.
LEMMA ReplyEffect ==
  ASSUME IInv, NEW a \in Attempts, NEW r \in Answers, answer' = [answer EXCEPT ![a] = r]
  PROVE  /\ answer' \in [Attempts -> Answers \cup {None}] /\ answer'[a] = r /\ r # None
         /\ \A b \in Attempts \ {a} : answer'[b] = answer[b]
  BY NoAnswerAssumption DEF IInv, TypeOK, WireTypeOK

\* No refusal reads as an acceptance.
LEMMA RefusalFacts ==
    /\ 204 \in Nat
    /\ 503 \in Nat /\ 503 \notin Success
    /\ \A s \in Refusals : s \in Nat /\ s \notin Success
  <1>1. 204 \in Nat /\ 503 \in Nat /\ 503 \notin Success
    BY SMT DEF Success
  <1>2. \A s \in Refusals : s \in Nat /\ s \notin Success
    BY ReceiverAssumption, SMT DEF Success
  <1> QED
    BY <1>1, <1>2

LEMMA StatusAnswer ==
  ASSUME NEW n \in Nat
  PROVE  [status |-> n, hint |-> None] \in Answers
  BY DEF Answers, Times

LEMMA EnterStep ==
  ASSUME IInv, NEW a \in Attempts, Enter(a), UNCHANGED dispatchVars
  PROVE  IInv'
  <1> USE DEF inboxVars
  <1>1. /\ a \in wire /\ a \in posted /\ serving[a] = "none" /\ answer[a] = None /\ ~draining
        /\ wire' = wire \ {a} /\ Move(a, "admitted") /\ active' = active + 1
        /\ "admitted" \in Stages \cap Admitted
    BY DEF Enter, Full, Stages, Admitted, IInv, WireInv
  <1>2. /\ serving' \in [Attempts -> Stages] /\ serving'[a] = "admitted"
        /\ \A b \in Attempts \ {a} : serving'[b] = serving[b]
    BY <1>1, MoveEffect
  <1>3. TypeOK'
    BY <1>1, <1>2 DEF IInv, TypeOK, WireTypeOK, Enter, dispatchVars
  <1>4. WireInv'
    BY <1>1, <1>2 DEF IInv, WireInv, Enter, dispatchVars
  <1>5. DrainInv'
    <2>1. Serving' = Serving \cup {a} /\ a \notin Serving
      BY <1>1, <1>2 DEF Serving, Admitted
    <2>2. IsFiniteSet(Serving') /\ active' = Cardinality(Serving')
      BY <1>1, <2>1, FS_AddElement DEF IInv, DrainInv
    <2> QED
      BY <1>1, <2>2 DEF IInv, DrainInv, Enter
  <1> QED
    BY <1>3, <1>4, <1>5, ReceiverFrame DEF IInv, Enter

LEMMA TurnAwayStep ==
  ASSUME IInv, NEW a \in Attempts, TurnAway(a), UNCHANGED dispatchVars
  PROVE  IInv'
  <1> USE DEF inboxVars
  <1>1. /\ a \in wire /\ a \in posted /\ serving[a] = "none" /\ answer[a] = None
        /\ wire' = wire \ {a} /\ Move(a, "done") /\ Reply(a, 503)
        /\ "done" \in Stages \ Admitted /\ "none" \notin Admitted
    BY DEF TurnAway, Stages, Admitted, IInv, WireInv
  <1>2. /\ serving' \in [Attempts -> Stages] /\ serving'[a] = "done"
        /\ \A b \in Attempts \ {a} : serving'[b] = serving[b]
    BY <1>1, MoveEffect
  <1>3. PICK r \in Answers : r = [status |-> 503, hint |-> None]
    <2>1. 503 \in Nat
      BY RefusalFacts
    <2>2. [status |-> 503, hint |-> None] \in Answers
      BY <2>1, StatusAnswer
    <2> QED
      BY <2>2
  <1>a. answer' = [answer EXCEPT ![a] = r]
    BY <1>1, <1>3 DEF Reply
  <1>4. /\ answer' \in [Attempts -> Answers \cup {None}] /\ answer'[a] = r
        /\ \A b \in Attempts \ {a} : answer'[b] = answer[b]
    BY <1>a, ReplyEffect
  <1>b. r.status \notin Success
    <2>1. r.status = 503
      BY <1>3
    <2> QED
      BY <2>1, RefusalFacts
  <1>5. TypeOK'
    BY <1>1, <1>2, <1>4 DEF IInv, TypeOK, WireTypeOK, TurnAway, drainVars, dispatchVars
  <1>6. WireInv'
    BY <1>1, <1>2, <1>4, <1>b DEF IInv, WireInv, TurnAway, Admitted, dispatchVars
  <1>7. DrainInv'
    BY <1>1, ServedKept DEF TurnAway
  <1> QED
    BY <1>1, <1>4, <1>5, <1>6, <1>7, ReceiverFrame DEF IInv, TurnAway

LEMMA InterceptStep ==
  ASSUME IInv, NEW a \in Attempts, Intercept(a), UNCHANGED dispatchVars
  PROVE  IInv'
  <1> USE DEF receiverVars
  <1>1. /\ a \in wire /\ a \in posted /\ serving[a] = "none" /\ answer[a] = None
        /\ wire' = wire \ {a}
    BY DEF Intercept, IInv, WireInv
  <1>2. PICK r \in GatewayAnswers : answer' = [answer EXCEPT ![a] = r]
    BY DEF Intercept
  <1>3. r \in Answers /\ r.status \notin Success
    BY ReceiverAssumption
  <1>4. /\ answer' \in [Attempts -> Answers \cup {None}] /\ answer'[a] = r
        /\ \A b \in Attempts \ {a} : answer'[b] = answer[b]
    BY <1>2, <1>3, ReplyEffect
  <1>5. TypeOK'
    BY <1>1, <1>4 DEF IInv, TypeOK, WireTypeOK, Intercept, dispatchVars
  <1>6. WireInv'
    BY <1>1, <1>3, <1>4 DEF IInv, WireInv, Intercept, Admitted, dispatchVars
  <1>7. DrainInv'
    BY DrainStays DEF Intercept
  <1> QED
    BY <1>1, <1>4, <1>5, <1>6, <1>7, ReceiverFrame DEF IInv, Intercept

LEMMA RefuseStep ==
  ASSUME IInv, NEW a \in Attempts, Refuse(a), UNCHANGED dispatchVars
  PROVE  IInv'
  <1> USE DEF inboxVars
  <1>1. /\ serving[a] = "admitted" /\ Move(a, "answering")
        /\ {"admitted", "answering"} \subseteq Stages \cap Admitted
    BY DEF Refuse, Stages, Admitted
  <1>2. /\ serving' \in [Attempts -> Stages] /\ serving'[a] = "answering"
        /\ \A b \in Attempts \ {a} : serving'[b] = serving[b]
    BY <1>1, MoveEffect
  <1>3. PICK s \in Refusals : offered' = [offered EXCEPT ![a] = s]
    BY DEF Refuse
  <1>4. s # 204 /\ offered' \in [Attempts -> {204, 503} \cup Refusals] /\ offered'[a] = s
        /\ \A b \in Attempts \ {a} : offered'[b] = offered[b]
    BY <1>3, ReceiverAssumption DEF IInv, TypeOK
  <1>5. TypeOK'
    BY <1>2, <1>4 DEF IInv, TypeOK, WireTypeOK, Refuse, drainVars, dispatchVars
  <1>6. WireInv'
    BY <1>1, <1>2, <1>4 DEF IInv, WireInv, Refuse, Admitted, dispatchVars
  <1>7. DrainInv'
    BY <1>1, ServedKept DEF Refuse
  <1> QED
    BY <1>5, <1>6, <1>7, ReceiverFrame DEF IInv, Refuse

LEMMA AcceptStep ==
  ASSUME IInv, NEW a \in Attempts, Accept(a), UNCHANGED dispatchVars
  PROVE  IInv'
  <1> USE DEF inboxVars
  <1>1. /\ serving[a] = "admitted" /\ Move(a, "accepting")
        /\ {"admitted", "accepting"} \subseteq Stages \cap Admitted
    BY DEF Accept, Stages, Admitted
  <1>2. /\ serving' \in [Attempts -> Stages] /\ serving'[a] = "accepting"
        /\ \A b \in Attempts \ {a} : serving'[b] = serving[b]
    BY <1>1, MoveEffect
  <1>3. TypeOK'
    BY <1>2 DEF IInv, TypeOK, WireTypeOK, Accept, drainVars, dispatchVars
  <1>4. WireInv'
    BY <1>1, <1>2 DEF IInv, WireInv, Accept, Admitted, dispatchVars
  <1>5. DrainInv'
    BY <1>1, ServedKept DEF Accept
  <1> QED
    BY <1>3, <1>4, <1>5, ReceiverFrame DEF IInv, Accept

LEMMA StoreStep ==
  ASSUME IInv, NEW a \in Attempts, Store(a), UNCHANGED dispatchVars
  PROVE  IInv'
  <1>1. /\ serving[a] = "accepting" /\ Move(a, "stored")
        /\ inbox' = inbox \cup {DeliveryOf(a)} /\ DeliveryOf(a) \in Deliveries
        /\ {"accepting", "stored"} \subseteq Stages \cap Admitted
    BY AttemptFacts DEF Store, Stages, Admitted, DeliveryOf
  <1>2. /\ serving' \in [Attempts -> Stages] /\ serving'[a] = "stored"
        /\ \A b \in Attempts \ {a} : serving'[b] = serving[b]
    BY <1>1, MoveEffect
  <1>3. TypeOK'
    BY <1>1, <1>2 DEF IInv, TypeOK, WireTypeOK, Store, drainVars, dispatchVars
  <1>4. WireInv'
    BY <1>1, <1>2 DEF IInv, WireInv, Store, Admitted, dispatchVars
  <1>5. DrainInv'
    BY <1>1, ServedKept DEF Store
  <1> QED
    BY <1>1, <1>3, <1>4, <1>5, ReceiverFrame DEF IInv, Store

\* 204 is offered for what the inbox has stored, 503 otherwise.
LEMMA OfferStep ==
  ASSUME IInv, NEW a \in Attempts, Acknowledge(a) \/ StoreFails(a), UNCHANGED dispatchVars
  PROVE  IInv'
  <1>1. /\ serving[a] \in {"accepting", "stored"} /\ Move(a, "answering")
        /\ {"accepting", "stored", "answering"} \subseteq Stages \cap Admitted
        /\ UNCHANGED <<drainVars, inbox, wire, answer>>
    BY DEF Acknowledge, StoreFails, Stages, Admitted, inboxVars
  <1>2. /\ serving' \in [Attempts -> Stages] /\ serving'[a] = "answering"
        /\ \A b \in Attempts \ {a} : serving'[b] = serving[b]
    BY <1>1, MoveEffect
  <1>3. /\ offered' \in [Attempts -> {204, 503} \cup Refusals]
        /\ offered'[a] = 204 => serving[a] = "stored"
        /\ \A b \in Attempts \ {a} : offered'[b] = offered[b]
    BY DEF Acknowledge, StoreFails, IInv, TypeOK
  <1>4. lateAccepts' \subseteq Deliveries
    BY AttemptFacts DEF Acknowledge, StoreFails, IInv, TypeOK, DeliveryOf, inboxVars
  <1>5. TypeOK'
    BY <1>1, <1>2, <1>3, <1>4 DEF IInv, TypeOK, WireTypeOK, drainVars, dispatchVars
  <1>6. WireInv'
    BY <1>1, <1>2, <1>3 DEF IInv, WireInv, Admitted, dispatchVars
  <1>7. DrainInv'
    BY <1>1, ServedKept
  <1> QED
    BY <1>1, <1>5, <1>6, <1>7, ReceiverFrame DEF IInv

LEMMA LateAcceptStep ==
  ASSUME IInv, NEW d \in lateAccepts, LateAccept(d), UNCHANGED dispatchVars
  PROVE  IInv'
  <1> USE DEF handlerVars, drainVars
  <1>1. d \in Deliveries /\ inbox' = inbox \cup {d} /\ lateAccepts' \subseteq lateAccepts
    BY DEF LateAccept, IInv, TypeOK
  <1>2. TypeOK'
    BY <1>1 DEF IInv, TypeOK, WireTypeOK, LateAccept, dispatchVars
  <1>3. WireInv' /\ DrainInv'
    BY <1>1, WireStays, DrainStays DEF LateAccept, dispatchVars
  <1> QED
    BY <1>1, <1>2, <1>3, ReceiverFrame DEF IInv, LateAccept

LEMMA AnswerStep ==
  ASSUME IInv, NEW a \in Attempts, Answer(a), UNCHANGED dispatchVars
  PROVE  IInv'
  <1> USE DEF inboxVars
  <1>1. /\ serving[a] = "answering" /\ Move(a, "releasing") /\ Reply(a, offered[a])
        /\ {"answering", "releasing"} \subseteq Stages \cap Admitted
        /\ answer[a] = None /\ a \in posted /\ a \notin wire
    BY DEF Answer, Stages, Admitted, IInv, WireInv
  <1>2. /\ serving' \in [Attempts -> Stages] /\ serving'[a] = "releasing"
        /\ \A b \in Attempts \ {a} : serving'[b] = serving[b]
    BY <1>1, MoveEffect
  <1>3. offered[a] \in {204, 503} \cup Refusals
    BY DEF IInv, TypeOK
  <1>4. offered[a] \in Nat /\ (offered[a] \in Success => offered[a] = 204)
    <2>1. CASE offered[a] = 204
      BY <2>1, RefusalFacts
    <2>2. CASE offered[a] = 503
      BY <2>2, RefusalFacts
    <2>3. CASE offered[a] \in Refusals
      BY <2>3, RefusalFacts
    <2> QED
      BY <1>3, <2>1, <2>2, <2>3
  <1>5. PICK r \in Answers : r = [status |-> offered[a], hint |-> None]
    <2>1. offered[a] \in Nat
      BY <1>4
    <2> QED
      BY <2>1, StatusAnswer
  <1>6. /\ answer' \in [Attempts -> Answers \cup {None}] /\ answer'[a] = r
        /\ r.status = offered[a]
        /\ \A b \in Attempts \ {a} : answer'[b] = answer[b]
    BY <1>1, <1>5, ReplyEffect DEF Reply
  <1>7. TypeOK'
    BY <1>2, <1>6 DEF IInv, TypeOK, WireTypeOK, Answer, drainVars, dispatchVars
  <1>8. WireInv'
    BY <1>1, <1>2, <1>4, <1>6 DEF IInv, WireInv, Answer, Admitted, dispatchVars
  <1>9. DrainInv'
    BY <1>1, ServedKept DEF Answer
  <1> QED
    BY <1>1, <1>6, <1>7, <1>8, <1>9, ReceiverFrame DEF IInv, Answer

\* The one that leaves last during a drain closes the channel, which nobody
\* had closed: it was still served.
LEMMA ReleaseStep ==
  ASSUME IInv, NEW a \in Attempts, Release(a), UNCHANGED dispatchVars
  PROVE  IInv'
  <1> USE DEF inboxVars
  <1>1. /\ serving[a] = "releasing" /\ Move(a, "done") /\ active' = active - 1
        /\ "done" \in Stages \ Admitted /\ "releasing" \in Admitted
    BY DEF Release, Stages, Admitted
  <1>2. /\ serving' \in [Attempts -> Stages] /\ serving'[a] = "done"
        /\ \A b \in Attempts \ {a} : serving'[b] = serving[b]
    BY <1>1, MoveEffect
  <1>3. Serving' = Serving \ {a} /\ a \in Serving
    BY <1>1, <1>2 DEF Serving
  <1>4. /\ IsFiniteSet(Serving') /\ Cardinality(Serving') = Cardinality(Serving) - 1
        /\ Cardinality(Serving) \in Nat /\ Cardinality(Serving') \in Nat
    BY <1>3, FS_RemoveElement, FS_CardinalityType DEF IInv, DrainInv
  <1>5. active' = Cardinality(Serving') /\ active' \in Nat /\ active # 0
    BY <1>1, <1>4 DEF IInv, DrainInv
  <1>6. closings = 0
    BY <1>5 DEF IInv, DrainInv
  <1>7. closings' \in {0, 1} /\ (closings' = 1 => draining /\ active' = 0)
    BY <1>6 DEF Release
  <1>8. DrainInv'
    BY <1>4, <1>5, <1>7 DEF DrainInv, Release
  <1>9. TypeOK'
    BY <1>2, <1>5, <1>7 DEF IInv, TypeOK, WireTypeOK, Release, dispatchVars
  <1>10. WireInv'
    BY <1>1, <1>2 DEF IInv, WireInv, Release, Admitted, dispatchVars
  <1> QED
    BY <1>8, <1>9, <1>10, ReceiverFrame DEF IInv, Release

LEMMA DrainStep ==
  ASSUME IInv, Drain, UNCHANGED dispatchVars
  PROVE  IInv'
  <1> USE DEF handlerVars, inboxVars
  <1>1. closings = 0 /\ draining' = TRUE
    BY DEF IInv, DrainInv, Drain
  <1>2. closings' \in {0, 1} /\ (closings' = 1 => active = 0)
    BY <1>1 DEF Drain
  <1>3. DrainInv'
    BY <1>1, <1>2 DEF IInv, DrainInv, Serving, Drain
  <1>4. TypeOK'
    BY <1>1, <1>2 DEF IInv, TypeOK, WireTypeOK, Drain, dispatchVars
  <1>5. WireInv'
    BY WireStays DEF Drain, dispatchVars
  <1> QED
    BY <1>3, <1>4, <1>5, ReceiverFrame DEF IInv, Drain

-----------------------------------------------------------------------------
(* The invariant                                                           *)

LEMMA InitInvariant ==
  ASSUME Init
  PROVE  IInv
  <1> USE DEF Init, DispatchInit, ReceiverInit, WireInit
  <1>1. TypeOK
    <2>1. /\ now \in Nat /\ profile \in Nat /\ crashes \in Nat
          /\ active \in Nat /\ closings \in Nat
      OBVIOUS
    <2>6. draining \in BOOLEAN
      BY Zenon
    <2>2. /\ attempt \in [Attempts -> AttemptRecords \cup {None}]
          /\ receipt \in [Attempts -> Receipts \cup {None}]
          /\ result \in [Attempts -> Observations \cup {None}]
          /\ withdrawn \in [Attempts -> SendStages \cup {None}]
      OBVIOUS
    <2>3. /\ send \in [Attempts -> SendStages] /\ rec \in [Attempts -> RecordStages]
          /\ told \in [Attempts -> Replies] /\ serving \in [Attempts -> Stages]
      BY DEF SendStages, RecordStages, Replies, Stages
    <2>4. offered \in [Attempts -> {204, 503} \cup Refusals]
      OBVIOUS
    <2>5. WireTypeOK
      BY DEF WireTypeOK
    <2> QED
      BY <2>1, <2>2, <2>3, <2>4, <2>5, <2>6 DEF TypeOK
  <1>2. SendInv
    BY DEF SendInv
  <1>3. WireInv
    BY DEF WireInv, Admitted
  <1>4. ReceiptInv /\ ResultInv /\ RecorderInv
    BY DEF ReceiptInv, ResultInv, RecorderInv
  <1>5. ChainInv
    BY AttemptFacts DEF ChainInv
  <1>6. Serving = {}
    BY DEF Serving, Admitted
  <1>7. DrainInv
    BY <1>6, FS_EmptySet DEF DrainInv
  <1> QED
    BY <1>1, <1>2, <1>3, <1>4, <1>5, <1>7 DEF IInv

LEMMA SenderStep ==
  ASSUME IInv, Sender
  PROVE  IInv'
  <1>1. UNCHANGED receiverVars /\ DispatchNext
    BY DEF Sender
  <1>2. ASSUME NEW a \in Attempts,
               \/ CreateAttempt(a) \/ Revoke(a)
               \/ Admit(a) \/ Busy(a) \/ Resolve(a) \/ Connect(a) \/ HandOver(a)
               \/ Stop(a) \/ Answered(a)
        PROVE  IInv'
    BY <1>1, <1>2, CreateAttemptStep, RevokeStep, AdmitStep, BusyStep, ResolveStep,
       ConnectStep, HandOverStep, StopStep, AnsweredStep
  <1>3. ASSUME NEW a \in Attempts, Record(a) \/ Commit(a) \/ RecordReturn(a) \/ RecordFail(a)
        PROVE  IInv'
    BY <1>1, <1>3, RecordStep, CommitStep, RecordReturnStep, RecordFailStep
  <1>4. ASSUME NEW c \in late, LateCommit(c)
        PROVE  IInv'
    BY <1>1, <1>4, LateCommitStep
  <1>5. CASE Tick \/ Upgrade \/ Crash
    BY <1>1, <1>5, ClockStep, CrashStep
  <1> QED
    BY <1>1, <1>2, <1>3, <1>4, <1>5 DEF DispatchNext

LEMMA ReceiverStep ==
  ASSUME IInv, Receiver
  PROVE  IInv'
  <1>1. UNCHANGED dispatchVars /\ ReceiverNext
    BY DEF Receiver
  <1>2. ASSUME NEW a \in Attempts,
               \/ Enter(a) \/ TurnAway(a) \/ Intercept(a) \/ Refuse(a) \/ Accept(a)
               \/ Store(a) \/ Acknowledge(a) \/ StoreFails(a) \/ Answer(a) \/ Release(a)
        PROVE  IInv'
    BY <1>1, <1>2, EnterStep, TurnAwayStep, InterceptStep, RefuseStep, AcceptStep, StoreStep,
       OfferStep, AnswerStep, ReleaseStep
  <1>3. ASSUME NEW d \in lateAccepts, LateAccept(d)
        PROVE  IInv'
    BY <1>1, <1>3, LateAcceptStep
  <1>4. CASE Drain
    BY <1>1, <1>4, DrainStep
  <1> QED
    BY <1>1, <1>2, <1>3, <1>4 DEF ReceiverNext

LEMMA Stutter ==
  ASSUME IInv, UNCHANGED vars
  PROVE  IInv'
  <1> USE DEF vars, dispatchVars, receiverVars
  <1>1. TypeOK'
    BY DEF IInv, TypeOK, WireTypeOK
  <1>2. SendInv' /\ WireInv' /\ DrainInv' /\ ChainInv'
    BY SendStays, WireStays, DrainStays, ChainStays
  <1>3. ReceiptInv' /\ ResultInv' /\ RecorderInv'
    BY RecordsLast DEF Grows
  <1> QED
    BY <1>1, <1>2, <1>3 DEF IInv

LEMMA StepInvariant ==
  ASSUME IInv, [Next]_vars
  PROVE  IInv'
  BY SenderStep, ReceiverStep, Stutter DEF Next

\* The inductive invariant holds of every behaviour.
THEOREM Invariance == Spec => []IInv
  BY InitInvariant, StepInvariant, PTL DEF Spec

-----------------------------------------------------------------------------
(* The properties                                                          *)

\* The variables of dispatcher, receiver and network stay in their types.
THEOREM TypeCorrect == Spec => []TypeOK
  <1>1. IInv => TypeOK
    BY DEF IInv
  <1> QED
    BY <1>1, Invariance, PTL

\* What the receipt before an attempt says.
LEMMA RetryFacts ==
  ASSUME IInv, NEW a \in Attempts, attempt[a] # None, a[2] > 1
  PROVE  LET o == receipt[Previous(a)].observation
         IN  Truthful(Previous(a), o) /\ Retryable(o)
  <1> DEFINE p == Previous(a)
             o == receipt[p].observation
  <1>1. PICK d \in Deliveries, n \in 1..MaxAttempts : d = a[1] /\ n = a[2] /\ a = <<d, n>>
    BY AttemptFacts
  <1>2. n > 1 /\ n - 1 \in 1..(n - 1) /\ n - 1 \in 1..MaxAttempts
    BY <1>1, AttemptFacts
  <1>3. p = <<d, n - 1>> /\ p \in Attempts
    BY <1>1, <1>2, AttemptFacts DEF Previous
  <1>4. receipt[p] # None /\ receipt[p].decision.state = "RETRY_WAIT"
    BY <1>1, <1>2, <1>3 DEF IInv, ChainInv
  <1>5. Planned(p, receipt[p])
    BY <1>3, <1>4 DEF IInv, ReceiptInv
  <1>6. attempt[p] \in AttemptRecords /\ o \in Observations
    BY <1>3, <1>4, <1>5 DEF IInv, TypeOK, Receipts, Planned
  <1>7. receipt[p].decision = Decision(attempt[p], o) /\ Truthful(p, o)
    BY <1>5 DEF Planned
  <1> HIDE DEF p, o
  <1>8. State(attempt[p], o) = "RETRY_WAIT"
    BY <1>4, <1>6, <1>7, DecisionFacts
  <1>9. Retryable(o)
    BY <1>6, <1>8, StateFacts
  <1> QED
    BY <1>7, <1>9 DEF p, o

\* A retry never follows a request that may have been accepted (planner.go: an
\* unknown outcome is final; client.go: the hand-over decides what is unknown).
THEOREM BlindResendExcluded == Spec => []NoBlindResend
  <1>1. ASSUME IInv
        PROVE  NoBlindResend
    <2>1. SUFFICES ASSUME NEW a \in Attempts, attempt[a] # None, a[2] > 1
                   PROVE  \/ Previous(a) \notin posted
                          \/ /\ answer[Previous(a)] # None
                             /\ answer[Previous(a)].status \notin Success
      BY DEF NoBlindResend
    <2>2. PICK p : p = Previous(a)
      OBVIOUS
    <2>3. PICK o : o = receipt[p].observation
      OBVIOUS
    <2>4. Truthful(p, o) /\ Retryable(o)
      BY <1>1, <2>1, <2>2, <2>3, RetryFacts
    <2> QED
      BY <2>2, <2>4 DEF Truthful, Retryable
  <1> QED
    BY <1>1, Invariance, PTL

\* No request leaves after its permit was withdrawn before the connection was
\* up (client.go checks it before every step of the send).
THEOREM FreshPermit == Spec => []PermitIsFresh
  <1>1. IInv => PermitIsFresh
    BY DEF IInv, TypeOK, SendInv, PermitIsFresh, Early
  <1> QED
    BY <1>1, Invariance, PTL

\* What Record told its caller is in the ledger (recorder.go: a lost or late
\* commit is never reported as done).
THEOREM RecordedDurable == Spec => []RecordedIsDurable
  <1>1. IInv => RecordedIsDurable
    BY DEF IInv, RecorderInv, RecordedIsDurable
  <1> QED
    BY <1>1, Invariance, PTL

\* A drain signals once, when nobody is served (handler.go), for any number of
\* concurrent requests.
THEOREM DrainFinal == Spec => []DrainIsFinal
  <1>1. ASSUME IInv
        PROVE  DrainIsFinal
    <2>1. closings \in {0, 1}
      BY <1>1 DEF IInv, DrainInv
    <2>2. ASSUME closings = 1
          PROVE  Serving = {}
      BY <1>1, <2>2, FS_EmptySet DEF IInv, DrainInv
    <2> QED
      BY <2>1, <2>2 DEF DrainIsFinal, Serving
  <1> QED
    BY <1>1, Invariance, PTL

-----------------------------------------------------------------------------
(* What Send reports, Plan takes                                           *)

\* The times of an attempt are in order and its policy is not of the future.
Timely(a) ==
    /\ attempt[a].created <= attempt[a].started
    /\ attempt[a].started < attempt[a].deadline
    /\ attempt[a].started <= now /\ attempt[a].policy <= profile

\* An observation comes after the start of its attempt, and is one of those
\* the planner knows or the one it does not.
Takeable(a, o) ==
    /\ attempt[a].started <= o.at
    /\ Consistent(o) \/ Unplannable(o)

PlanInv ==
    \A a \in Attempts :
        /\ attempt[a] # None => Timely(a)
        /\ result[a] # None => Takeable(a, result[a])
        /\ told[a] # "none" => result[a] # None
        /\ told[a] = "input" => attempt[a].policy < profile \/ Unplannable(result[a])

\* The clock and the policy only go up, and what was said of an attempt stays.
LEMMA PlanStays ==
  ASSUME IInv, PlanInv, IInv', now <= now', profile <= profile', UNCHANGED hostVars
  PROVE  PlanInv'
  <1>1. now \in Nat /\ now' \in Nat /\ profile \in Nat /\ profile' \in Nat
    BY DEF IInv, TypeOK
  <1>2. SUFFICES ASSUME NEW a \in Attempts
                 PROVE  /\ attempt[a] # None => Timely(a)'
                        /\ result[a] # None => Takeable(a, result[a])'
                        /\ told[a] # "none" => result[a] # None
                        /\ told[a] = "input" =>
                              attempt[a].policy < profile' \/ Unplannable(result[a])
    BY DEF PlanInv, hostVars
  <1>3. attempt[a] # None => attempt[a].started \in Nat /\ attempt[a].policy \in Nat
    BY DEF IInv, TypeOK, AttemptRecords
  <1>4. attempt' = attempt /\ (result[a] # None => attempt[a] # None)
    BY DEF IInv, ResultInv, hostVars
  <1>5. told[a] = "input" => attempt[a] # None
    BY <1>4 DEF PlanInv
  <1>6. attempt[a] # None => Timely(a)'
    BY <1>1, <1>3, <1>4 DEF PlanInv, Timely
  <1>7. result[a] # None => Takeable(a, result[a])'
    BY <1>4 DEF PlanInv, Takeable, hostVars
  <1>8. told[a] = "input" => attempt[a].policy < profile' \/ Unplannable(result[a])
    BY <1>1, <1>3, <1>5 DEF PlanInv
  <1> QED
    BY <1>6, <1>7, <1>8 DEF PlanInv

\* A retry is created in the time of its delivery, which began before.
LEMMA CreatedTimely ==
  ASSUME IInv, PlanInv, IInv', NEW a \in Attempts, CreateAttempt(a)
  PROVE  PlanInv'
  <1>1. PICK end \in Deadlines(a), s \in JitterSamples :
           /\ now < end
           /\ attempt' = [attempt EXCEPT ![a] =
                 [sequence |-> a[2], created |-> Created(a), started |-> now,
                  deadline |-> end, policy |-> profile, sample |-> s]]
    BY DEF CreateAttempt
  <1>2. /\ attempt'[a] = [sequence |-> a[2], created |-> Created(a), started |-> now,
                          deadline |-> end, policy |-> profile, sample |-> s]
        /\ \A b \in Attempts \ {a} : attempt'[b] = attempt[b]
    BY <1>1 DEF IInv, TypeOK
  <1>3. UNCHANGED <<result, told, now, profile>> /\ now \in Nat /\ profile \in Nat
    BY DEF CreateAttempt, clockVars, IInv, TypeOK
  <1>4. Created(a) <= now
    <2>1. CASE a[2] = 1
      BY <1>3, <2>1 DEF Created
    <2>2. CASE a[2] # 1
      <3>1. Previous(a) \in Attempts /\ receipt[Previous(a)] # None
        BY <2>2, AttemptFacts DEF CreateAttempt, Due
      <3>2. attempt[Previous(a)] # None
        BY <3>1 DEF IInv, ReceiptInv, Planned
      <3>3. /\ attempt[Previous(a)].created \in Nat /\ attempt[Previous(a)].started \in Nat
            /\ attempt[Previous(a)].created <= attempt[Previous(a)].started
            /\ attempt[Previous(a)].started <= now
        BY <3>1, <3>2 DEF PlanInv, Timely, IInv, TypeOK, AttemptRecords
      <3> QED
        BY <1>3, <2>2, <3>3 DEF Created
    <2> QED
      BY <2>1, <2>2
  <1>5. Timely(a)'
    BY <1>1, <1>2, <1>3, <1>4 DEF Timely
  <1>6. result[a] = None /\ told[a] = "none"
    BY DEF CreateAttempt, IInv, ResultInv, PlanInv
  <1> QED
    BY <1>2, <1>3, <1>5, <1>6 DEF PlanInv, Timely, Takeable

\* A send ends with what the planner takes.
LEMMA EndsTakeable ==
  ASSUME IInv, PlanInv, NEW a \in Attempts, NEW o, attempt[a] # None, EndSend(a, o),
         send[a] # "ended", o.at = now, Consistent(o) \/ Unplannable(o),
         UNCHANGED <<attempt, told, now, profile>>
  PROVE  PlanInv'
  <1>1. result'[a] = o /\ \A b \in Attempts \ {a} : result'[b] = result[b]
    BY DEF EndSend, IInv, TypeOK
  <1>2. told[a] = "none"
    BY DEF PlanInv, IInv, ResultInv
  <1>3. Takeable(a, o)
    BY DEF PlanInv, Timely, Takeable
  <1>4. SUFFICES ASSUME NEW b \in Attempts
                 PROVE  /\ attempt[b] # None => Timely(b)
                        /\ result'[b] # None => Takeable(b, result'[b])
                        /\ told[b] # "none" => result'[b] # None
                        /\ told[b] = "input" =>
                              attempt[b].policy < profile \/ Unplannable(result'[b])
    BY DEF PlanInv, Timely, Takeable
  <1>5. CASE b = a
    BY <1>1, <1>2, <1>3, <1>5 DEF PlanInv
  <1>6. CASE b # a
    BY <1>1, <1>6 DEF PlanInv
  <1> QED
    BY <1>5, <1>6

LEMMA SendTakeable ==
  ASSUME IInv, PlanInv, NEW a \in Attempts, Busy(a) \/ Stop(a) \/ Answered(a)
  PROVE  PlanInv'
  <1> USE DEF Observed
  <1>1. ASSUME Busy(a)
        PROVE  PlanInv'
    <2>1. PICK o : o = Observed("blocked", "busy", 0, None)
      OBVIOUS
    <2>2. o.at = now /\ Consistent(o)
      BY <2>1 DEF Consistent, BlockedCodes, Transient
    <2> QED
      BY <1>1, <2>1, <2>2, EndsTakeable DEF Busy, clockVars
  <1>2. ASSUME Stop(a)
        PROVE  PlanInv'
    <2>1. PICK c \in StopCodes(send[a]) : EndSend(a, Observed(StopOutcome(send[a]), c, 0, None))
      BY <1>2 DEF Stop
    <2>2. PICK o : o = Observed(StopOutcome(send[a]), c, 0, None)
      OBVIOUS
    <2>3. c \in BlockedCodes
      BY DEF StopCodes, BlockedCodes, Transient
    <2>4. send[a] = "posting" => c = "http"
      BY <2>1 DEF StopCodes
    <2>5. o.at = now /\ Consistent(o)
      BY <2>2, <2>3, <2>4 DEF Consistent, StopOutcome
    <2> QED
      BY <1>2, <2>1, <2>2, <2>5, EndsTakeable DEF Stop, clockVars
  <1>3. ASSUME Answered(a)
        PROVE  PlanInv'
    <2>1. answer[a].status \in Nat /\ attempt[a] # None /\ send[a] # "ended"
      BY <1>3 DEF Answered, IInv, TypeOK, WireTypeOK, Answers, SendInv
    <2>2. PICK o : o = Observed(IF answer[a].status \in Success
                                THEN "accepted_by_endpoint" ELSE "not_accepted",
                                "", answer[a].status, answer[a].hint)
      OBVIOUS
    <2>3. o.at = now
      BY <2>2
    <2>4. Consistent(o) \/ Unplannable(o)
      BY <2>1, <2>2 DEF Consistent, Unplannable
    <2>5. EndSend(a, o) /\ UNCHANGED <<attempt, told, now, profile>>
      BY <1>3, <2>2 DEF Answered, clockVars
    <2> QED
      BY <2>1, <2>3, <2>4, <2>5, EndsTakeable
  <1> QED
    BY <1>1, <1>2, <1>3

\* Of what may be told, only "input" says anything of the plan.
LEMMA ToldTakeable ==
  ASSUME IInv, PlanInv, NEW a \in Attempts, NEW reply \in Replies, result[a] # None,
         told' = [told EXCEPT ![a] = reply],
         reply = "input" => attempt[a].policy < profile \/ Unplannable(result[a]),
         UNCHANGED <<attempt, result, now, profile>>
  PROVE  PlanInv'
  <1>1. told'[a] = reply /\ \A b \in Attempts \ {a} : told'[b] = told[b]
    BY DEF IInv, TypeOK
  <1> QED
    BY <1>1 DEF PlanInv, Timely, Takeable

\* Record refuses another policy, or a status outside the planner's range.
LEMMA RecordTakeable ==
  ASSUME IInv, PlanInv, NEW a \in Attempts, Record(a)
  PROVE  PlanInv'
  <1>1. result[a] # None /\ UNCHANGED <<attempt, result, now, profile>>
    BY DEF Record, clockVars
  <1>2. attempt[a] # None /\ attempt[a] \in AttemptRecords /\ profile \in Nat
    BY <1>1 DEF IInv, ResultInv, TypeOK
  <1>3. CASE RecordRefused(a)
    <2>1. Timely(a) /\ Takeable(a, result[a])
      BY <1>1, <1>2 DEF PlanInv
    <2>2. attempt[a].policy # profile \/ ~Consistent(result[a])
      BY <1>3, <2>1 DEF RecordRefused, Plannable, Timely, Takeable
    <2>3. attempt[a].policy < profile \/ Unplannable(result[a])
      BY <1>2, <2>1, <2>2 DEF Timely, Takeable, AttemptRecords
    <2> QED
      BY <1>1, <1>3, <2>3, ToldTakeable DEF RecordRefused, Replies
  <1>4. CASE RecordFound(a)
    <2>1. PICK reply \in {"receipt", "conflict"} : told' = [told EXCEPT ![a] = reply]
      BY <1>4 DEF RecordFound
    <2> QED
      BY <1>1, <2>1, ToldTakeable DEF Replies
  <1>5. CASE RecordPlanned(a)
    BY <1>1, <1>5 DEF RecordPlanned, PlanInv, Timely, Takeable
  <1> QED
    BY <1>3, <1>4, <1>5 DEF Record

LEMMA RecordedTakeable ==
  ASSUME IInv, PlanInv, NEW a \in Attempts, RecordReturn(a) \/ RecordFail(a)
  PROVE  PlanInv'
  <1>1. PICK reply \in {"receipt", "conflict", "unavailable"} : told' = [told EXCEPT ![a] = reply]
    BY DEF RecordReturn, RecordFail
  <1>2. result[a] # None /\ UNCHANGED <<attempt, result, now, profile>>
    BY DEF RecordReturn, RecordFail, IInv, RecorderInv, clockVars
  <1> QED
    BY <1>1, <1>2, ToldTakeable DEF Replies

\* A crash forgets what was observed and what was told.
LEMMA CrashTakeable ==
  ASSUME IInv, PlanInv, Crash
  PROVE  PlanInv'
  <1>1. \A b \in Attempts : result'[b] = None /\ told'[b] = "none"
    BY DEF Crash
  <1>2. UNCHANGED <<attempt, now, profile>>
    BY DEF Crash
  <1> QED
    BY <1>1, <1>2 DEF PlanInv, Timely

LEMMA PlanStep ==
  ASSUME IInv, IInv', PlanInv, [Next]_vars
  PROVE  PlanInv'
  <1>1. now \in Nat /\ profile \in Nat
    BY DEF IInv, TypeOK
  <1>2. ASSUME UNCHANGED <<hostVars, clockVars>>
        PROVE  PlanInv'
    BY <1>1, <1>2, PlanStays DEF clockVars
  <1>3. CASE UNCHANGED vars
    BY <1>2, <1>3 DEF vars, dispatchVars, hostVars, clockVars
  <1>4. CASE Receiver
    BY <1>2, <1>4 DEF Receiver, dispatchVars, hostVars, clockVars
  <1>5. ASSUME NEW a \in Attempts,
               Revoke(a) \/ Admit(a) \/ Resolve(a) \/ Connect(a) \/ HandOver(a) \/ Commit(a)
        PROVE  PlanInv'
    BY <1>2, <1>5 DEF Revoke, Admit, Resolve, Connect, HandOver, Commit
  <1>6. ASSUME NEW c \in late, LateCommit(c)
        PROVE  PlanInv'
    BY <1>2, <1>6 DEF LateCommit
  <1>7. CASE Tick \/ Upgrade
    BY <1>1, <1>7, PlanStays DEF Tick, Upgrade
  <1>8. ASSUME NEW a \in Attempts,
               CreateAttempt(a) \/ Busy(a) \/ Stop(a) \/ Answered(a) \/ Record(a)
               \/ RecordReturn(a) \/ RecordFail(a)
        PROVE  PlanInv'
    BY <1>8, CreatedTimely, SendTakeable, RecordTakeable, RecordedTakeable
  <1> QED
    BY <1>3, <1>4, <1>5, <1>6, <1>7, <1>8, CrashTakeable DEF Next, Sender, DispatchNext

LEMMA PlanInvariance == Spec => []PlanInv
  <1>1. Init => PlanInv
    BY DEF Init, DispatchInit, PlanInv
  <1>2. IInv /\ IInv' /\ PlanInv /\ [Next]_vars => PlanInv'
    BY PlanStep
  <1> QED
    BY <1>1, <1>2, Invariance, PTL DEF Spec

\* For every profile, jitter and hint: a retry is due after all of them, and
\* before the deadline and the age of its delivery (planner.go), and it starts
\* in that time.
THEOREM RetriesSpaced == Spec => []RetriesAreSpaced
  <1>1. ASSUME IInv, PlanInv
        PROVE  RetriesAreSpaced
    <2>1. SUFFICES ASSUME NEW p \in Attempts, receipt[p] # None,
                          receipt[p].decision.state = "RETRY_WAIT"
                   PROVE  LET o == receipt[p].observation
                              next == receipt[p].decision.next
                              retry == Following(p)
                          IN  /\ o.at + RetryDelays[p[2]] <= next
                              /\ o.outcome = "not_accepted" /\ o.hint # None => o.hint <= next
                              /\ next < attempt[p].deadline
                              /\ next < attempt[p].created + MaxAge
                              /\ retry \in Attempts
                              /\ attempt[retry] # None =>
                                    /\ next <= attempt[retry].started
                                    /\ attempt[retry].started < attempt[p].deadline
      BY DEF RetriesAreSpaced
    <2>2. PICK o \in Observations : o = receipt[p].observation
      BY <1>1, <2>1 DEF IInv, TypeOK, Receipts
    <2>3. PICK w \in AttemptRecords : w = attempt[p]
      BY <1>1, <2>1 DEF IInv, TypeOK, ReceiptInv, Planned
    <2>4. receipt[p].decision = Decision(w, o) /\ attempt[p] # None
      BY <1>1, <2>1, <2>2, <2>3 DEF IInv, ReceiptInv, Planned
    <2>5. PICK d \in Deliveries, n \in 1..MaxAttempts : p = <<d, n>>
      BY AttemptFacts
    <2>6. w.sequence = n
      BY <1>1, <2>3, <2>4, <2>5 DEF IInv, ChainInv
    <2>7. /\ InBudget(w, o) /\ w.sequence < MaxAttempts
          /\ receipt[p].decision.next = NextAttempt(w, o)
      BY <2>1, <2>4, DecisionFacts, StateFacts DEF InBudget
    <2>8. /\ NextAttempt(w, o) \in Nat
          /\ NextAttempt(w, o) >= o.at + RetryDelays[w.sequence]
          /\ o.outcome = "not_accepted" /\ o.hint # None => NextAttempt(w, o) >= o.hint
      BY <2>7, NextAttemptBound
    <2>9. RetryDelays[w.sequence] \in Nat /\ o.at \in Nat /\ (o.hint # None => o.hint \in Nat)
      BY <2>7, WaitBound DEF Observations, Times
    <2>10. w.created \in Nat /\ w.deadline \in Nat /\ MaxAge \in Nat
      BY ProfileAssumption DEF AttemptRecords
    <2>11. NextAttempt(w, o) < w.deadline /\ NextAttempt(w, o) < w.created + MaxAge
      BY <2>7, <2>8, <2>10 DEF InBudget, Cutoff
    <2>12. PICK m \in 1..MaxAttempts : m = n + 1
      BY <2>6, <2>7, AttemptFacts
    <2>13. Following(p) = <<d, m>> /\ <<d, m>> \in Attempts /\ m > 1 /\ m - 1 = n
      BY <2>5, <2>12, AttemptFacts DEF Following
    <2>14. ASSUME attempt[<<d, m>>] # None
           PROVE  /\ NextAttempt(w, o) <= attempt[<<d, m>>].started
                  /\ attempt[<<d, m>>].started < w.deadline
      <3>1. /\ attempt[<<d, m>>].deadline = attempt[<<d, m - 1>>].deadline
            /\ receipt[<<d, m - 1>>].decision.next <= attempt[<<d, m>>].started
        BY <1>1, <2>13, <2>14 DEF IInv, ChainInv
      <3>2. attempt[<<d, m>>].started < attempt[<<d, m>>].deadline
        BY <1>1, <2>13, <2>14 DEF PlanInv, Timely
      <3> QED
        BY <2>3, <2>5, <2>7, <2>13, <3>1, <3>2
    <2>15. /\ o.at + RetryDelays[p[2]] <= NextAttempt(w, o)
           /\ o.outcome = "not_accepted" /\ o.hint # None => o.hint <= NextAttempt(w, o)
      BY <2>5, <2>6, <2>8, <2>9
    <2> QED
      BY <2>2, <2>3, <2>7, <2>11, <2>13, <2>14, <2>15
  <1> QED
    BY <1>1, Invariance, PlanInvariance, PTL

\* Whatever ends a send, however late and in whichever stage, can be recorded
\* under the attempt's own policy (client.go, planner.go); the one exception
\* is a status on which the two disagree.
THEOREM Plannability == Spec => []OutcomesArePlannable
  <1>1. ASSUME IInv, PlanInv
        PROVE  OutcomesArePlannable
    <2>1. ASSUME NEW a \in Attempts, told[a] = "input"
          PROVE  attempt[a].policy # profile \/ Unplannable(result[a])
      <3>1. attempt[a] \in AttemptRecords /\ profile \in Nat
        BY <1>1, <2>1 DEF IInv, TypeOK, PlanInv, ResultInv
      <3> QED
        BY <1>1, <2>1, <3>1 DEF PlanInv, AttemptRecords
    <2> QED
      BY <2>1 DEF OutcomesArePlannable
  <1> QED
    BY <1>1, Invariance, PlanInvariance, PTL

-----------------------------------------------------------------------------
(* The outcome of a delivery                                               *)

\* A delivery has at most one receipt that is not a retry: the chain ends there.
LEMMA OutcomeValue ==
  IInv =>
    \A d \in Deliveries :
      /\ \A n \in Ledger(d) : StateOf(d, n) # "RETRY_WAIT" => OutcomeOf(d) = StateOf(d, n)
      /\ (\A n \in Ledger(d) : StateOf(d, n) = "RETRY_WAIT") => OutcomeOf(d) = "RETRY_WAIT"
  <1> SUFFICES ASSUME IInv, NEW d \in Deliveries
               PROVE  /\ \A n \in Ledger(d) : StateOf(d, n) # "RETRY_WAIT" =>
                            OutcomeOf(d) = StateOf(d, n)
                      /\ (\A n \in Ledger(d) : StateOf(d, n) = "RETRY_WAIT") =>
                            OutcomeOf(d) = "RETRY_WAIT"
    OBVIOUS
  <1>1. ASSUME NEW n \in Ledger(d), NEW m \in Ledger(d), m < n
        PROVE  StateOf(d, m) = "RETRY_WAIT"
    <2>1. m \in 1..MaxAttempts /\ n \in 1..MaxAttempts /\ <<d, n>> \in Attempts
      BY AttemptFacts DEF Ledger
    <2>2. attempt[<<d, n>>] # None
      BY <2>1 DEF Ledger, IInv, ReceiptInv, Planned
    <2>3. m \in 1..(n - 1)
      BY <1>1, <2>1, AttemptFacts
    <2> QED
      BY <2>1, <2>2, <2>3 DEF IInv, ChainInv, StateOf
  <1>2. \A n, m \in Ledger(d) : m < n \/ n < m \/ n = m
    BY AttemptFacts DEF Ledger
  <1>3. \A n, m \in Ledger(d) :
           StateOf(d, n) # "RETRY_WAIT" /\ StateOf(d, m) # "RETRY_WAIT" => n = m
    BY <1>1, <1>2
  <1>4. ASSUME NEW n \in Ledger(d), StateOf(d, n) # "RETRY_WAIT"
        PROVE  OutcomeOf(d) = StateOf(d, n)
    <2> DEFINE k == CHOOSE m \in Ledger(d) : StateOf(d, m) # "RETRY_WAIT"
    <2>1. k \in Ledger(d) /\ StateOf(d, k) # "RETRY_WAIT"
      BY <1>4
    <2>2. k = n
      BY <1>3, <1>4, <2>1
    <2> QED
      BY <1>4, <2>2 DEF OutcomeOf
  <1>5. ASSUME \A n \in Ledger(d) : StateOf(d, n) = "RETRY_WAIT"
        PROVE  OutcomeOf(d) = "RETRY_WAIT"
    BY <1>5 DEF OutcomeOf
  <1> QED
    BY <1>4, <1>5

LEMMA OutcomeValueNext ==
  IInv' =>
    \A d \in Deliveries :
      /\ \A n \in Ledger(d)' : StateOf(d, n)' # "RETRY_WAIT" => OutcomeOf(d)' = StateOf(d, n)'
      /\ (\A n \in Ledger(d)' : StateOf(d, n)' = "RETRY_WAIT") => OutcomeOf(d)' = "RETRY_WAIT"
  <1>1. (IInv =>
          \A d \in Deliveries :
            /\ \A n \in Ledger(d) : StateOf(d, n) # "RETRY_WAIT" => OutcomeOf(d) = StateOf(d, n)
            /\ (\A n \in Ledger(d) : StateOf(d, n) = "RETRY_WAIT") =>
                  OutcomeOf(d) = "RETRY_WAIT")'
    BY OutcomeValue, PTL
  <1> QED
    BY <1>1

Standing == [d \in Deliveries |-> OutcomeOf(d)]

LEMMA SameOutcomes ==
  ASSUME UNCHANGED receipt
  PROVE  UNCHANGED Standing
  BY DEF Standing, OutcomeOf, StateOf, Ledger

\* A receipt that is stored settles its delivery, or leaves it open.
LEMMA ReceiptSettles ==
  ASSUME IInv, IInv', NEW a \in Attempts, NEW r \in Receipts,
         receipt[a] = None, r # None, Planned(a, r),
         receipt' = [receipt EXCEPT ![a] = r], UNCHANGED <<attempt, inbox>>
  PROVE  Outcome!Next \/ UNCHANGED <<inbox, Standing>>
  <1>1. PICK d \in Deliveries, n \in 1..MaxAttempts : a = <<d, n>> /\ d = a[1]
    BY AttemptFacts
  <1>2. \A b \in Attempts \ {a} : receipt'[b] = receipt[b]
    BY DEF IInv, TypeOK
  <1>3. receipt'[a] = r
    BY DEF IInv, TypeOK
  <1>4. \A e \in Deliveries \ {d} : OutcomeOf(e)' = OutcomeOf(e)
    <2>1. TAKE e \in Deliveries \ {d}
    <2>2. \A m \in 1..MaxAttempts : receipt'[<<e, m>>] = receipt[<<e, m>>]
      BY <1>1, <1>2, AttemptFacts
    <2>3. Ledger(e)' = Ledger(e) /\ \A m \in Ledger(e) : StateOf(e, m)' = StateOf(e, m)
      BY <2>2 DEF Ledger, StateOf
    <2>4. CASE \A m \in Ledger(e) : StateOf(e, m) = "RETRY_WAIT"
      BY <2>3, <2>4, OutcomeValue, OutcomeValueNext
    <2>5. CASE \E m \in Ledger(e) : StateOf(e, m) # "RETRY_WAIT"
      BY <2>3, <2>5, OutcomeValue, OutcomeValueNext
    <2> QED
      BY <2>4, <2>5
  <1>5. n \notin Ledger(d) /\ Ledger(d)' = Ledger(d) \cup {n}
    <2>1. \A m \in 1..MaxAttempts : m # n => receipt'[<<d, m>>] = receipt[<<d, m>>]
      BY <1>1, <1>2, AttemptFacts
    <2> QED
      BY <1>1, <1>3, <2>1 DEF Ledger
  <1>6. /\ StateOf(d, n)' = r.decision.state
        /\ \A m \in Ledger(d) : StateOf(d, m)' = StateOf(d, m)
    BY <1>1, <1>2, <1>3, <1>5, AttemptFacts DEF StateOf, Ledger
  <1>7. \A m \in Ledger(d) : StateOf(d, m) = "RETRY_WAIT"
    <2>1. TAKE m \in Ledger(d)
    <2>2. m \in 1..MaxAttempts /\ receipt[<<d, m>>] # None /\ m # n
      BY <1>5 DEF Ledger
    <2>3. attempt[<<d, m>>] # None /\ attempt[<<d, n>>] # None
      BY <1>1, <2>2, AttemptFacts DEF IInv, ReceiptInv, Planned
    <2>4. ~(n \in 1..(m - 1))
      BY <1>1, <2>2, <2>3 DEF IInv, ChainInv
    <2>5. m \in 1..(n - 1)
      BY <2>2, <2>4, AttemptFacts
    <2>6. \A k \in 1..(n - 1) : receipt[<<d, k>>].decision.state = "RETRY_WAIT"
      <3>1. ChainInv
        BY DEF IInv
      <3> QED
        BY <1>1, <2>3, <3>1 DEF ChainInv
    <2> QED
      BY <2>5, <2>6 DEF StateOf
  <1>8. OutcomeOf(d) = "RETRY_WAIT"
    BY <1>7, OutcomeValue
  <1>9. OutcomeOf(d)' = r.decision.state
    <2>1. CASE r.decision.state = "RETRY_WAIT"
      BY <1>5, <1>6, <1>7, <2>1, OutcomeValueNext
    <2>2. CASE r.decision.state # "RETRY_WAIT"
      BY <1>5, <1>6, <2>2, OutcomeValueNext
    <2> QED
      BY <2>1, <2>2
  <1>10. Standing' = [Standing EXCEPT ![d] = r.decision.state]
    BY <1>4, <1>9 DEF Standing
  <1>11. CASE r.decision.state = "RETRY_WAIT"
    <2>1. Standing' = Standing
      BY <1>8, <1>10, <1>11 DEF Standing
    <2> QED
      BY <2>1
  <1>12. CASE r.decision.state # "RETRY_WAIT"
    <2>1. r.decision.state \in States \ {"RETRY_WAIT"}
      BY <1>12 DEF Receipts, Decisions
    <2>2. r.decision.state = "ACCEPTED_BY_ENDPOINT" => d \in inbox
      <3>1. attempt[a] \in AttemptRecords /\ r.observation \in Observations
        BY DEF IInv, TypeOK, Planned, Receipts
      <3>2. r.decision = Decision(attempt[a], r.observation) /\ Truthful(a, r.observation)
        BY DEF Planned
      <3>3. r.decision.state = State(attempt[a], r.observation)
        BY <3>1, <3>2, DecisionFacts
      <3> QED
        BY <1>1, <3>1, <3>2, <3>3, StateFacts DEF Truthful, DeliveryOf
    <2>3. Standing[d] = "RETRY_WAIT"
      BY <1>8 DEF Standing
    <2>4. Outcome!Settle(d)
      BY <1>10, <2>1, <2>2, <2>3 DEF Outcome!Settle, Standing
    <2> QED
      BY <2>4 DEF Outcome!Next
  <1> QED
    BY <1>11, <1>12

LEMMA NextMaps ==
  ASSUME IInv, IInv', [Next]_vars
  PROVE  Outcome!Next \/ UNCHANGED <<inbox, Standing>>
  <1>1. ASSUME NEW a \in Attempts, Commit(a), UNCHANGED receiverVars
        PROVE  Outcome!Next \/ UNCHANGED <<inbox, Standing>>
    <2>1. result[a] # None
      BY <1>1 DEF Commit, IInv, RecorderInv
    <2>2. CASE receipt[a] = None
      <3>1. PICK r \in Receipts : r = Desired(a)
        BY <2>1, DesiredFacts
      <3>2. r # None /\ Planned(a, r)
        BY <2>1, <3>1, DesiredFacts
      <3>3. receipt' = [receipt EXCEPT ![a] = r] /\ UNCHANGED <<attempt, inbox>>
        BY <1>1, <2>2, <3>1 DEF Commit, hostVars, receiverVars
      <3> QED
        BY <2>2, <3>2, <3>3, ReceiptSettles
    <2>3. CASE receipt[a] # None
      BY <1>1, <2>3, SameOutcomes DEF Commit, receiverVars
    <2> QED
      BY <2>2, <2>3
  <1>2. ASSUME NEW c \in late, LateCommit(c), UNCHANGED receiverVars
        PROVE  Outcome!Next \/ UNCHANGED <<inbox, Standing>>
    <2>1. PICK a \in Attempts, r \in Receipts : a = c.id /\ r = c.receipt
      BY DEF IInv, TypeOK
    <2>2. r # None /\ Planned(a, r)
      BY <2>1, NoRecordAssumption DEF IInv, ReceiptInv
    <2>3. CASE receipt[a] = None
      <3>1. receipt' = [receipt EXCEPT ![a] = r] /\ UNCHANGED <<attempt, inbox>>
        BY <1>2, <2>1, <2>3 DEF LateCommit, hostVars, receiverVars
      <3> QED
        BY <2>2, <2>3, <3>1, ReceiptSettles
    <2>4. CASE receipt[a] # None
      BY <1>2, <2>1, <2>4, SameOutcomes DEF LateCommit, receiverVars
    <2> QED
      BY <2>3, <2>4
  <1>3. ASSUME NEW a \in Attempts, UNCHANGED receiverVars,
               \/ CreateAttempt(a) \/ Revoke(a)
               \/ Admit(a) \/ Busy(a) \/ Resolve(a) \/ Connect(a) \/ HandOver(a)
               \/ Stop(a) \/ Answered(a) \/ Record(a) \/ RecordReturn(a) \/ RecordFail(a)
        PROVE  UNCHANGED <<inbox, Standing>>
    <2>1. UNCHANGED <<receipt, inbox>>
      BY <1>3 DEF CreateAttempt, Revoke, Admit, Busy, Resolve, Connect, HandOver, Stop, Answered,
                  Record, RecordReturn, RecordFail, ledgerVars, receiverVars
    <2> QED
      BY <2>1, SameOutcomes
  <1>4. ASSUME Tick \/ Upgrade \/ Crash, UNCHANGED receiverVars
        PROVE  UNCHANGED <<inbox, Standing>>
    BY <1>4, SameOutcomes DEF Tick, Upgrade, Crash, ledgerVars, receiverVars
  <1>5. ASSUME NEW a \in Attempts, UNCHANGED dispatchVars,
               \/ Enter(a) \/ TurnAway(a) \/ Intercept(a) \/ Refuse(a) \/ Accept(a)
               \/ Acknowledge(a) \/ StoreFails(a) \/ Answer(a) \/ Release(a)
        PROVE  UNCHANGED <<inbox, Standing>>
    <2>1. UNCHANGED <<receipt, inbox>>
      BY <1>5 DEF Enter, TurnAway, Intercept, Refuse, Accept, Acknowledge, StoreFails, Answer,
                  Release, dispatchVars, receiverVars, inboxVars
    <2> QED
      BY <2>1, SameOutcomes
  <1>6. ASSUME Drain, UNCHANGED dispatchVars
        PROVE  UNCHANGED <<inbox, Standing>>
    BY <1>6, SameOutcomes DEF Drain, dispatchVars, inboxVars
  <1>7. ASSUME NEW d \in Deliveries, inbox' = inbox \cup {d}, UNCHANGED dispatchVars
        PROVE  Outcome!Next
    <2>1. UNCHANGED Standing
      BY <1>7, SameOutcomes DEF dispatchVars
    <2>2. Outcome!Store(d)
      BY <1>7, <2>1 DEF Outcome!Store, Standing
    <2> QED
      BY <2>2 DEF Outcome!Next
  <1>8. ASSUME NEW a \in Attempts, Store(a), UNCHANGED dispatchVars
        PROVE  Outcome!Next
    BY <1>7, <1>8, AttemptFacts DEF Store, DeliveryOf
  <1>9. ASSUME NEW d \in lateAccepts, LateAccept(d), UNCHANGED dispatchVars
        PROVE  Outcome!Next
    BY <1>7, <1>9 DEF LateAccept, IInv, TypeOK
  <1>10. CASE UNCHANGED vars
    BY <1>10, SameOutcomes DEF vars, dispatchVars, receiverVars
  <1>11. CASE Sender
    BY <1>1, <1>2, <1>3, <1>4, <1>11 DEF Sender, DispatchNext
  <1>12. CASE Receiver
    BY <1>5, <1>6, <1>8, <1>9, <1>12 DEF Receiver, ReceiverNext
  <1> QED
    BY <1>10, <1>11, <1>12 DEF Next

LEMMA InitMaps == Init => Outcome!Init
  <1> SUFFICES ASSUME Init PROVE Outcome!Init
    OBVIOUS
  <1>1. \A d \in Deliveries : Ledger(d) = {}
    BY AttemptFacts DEF Init, DispatchInit, Ledger
  <1>2. \A d \in Deliveries : OutcomeOf(d) = "RETRY_WAIT"
    BY <1>1 DEF OutcomeOf
  <1> QED
    BY <1>2 DEF Init, ReceiverInit, Outcome!Init

\* Dispatcher and receiver, over a network that loses and delays, implement the
\* outcome of deliveries: at most one, final, and accepted only if stored.
THEOREM Refinement == Spec => ImplementsOutcome
  <1>1. IInv /\ IInv' /\ [Next]_vars => [Outcome!Next]_<<inbox, Standing>>
    BY NextMaps
  <1>2. Outcome!Spec <=> Outcome!Init /\ [][Outcome!Next]_<<inbox, Standing>>
    BY DEF Outcome!Spec, Standing
  <1> QED
    BY <1>1, <1>2, InitMaps, Invariance, PTL DEF Spec, ImplementsOutcome
=============================================================================
