--------------------------- MODULE WebhookReceiver ---------------------------
(***************************************************************************)
(* The receiving side of webhooks: the handler a customer mounts           *)
(* (services/webhook-dispatcher/receiverhttp/handler.go) over an inbox of  *)
(* theirs. The inbox stores a delivery in one transaction, whose answer    *)
(* may be lost. The checks of a request (method, headers, keys, body,      *)
(* signature, gate) read state that is not modelled: any may refuse.       *)
(***************************************************************************)
EXTENDS WebhookWire

CONSTANTS MaxConcurrent,        \* Config.MaxConcurrent
          Refusals,             \* the statuses of a refused request
          GatewayAnswers        \* what something before the handler may answer

ASSUME ReceiverAssumption ==
    /\ MaxConcurrent \in Nat \ {0}
    /\ Refusals \subseteq {400, 401, 403, 405, 413, 415, 422, 431, 503}
    /\ GatewayAnswers \subseteq Answers
    /\ \A r \in GatewayAnswers : r.status \notin Success

VARIABLES serving,      \* the stage of the handler for each attempt
          offered,      \* report.HTTPStatus
          active, draining,
          closings,     \* how often the channel Drain waits on was closed
          inbox,        \* the deliveries stored
          lateAccepts   \* transactions the handler gave up on

handlerVars == <<serving, offered>>
drainVars == <<active, draining, closings>>
inboxVars == <<inbox, lateAccepts>>
receiverVars == <<serving, offered, active, draining, closings, inbox, lateAccepts>>

\* "stored" has the inbox's commit but not yet its answer; "releasing" has
\* written its answer.
Admitted == {"admitted", "accepting", "stored", "answering", "releasing"}
Stages == {"none", "done"} \cup Admitted

ReceiverInit ==
    /\ serving = [a \in Attempts |-> "none"]
    /\ offered = [a \in Attempts |-> 503]
    /\ active = 0 /\ draining = FALSE /\ closings = 0
    /\ inbox = {} /\ lateAccepts = {}

Reply(a, status) ==
    answer' = [answer EXCEPT ![a] = [status |-> status, hint |-> None]]

Move(a, stage) == serving' = [serving EXCEPT ![a] = stage]

Full == draining \/ active >= MaxConcurrent

Enter(a) ==
    /\ a \in wire
    /\ ~Full
    /\ wire' = wire \ {a}
    /\ Move(a, "admitted")
    /\ active' = active + 1
    /\ UNCHANGED <<offered, draining, closings, inboxVars, answer>>

TurnAway(a) ==
    /\ a \in wire
    /\ Full
    /\ wire' = wire \ {a}
    /\ Move(a, "done")
    /\ Reply(a, 503)
    /\ UNCHANGED <<offered, drainVars, inboxVars>>

\* A proxy answers in the handler's place.
Intercept(a) ==
    /\ a \in wire
    /\ wire' = wire \ {a}
    /\ \E r \in GatewayAnswers : answer' = [answer EXCEPT ![a] = r]
    /\ UNCHANGED receiverVars

Refuse(a) ==
    /\ serving[a] = "admitted"
    /\ Move(a, "answering")
    /\ \E s \in Refusals : offered' = [offered EXCEPT ![a] = s]
    /\ UNCHANGED <<drainVars, inboxVars, wire, answer>>

\* Verified and let through the gate: Inbox.Accept is called.
Accept(a) ==
    /\ serving[a] = "admitted"
    /\ Move(a, "accepting")
    /\ UNCHANGED <<offered, drainVars, inboxVars, wire, answer>>

\* The inbox stores a delivery or finds it there: "accepted" or "duplicate".
Store(a) ==
    /\ serving[a] = "accepting"
    /\ inbox' = inbox \cup {DeliveryOf(a)}
    /\ Move(a, "stored")
    /\ UNCHANGED <<offered, lateAccepts, drainVars, wire, answer>>

\* Mutant: the handler answers 204 before the inbox has answered.
AcknowledgeEarly(a) ==
    /\ serving[a] \in {"accepting", "stored"}
    /\ offered' = [offered EXCEPT ![a] = 204]
    /\ Move(a, "answering")
    /\ UNCHANGED <<drainVars, inboxVars, wire, answer>>

Acknowledge(a) ==
    /\ serving[a] = "stored"
    /\ offered' = [offered EXCEPT ![a] = 204]
    /\ Move(a, "answering")
    /\ UNCHANGED <<drainVars, inboxVars, wire, answer>>

\* The store failed, or did not answer in time and may commit yet; a panic is
\* treated alike.
StoreFails(a) ==
    /\ serving[a] \in {"accepting", "stored"}
    /\ offered' = [offered EXCEPT ![a] = 503]
    /\ Move(a, "answering")
    /\ lateAccepts' = lateAccepts \cup
          (IF serving[a] = "accepting" THEN {DeliveryOf(a)} ELSE {})
    /\ UNCHANGED <<inbox, drainVars, wire, answer>>

LateAccept(d) ==
    /\ lateAccepts' = lateAccepts \ {d}
    /\ inbox' = inbox \cup {d}
    /\ UNCHANGED <<handlerVars, drainVars, wire, answer>>

Answer(a) ==
    /\ serving[a] = "answering"
    /\ Reply(a, offered[a])
    /\ Move(a, "releasing")
    /\ UNCHANGED <<offered, drainVars, inboxVars, wire>>

\* Mutant: a release during a drain does not look at the others.
ReleaseCloses(a) ==
    /\ serving[a] = "releasing"
    /\ Move(a, "done")
    /\ active' = active - 1
    /\ closings' = IF draining THEN closings + 1 ELSE closings
    /\ UNCHANGED <<offered, draining, inboxVars, wire, answer>>

\* release(), deferred past the answer.
Release(a) ==
    /\ serving[a] = "releasing"
    /\ Move(a, "done")
    /\ active' = active - 1
    /\ closings' = IF draining /\ active' = 0 THEN closings + 1 ELSE closings
    /\ UNCHANGED <<offered, draining, inboxVars, wire, answer>>

Drain ==
    /\ ~draining
    /\ draining' = TRUE
    /\ closings' = IF active = 0 THEN closings + 1 ELSE closings
    /\ UNCHANGED <<active, handlerVars, inboxVars, wire, answer>>

ReceiverNext ==
    \/ \E a \in Attempts :
          \/ Enter(a) \/ TurnAway(a) \/ Intercept(a) \/ Refuse(a) \/ Accept(a)
          \/ Store(a) \/ Acknowledge(a) \/ StoreFails(a) \/ Answer(a) \/ Release(a)
    \/ \E d \in lateAccepts : LateAccept(d)
    \/ Drain
=============================================================================
