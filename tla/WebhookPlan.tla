----------------------------- MODULE WebhookPlan -----------------------------
(***************************************************************************)
(* The planner of webhook deliveries                                       *)
(* (services/webhook-dispatcher/lifecycle/planner.go): what one observed   *)
(* attempt makes of its delivery. Nothing here reads a clock or a store:   *)
(* the decision is a function of the attempt, the observation and the      *)
(* profile, which is what lets a repeated recording reach it again.        *)
(*                                                                         *)
(* An attempt is [sequence, created, started, deadline, policy, sample];   *)
(* an observation is [outcome, code, status, hint, at]. A hint is the time *)
(* Retry-After asks for, whichever of its two forms it had. The failure    *)
(* codes that are told apart here stand for those that are not: "denied"   *)
(* for every refusal and cancellation before the hand-over, "http" for     *)
(* every failure in HTTP, "" for an answer, whether its body could be read *)
(* or not: the planner treats them alike.                                  *)
(***************************************************************************)
EXTENDS Integers, Sequences

CONSTANTS MaxAttempts, MaxAge, RetryDelays, MaxJitterPermille,
          RetryStatusCodes, BeforeSendCodes,   \* the profile of the host
          None

Transient == {"busy", "dns", "connect"}
BlockedCodes == Transient \cup {"denied", "http"}
Codes == BlockedCodes \cup {""}

\* What New asks of a profile: a delay for every retry, and only codes that
\* may be retried at all.
ASSUME ProfileAssumption ==
    /\ MaxAttempts \in 1..64
    /\ MaxAge \in Nat \ {0}
    /\ RetryDelays \in [1..(MaxAttempts - 1) -> Nat \ {0}]
    /\ MaxJitterPermille \in 0..1000
    /\ RetryStatusCodes \subseteq {408, 425, 429} \cup (500..599)
    /\ BeforeSendCodes \subseteq Transient

ASSUME NoneAssumption == None \notin Int

Success == 200..299

\* The denominator of jitter samples.
SampleParts == 1000000
Samples == 0..SampleParts

Outcomes == {"accepted_by_endpoint", "not_accepted", "unknown", "blocked"}

Times == Nat \cup {None}

AttemptRecords ==
    [sequence : 1..MaxAttempts, created : Nat, started : Nat, deadline : Nat,
     policy : Nat, sample : Samples]

Observations ==
    [outcome : Outcomes, code : Codes, status : Nat,
     hint : Times, at : Nat]

\* The combinations of outcome, code and status the transport can report.
Consistent(o) ==
    \/ /\ o.outcome = "accepted_by_endpoint"
       /\ o.code = ""
       /\ o.status \in Success
    \/ /\ o.outcome = "not_accepted"
       /\ o.code = ""
       /\ o.status \in 300..599
    \/ o.outcome = "unknown" /\ o.code = "http" /\ o.status = 0
    \/ o.outcome = "blocked" /\ o.code \in BlockedCodes /\ o.status = 0

\* Mutant: an observation that comes after the deadline is no longer taken.
PlannableInTime(a, o, version) ==
    /\ a.policy = version
    /\ o.at < a.deadline
    /\ Consistent(o)

\* Plan's first checks: the attempt is one of this profile, and its times and
\* the observation's are in order.
Plannable(a, o, version) ==
    /\ a.policy = version
    /\ a.created <= a.started /\ a.started < a.deadline
    /\ a.started <= o.at
    /\ Consistent(o)

\* Mutant: only the age of the delivery ends its retries.
CutoffByAge(a) == a.created + MaxAge

\* The end of a delivery's retries: its deadline or its age, whichever is first.
Cutoff(a) ==
    IF a.deadline < a.created + MaxAge THEN a.deadline ELSE a.created + MaxAge

\* The minimum wait, with the share of jitter persisted with the attempt; a
\* hint of the endpoint can only make it longer.
Wait(a) ==
    LET delay == RetryDelays[a.sequence]
        span == (delay * MaxJitterPermille) \div 1000
    IN  delay + (span * a.sample) \div SampleParts

NextAttempt(a, o) ==
    LET due == o.at + Wait(a)
    IN  IF o.outcome = "not_accepted" /\ o.hint # None /\ o.hint > due
        THEN o.hint ELSE due

Retryable(o) ==
    \/ o.outcome = "blocked" /\ o.code \in BeforeSendCodes
    \/ o.outcome = "not_accepted" /\ o.status \in RetryStatusCodes

\* The budget of a delivery: attempts left, and a due time before its cutoff.
InBudget(a, o) ==
    /\ a.sequence < MaxAttempts
    /\ o.at < Cutoff(a)
    /\ NextAttempt(a, o) < Cutoff(a)

States == {"ACCEPTED_BY_ENDPOINT", "RETRY_WAIT", "FAILED_DELIVERY", "PAUSED",
           "UNKNOWN", "BLOCKED"}

\* Mutant: an unknown outcome is retried like any other failure.
StateRetriesUnknown(a, o) ==
    CASE o.outcome = "accepted_by_endpoint" -> "ACCEPTED_BY_ENDPOINT"
      [] Retryable(o) \/ o.outcome = "unknown" ->
            IF InBudget(a, o) THEN "RETRY_WAIT" ELSE "FAILED_DELIVERY"
      [] OTHER -> IF o.outcome = "blocked" THEN "BLOCKED" ELSE "FAILED_DELIVERY"

\* Acceptance and uncertainty come before every limit.
State(a, o) ==
    CASE o.outcome = "accepted_by_endpoint" -> "ACCEPTED_BY_ENDPOINT"
      [] o.outcome = "unknown" -> "UNKNOWN"
      [] Retryable(o) -> IF InBudget(a, o) THEN "RETRY_WAIT" ELSE "FAILED_DELIVERY"
      [] o.outcome = "blocked" /\ ~Retryable(o) -> "BLOCKED"
      [] o.outcome = "not_accepted" /\ ~Retryable(o) ->
            IF o.status < 400 \/ o.status \in {401, 403}
            THEN "PAUSED" ELSE "FAILED_DELIVERY"

Decision(a, o) ==
    [state |-> State(a, o),
     next  |-> IF State(a, o) = "RETRY_WAIT" THEN NextAttempt(a, o) ELSE None]

Decisions == [state : States, next : Times]
=============================================================================
