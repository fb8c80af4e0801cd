SPECIFICATION MCSpec
CONSTANTS
  None = None
  Deliveries = {d1}
  MaxAttempts = 2
  MaxAge = 3
  RetryDelays <- MCDelays
  MaxJitterPermille = 1000
  RetryStatusCodes = {429, 503}
  BeforeSendCodes = {"busy", "dns"}
  Lifetimes = {2, 4}
  JitterSamples = {0}
  MaxTime = 3
  MaxCrashes = 1
  MaxUpgrades = 1
  MaxConcurrent = 2
  MaxFaults = 1
  Refusals = {401}
  GatewayAnswers <- MCGateway
INVARIANTS NoBlindResend PermitIsFresh RetriesAreSpaced RecordedIsDurable DrainIsFinal OutcomesArePlannable
PROPERTIES ImplementsOutcome
CHECK_DEADLOCK FALSE
