SPECIFICATION StorySpec
CONSTANTS
  a1 = a1
  a2 = a2
  k1 = k1
  x = x
  y = y
  None = None
  Corrupt = Corrupt
  Assets = {a1, a2}
  Places = {x, y}
  Keys = {k1}
  Documents <- Offered
  Directories = {d1, d2}
  KeyFrom <- Always
  KeyUntil <- Ends
  MaxSafe = 4
  MaxLifetime = 2
  MaxTime = 2
  MaxFaults = 1
  MaxRestores = 0
INVARIANTS AnswersAgree
PROPERTIES ActivationIsCurrent InstallIsDecisive ImplementsChain RetryRecovers
