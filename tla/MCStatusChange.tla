--------------------------- MODULE MCStatusChange ---------------------------
(* Small instances of StatusChange.                                        *)
EXTENDS StatusChange, TLC

CONSTANTS b1, b2, actor, k1, k2, k3, k4, proof

PackageIds == {"A", "B"}

Ask(k, b, id, status, expected, evidence) ==
  [actor |-> actor, key |-> k, baseline |-> b, id |-> id, status |-> status,
   expected |-> expected, evidence |-> evidence]

\* Two stories share one run. In "chain" the second of two packages may start
\* once the first is Done, and the scope may move. In "twin" keys are shared by
\* different intents and by two baselines, packages are missing, transitions
\* are illegal, and two COMMITs may be orphaned.
StoryPackages == {<<b1, "A">>, <<b1, "B">>, <<b2, "A">>}
StoryPreds == [p \in StoryPackages |-> IF p = <<b1, "B">> THEN {<<b1, "A">>} ELSE {}]
ChainRequests ==
  {Ask(k1, b1, "A", "In progress", 1, None),
   Ask(k2, b1, "A", "Review", 2, None),
   Ask(k3, b1, "A", "Done", 3, proof),
   Ask(k4, b1, "A", "Blocked", 1, None),
   Ask(k4, b1, "B", "In progress", 1, None)}
TwinRequests ==
  {Ask(k1, b1, "A", "In progress", 1, None),
   Ask(k1, b2, "A", "In progress", 1, None),
   Ask(k1, b1, "A", "Blocked", 1, None),
   Ask(k2, b1, "A", "Blocked", 1, None),
   Ask(k2, b1, "A", "In progress", 2, None),
   Ask(k3, b1, "A", "Done", 2, None),
   Ask(k3, b2, "B", "In progress", 1, None)}
StoryRequests == ChainRequests \cup TwinRequests
StorySymmetry == Permutations(Clients) \cup Permutations(EventIds)

VARIABLE story

\* Callers contend for a row and for one key in "wait"; in "retry" one caller
\* repeats a change across the one after it and a move of the placement.
WaitRequests ==
  {Ask(k1, b1, "A", "In progress", 1, None),
   Ask(k1, b1, "B", "In progress", 1, None),
   Ask(k2, b1, "A", "Blocked", 2, None)}
RetryRequests ==
  {Ask(k1, b1, "A", "In progress", 1, None), Ask(k2, b1, "A", "Blocked", 2, None)}
LivePackages == {<<b1, "A">>, <<b1, "B">>}
LivePreds == [p \in LivePackages |-> {}]
LiveRequests == WaitRequests \cup RetryRequests

Told ==
  CASE story = "chain" -> ChainRequests
    [] story = "twin" -> TwinRequests
    [] story = "wait" -> WaitRequests
    [] story = "retry" -> RetryRequests

Repeater == CHOOSE c \in Clients : TRUE
Callers == IF story = "retry" THEN {Repeater} ELSE Clients

Tells ==
  /\ Next
  /\ \A c \in Clients : req'[c] \in IF c \in Callers THEN Told \cup {None} ELSE {None}
  /\ UNCHANGED story

StoryInit == Init /\ story \in {"chain", "twin"}

StoryNext ==
  /\ Tells
  /\ IF story = "chain" THEN Cardinality(Orphans') < 2 ELSE placement.epoch' = 1

StorySpec == StoryInit /\ [][StoryNext]_<<vars, story>>

LiveInit == Init /\ story \in {"wait", "retry"}

\* Identifiers are interchangeable here: the least one that is free is drawn.
LiveNext ==
  /\ Tells
  /\ story = "wait" => placement.epoch' = 1
  /\ \A drawn \in FreshIds \ FreshIds', id \in FreshIds : drawn <= id

Retrying == story = "retry"

LiveSpec ==
  /\ LiveInit /\ [][LiveNext]_<<vars, story>>
  /\ Fairness
  /\ \A r \in RetryRequests :
       /\ SF_vars(Retrying /\ Start(Repeater, r))
       /\ SF_vars(Retrying /\ Authorize(Repeater) /\ req[Repeater] = r)
       /\ SF_vars(Retrying /\ LookupReplay(Repeater) /\ req[Repeater] = r)

\* Only the caller of "retry" repeats what it was not answered.
RepeatedReceiptIsRecovered == Retrying => LostReceiptIsRecovered
=============================================================================
