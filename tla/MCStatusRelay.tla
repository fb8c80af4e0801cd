---------------------------- MODULE MCStatusRelay ----------------------------
(* Small instances of StatusRelay.                                         *)
EXTENDS StatusRelay, TLC

\* Two stories share one run. In "race" all relays work on one fact, whose
\* history may be amended; in "sweep" one relay sweeps every fact.
VARIABLE story

Relays == IF story = "race" THEN Workers ELSE {CHOOSE w \in Workers : TRUE}

StoryNext ==
  /\ Next
  /\ \A w \in Workers \ Relays : stage'[w] = "idle"
  /\ story = "race" => \A f \in Facts \ {1} : state'[f] = "absent"
  /\ story = "sweep" => \A f \in Facts : revision'[f] <= 1
  /\ story = "sweep" => failures' <= 1
  /\ UNCHANGED story

StoryInit == Init /\ story \in {"race", "sweep"}

StorySpec ==
  /\ StoryInit
  /\ [][StoryNext]_<<vars, story>>
  /\ \A w \in Workers : WF_vars(Proceed(w)) /\ SF_vars(RunPage(w) /\ w \in Relays)
  /\ Answers
=============================================================================
