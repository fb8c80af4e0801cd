------------------------ MODULE MCPlacementDirectory ------------------------
(* Instances of PlacementDirectory for TLC. *)
EXTENDS PlacementDirectory, TLC

CONSTANTS a1, a2, k1, x, y

At(e, place, state) == [epoch |-> e, place |-> place, state |-> state]

Signed(v, until, map) ==
  [version |-> v, key |-> k1, issued |-> 1, expires |-> until, entries |-> map]

\* The second snapshot forgets a1, and the third gives it a lower epoch: either
\* the first one is accepted or the two others are.
Forgets ==
  {Signed(1, 3, a1 :> At(2, x, "active")),
   Signed(2, 3, a2 :> At(1, x, "active")),
   Signed(3, 3, a1 :> At(1, y, "active") @@ a2 :> At(1, x, "active"))}

\* Two snapshots of one version: only one of them may be accepted. The clocks
\* pass the end of the first, and not that of the second.
Rivals ==
  {Signed(2, 2, a2 :> At(1, x, "active")), Signed(2, 3, a1 :> At(3, y, "suspended"))}

Offered == Forgets \cup Rivals
Always == [k \in Keys |-> 1]
Ends == [k \in Keys |-> 4]

\* Which snapshots the control plane offers in a behaviour: those that may
\* forget, before any of them ends, or the rivals.
VARIABLE story

StoryInit == Init /\ story \in {"forgets", "rivals"}

StoryNext ==
  /\ Next
  /\ \A p \in Directories :
       IF story = "forgets"
       THEN doc'[p] \in Forgets \cup {None} /\ last'[p] <= 1
       ELSE doc'[p] \in Rivals \cup {None}
  /\ UNCHANGED story

StorySpec ==
  /\ StoryInit
  /\ [][StoryNext]_<<vars, story>>
  /\ \A p \in Directories : WF_vars(Progress(p)) /\ SF_vars(Redeliver(p))
=============================================================================
