---------------------------- MODULE SignupStore -----------------------------
(***************************************************************************)
(* What SignupAttempts promises its host: an attempt collects at most one  *)
(* code and one session, each once, until it is closed once and for all;   *)
(* every step is in the history; and a view shows a recorded state.        *)
(***************************************************************************)
EXTENDS SignupRecord

CONSTANT Callers

VARIABLES current,  \* attempt -> what is recorded of it, or None
          past,     \* <<attempt, view>> pairs: all that was ever recorded
          told      \* caller -> the <<attempt, view>> it was last given, or None

vars == <<current, past, told>>

Init ==
  /\ current = [a \in Attempts |-> None]
  /\ past = {}
  /\ told = [c \in Callers |-> None]

Becomes(a, v) ==
  /\ current' = [current EXCEPT ![a] = v]
  /\ past' = past \cup {<<a, v>>}
  /\ UNCHANGED told

Open(a) == current[a] = None /\ Becomes(a, FirstView)

Live(a) == current[a] # None /\ current[a].status \notin Terminal

\* Recording another code or session in place of the first is not a step.
Collect(a) ==
  /\ Live(a)
  /\ \E f \in Fragments :
       /\ Prior(current[a], f) = None
       /\ Becomes(a, WithFragment(current[a], f))

Close(a) ==
  /\ Live(a)
  /\ \E s \in Terminal : Becomes(a, Closed(current[a], s))

Tell(c) ==
  /\ \E h \in past : told' = [told EXCEPT ![c] = h]
  /\ UNCHANGED <<current, past>>

Next ==
  \/ \E c \in Callers : Tell(c)
  \/ \E a \in Attempts : Open(a) \/ Collect(a) \/ Close(a)

Spec == Init /\ [][Next]_vars
=============================================================================
