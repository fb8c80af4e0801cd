--------------------------- MODULE IngressHandler ---------------------------
(***************************************************************************)
(* The handler of provider callbacks (services/ingress/handler.go) with    *)
(* its placement binder (services/ingress/placement.go). It answers 200    *)
(* only when every event of the callback is in the journal of its asset's  *)
(* home cell; on anything else the provider repeats the whole callback.    *)
(*                                                                         *)
(* One callback, of one asset, is followed through its repetitions. The    *)
(* provider repeats as long as it has seen no 200, also while an earlier   *)
(* request still runs. The journal may commit an append whose answer is    *)
(* lost, even after the handler gave up. The placement of the asset moves  *)
(* at any time. The handler keeps nothing between requests, so a crash of   *)
(* its process is the failure of the requests that run.                    *)
(***************************************************************************)
EXTENDS Naturals, Sequences

CONSTANTS Events,       \* the events of the callback, in the parser's order
          Cells, Requests,
          Slots,        \* Options.MaxConcurrent
          MaxMoves      \* bound

ASSUME IngressAssumption ==
    /\ Events \in Seq(STRING) /\ Len(Events) > 0
    /\ \A i, j \in 1..Len(Events) : Events[i] = Events[j] => i = j
    /\ Slots \in Nat \ {0}
    /\ MaxMoves \in Nat

VARIABLES home,         \* directory: the cell of the asset and the epoch of its placement
          stage,        \* per request
          slices,       \* per request: the events bound so far
          appended,     \* per request: how many of them the journal confirmed
          busy,         \* len(slots)
          journal,      \* per cell: the records of its topic
          lateAppends,  \* appends the handler gave up on
          acknowledged  \* the provider has seen a 200

requestVars == <<stage, slices, appended, busy>>
ingressVars == <<home, stage, slices, appended, busy, journal, lateAppends,
                 acknowledged>>

\* "waiting" asks for an append, "stored" has it committed but not yet
\* confirmed, "answering" is about to write its 200.
Running == {"binding", "waiting", "stored", "answering"}
RequestStages == {"idle", "written", "done"} \cup Running

EventSet == {Events[i] : i \in 1..Len(Events)}
Placements == [cell : Cells, epoch : 1..(MaxMoves + 1)]
Slices == [event : EventSet, cell : Cells, epoch : 1..(MaxMoves + 1)]

IngressInit ==
    /\ \E c \in Cells : home = [cell |-> c, epoch |-> 1]
    /\ stage = [r \in Requests |-> "idle"]
    /\ slices = [r \in Requests |-> <<>>]
    /\ appended = [r \in Requests |-> 0]
    /\ busy = 0
    /\ journal = [c \in Cells |-> <<>>]
    /\ lateAppends = {}
    /\ acknowledged = FALSE

MoveHome ==
    /\ home.epoch <= MaxMoves
    /\ \E c \in Cells \ {home.cell} : home' = [cell |-> c, epoch |-> home.epoch + 1]
    /\ UNCHANGED <<requestVars, journal, lateAppends, acknowledged>>

Goto(r, s) == stage' = [stage EXCEPT ![r] = s]

\* The callback arrives and takes a slot, if there is one. What is checked
\* before the binding (body, proof, schema) can only fail.
Enter(r) ==
    /\ stage[r] = "idle"
    /\ ~acknowledged
    /\ busy < Slots
    /\ busy' = busy + 1
    /\ Goto(r, "binding")
    /\ UNCHANGED <<home, slices, appended, journal, lateAppends, acknowledged>>

AtCapacity(r) ==
    /\ stage[r] = "idle"
    /\ ~acknowledged
    /\ busy = Slots
    /\ Goto(r, "done")
    /\ UNCHANGED <<home, slices, appended, busy, journal, lateAppends, acknowledged>>

\* Bind resolves one event at a time, each against the placement of that
\* moment; the topic is that of the cell, the record's identity is the event's.
Bind(r) ==
    LET slice == [event |-> Events[Len(slices[r]) + 1],
                  cell |-> home.cell, epoch |-> home.epoch]
    IN  /\ stage[r] = "binding"
        /\ slices' = [slices EXCEPT ![r] = Append(@, slice)]
        /\ Goto(r, IF Len(slices'[r]) = Len(Events) THEN "waiting" ELSE "binding")
        /\ UNCHANGED <<home, appended, busy, journal, lateAppends, acknowledged>>

\* Mutant: the last event bound is appended first.
NextSliceLast(r) == slices[r][Len(slices[r]) - appended[r]]

NextSlice(r) == slices[r][appended[r] + 1]

Write(slice) == journal' = [journal EXCEPT ![slice.cell] = Append(@, slice.event)]

Store(r) ==
    /\ stage[r] = "waiting"
    /\ Write(NextSlice(r))
    /\ Goto(r, "stored")
    /\ UNCHANGED <<home, slices, appended, busy, lateAppends, acknowledged>>

\* Mutant: an append that is not confirmed counts as done.
ConfirmUnseen(r) ==
    /\ stage[r] \in {"waiting", "stored"}
    /\ appended' = [appended EXCEPT ![r] = @ + 1]
    /\ Goto(r, IF appended'[r] = Len(slices[r]) THEN "answering" ELSE "waiting")
    /\ UNCHANGED <<home, slices, busy, journal, lateAppends, acknowledged>>

Confirm(r) ==
    /\ stage[r] = "stored"
    /\ appended' = [appended EXCEPT ![r] = @ + 1]
    /\ Goto(r, IF appended'[r] = Len(slices[r]) THEN "answering" ELSE "waiting")
    /\ UNCHANGED <<home, slices, busy, journal, lateAppends, acknowledged>>

\* The appends of requests that are no longer waited for.
Abandoned(r) == IF stage[r] = "waiting" THEN {NextSlice(r)} ELSE {}

\* A rejected proof or schema, a placement that cannot be resolved, an append
\* that fails or is not confirmed, the deadline: anything but a 200.
Fail(r) ==
    /\ stage[r] \in Running
    /\ lateAppends' = lateAppends \cup Abandoned(r)
    /\ busy' = busy - 1
    /\ Goto(r, "done")
    /\ UNCHANGED <<home, slices, appended, journal, acknowledged>>

LateAppend(s) ==
    /\ s \in lateAppends
    /\ lateAppends' = lateAppends \ {s}
    /\ Write(s)
    /\ UNCHANGED <<home, requestVars, acknowledged>>

\* 200 is written; whether the provider sees it is another matter.
Answer(r) ==
    /\ stage[r] = "answering"
    /\ busy' = busy - 1
    /\ Goto(r, "written")
    /\ UNCHANGED <<home, slices, appended, journal, lateAppends, acknowledged>>

Receive(r) ==
    /\ stage[r] = "written"
    /\ acknowledged' = TRUE
    /\ Goto(r, "done")
    /\ UNCHANGED <<home, slices, appended, busy, journal, lateAppends>>

LoseAnswer(r) ==
    /\ stage[r] = "written"
    /\ Goto(r, "done")
    /\ UNCHANGED <<home, slices, appended, busy, journal, lateAppends, acknowledged>>

IngressNext ==
    \/ \E r \in Requests :
          \/ Enter(r) \/ AtCapacity(r) \/ Bind(r) \/ Store(r) \/ Confirm(r)
          \/ Fail(r) \/ Answer(r) \/ Receive(r) \/ LoseAnswer(r)
    \/ \E s \in lateAppends : LateAppend(s)
    \/ MoveHome
=============================================================================
