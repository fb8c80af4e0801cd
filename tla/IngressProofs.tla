---------------------------- MODULE IngressProofs ----------------------------
(***************************************************************************)
(* Safety of ProviderIngress for any callback, any number of requests and  *)
(* cells: what a 200 stands for, the order within a cell, what the         *)
(* consumers have passed, and the promise of CallbackDelivery.             *)
(***************************************************************************)
EXTENDS ProviderIngress, FiniteSetTheorems, TLAPS

\* The event is in the journal of some cell.
Backed(e) == \E c \in Cells : InJournal(e, c)

Serving == {r \in Requests : stage[r] \in Running}

\* What the stage of a request says of its local variables.
LocalInv(r) ==
    /\ Len(slices[r]) <= Len(Events)
    /\ appended[r] <= Len(slices[r])
    /\ \A i \in 1..Len(slices[r]) : slices[r][i].event = Events[i]
    /\ stage[r] \in {"idle", "binding"} =>
          appended[r] = 0 /\ Len(slices[r]) < Len(Events)
    /\ stage[r] \in {"waiting", "stored"} =>
          appended[r] < Len(Events) /\ Len(slices[r]) = Len(Events)
    /\ stage[r] \in {"answering", "written"} => appended[r] = Len(Events)

RequestInv == \A r \in Requests : LocalInv(r)

\* The slots in use are those of the requests that run.
CapacityInv ==
    /\ IsFiniteSet(Serving)
    /\ busy = Cardinality(Serving)

\* What a request counts as confirmed is in a journal.
ConfirmedBy(r) ==
    /\ \A i \in 1..appended[r] : Backed(Events[i])
    /\ stage[r] = "stored" => Backed(Events[appended[r] + 1])

ConfirmedInv == \A r \in Requests : ConfirmedBy(r)

\* An append that was given up was asked for after its predecessors were
\* confirmed.
LateInv ==
    \A s \in lateAppends : \E j \in 1..Len(Events) :
        /\ s.event = Events[j]
        /\ \A i \in 1..(j - 1) : Backed(Events[i])

\* The record a consumer has applied is the one after its offset.
ConsumeInv ==
    \A c \in Cells :
        /\ offset[c] <= Len(journal[c])
        /\ consuming[c] = "applied" =>
              offset[c] < Len(journal[c]) /\ journal[c][offset[c] + 1] \in applied[c]

IInv ==
    /\ TypeOK
    /\ RequestInv /\ CapacityInv /\ ConfirmedInv /\ LateInv /\ ConsumeInv
    /\ AcknowledgedIsDurable /\ EventsInOrder /\ NothingIsSkipped

-----------------------------------------------------------------------------
(* The journal                                                             *)

LEMMA EventFacts ==
    /\ Len(Events) \in Nat /\ Len(Events) > 0
    /\ \A i \in 1..Len(Events) : Events[i] \in EventSet
    /\ \A e \in EventSet : \E i \in 1..Len(Events) : e = Events[i]
    /\ MaxMoves \in Nat
  BY IngressAssumption DEF EventSet

\* What Write(s) does to the journal: it grows by one record, and what was in
\* it stays.
LEMMA WriteEffect ==
  ASSUME TypeOK, NEW s \in Slices, Write(s)
  PROVE  /\ journal' \in [Cells -> Seq(EventSet)]
         /\ s.cell \in Cells /\ s.event \in EventSet
         /\ \A c \in Cells : c # s.cell => journal'[c] = journal[c]
         /\ Len(journal'[s.cell]) = Len(journal[s.cell]) + 1
         /\ journal'[s.cell][Len(journal[s.cell]) + 1] = s.event
         /\ \A c \in Cells :
               /\ Len(journal[c]) <= Len(journal'[c])
               /\ \A n \in 1..Len(journal[c]) : journal'[c][n] = journal[c][n]
         /\ \A e : \A c \in Cells : InJournal(e, c) => InJournal(e, c)'
         /\ \A e : Backed(e) => Backed(e)'
         /\ Backed(s.event)'
  <1> DEFINE old == journal[s.cell]
             new == Append(old, s.event)
  <1>1. s.cell \in Cells /\ s.event \in EventSet
    BY DEF Slices
  <1>2. journal \in [Cells -> Seq(EventSet)]
    BY DEF TypeOK
  <1>3. journal' = [journal EXCEPT ![s.cell] = new]
    BY <1>1, <1>2 DEF Write
  <1>4. old \in Seq(EventSet) /\ Len(old) \in Nat
    BY <1>1, <1>2
  <1>5. /\ new \in Seq(EventSet)
        /\ Len(new) = Len(old) + 1
        /\ new[Len(old) + 1] = s.event
        /\ \A n \in 1..Len(old) : new[n] = old[n]
    BY <1>1, <1>4
  <1> HIDE DEF new
  <1>6. /\ journal' \in [Cells -> Seq(EventSet)]
        /\ \A c \in Cells : c # s.cell => journal'[c] = journal[c]
        /\ journal'[s.cell] = new
    BY <1>1, <1>2, <1>3, <1>5
  <1>7. \A c \in Cells :
           /\ Len(journal[c]) <= Len(journal'[c])
           /\ \A n \in 1..Len(journal[c]) : journal'[c][n] = journal[c][n]
    <2>1. TAKE c \in Cells
    <2>2. Len(journal[c]) \in Nat
      BY <1>2
    <2>3. CASE c = s.cell
      BY <1>4, <1>5, <1>6, <2>3
    <2>4. CASE c # s.cell
      BY <1>6, <2>2, <2>4
    <2> QED
      BY <2>3, <2>4
  <1>8. ASSUME NEW e, NEW c \in Cells, InJournal(e, c)
        PROVE  InJournal(e, c)'
    <2>1. PICK n \in 1..Len(journal[c]) : journal[c][n] = e
      BY <1>8 DEF InJournal
    <2>2. Len(journal[c]) \in Nat /\ Len(journal'[c]) \in Nat
      BY <1>2, <1>6
    <2>3. n \in 1..Len(journal'[c]) /\ journal'[c][n] = e
      BY <1>7, <2>1, <2>2
    <2> QED
      BY <2>3 DEF InJournal
  <1>9. InJournal(s.event, s.cell)'
    <2>1. Len(journal'[s.cell]) \in Nat
      BY <1>1, <1>6
    <2>2. Len(old) + 1 \in 1..Len(journal'[s.cell]) /\ journal'[s.cell][Len(old) + 1] = s.event
      BY <1>4, <1>5, <1>6
    <2> QED
      BY <2>2 DEF InJournal
  <1> QED
    BY <1>1, <1>5, <1>6, <1>7, <1>8, <1>9 DEF Backed

\* Writing an event whose predecessors are in some journal keeps the order.
LEMMA WriteInOrder ==
  ASSUME TypeOK, EventsInOrder, NEW s \in Slices, Write(s),
         NEW k \in 1..Len(Events), s.event = Events[k],
         \A i \in 1..(k - 1) : Backed(Events[i])
  PROVE  EventsInOrder'
  <1>1. SUFFICES ASSUME NEW c \in Cells, NEW n \in 1..Len(journal'[c]),
                        NEW i \in 1..Len(Events), NEW j \in 1..Len(Events),
                        i < j, journal'[c][n] = Events[j]
                 PROVE  \/ \E m \in 1..(n - 1) : journal'[c][m] = Events[i]
                        \/ \E d \in Cells \ {c} : InJournal(Events[i], d)'
    BY DEF EventsInOrder
  <1>2. Len(journal[c]) \in Nat /\ Len(journal'[c]) \in Nat /\ Len(Events) \in Nat
    BY WriteEffect, EventFacts DEF TypeOK
  <1>3. CASE n \in 1..Len(journal[c])
    <2>1. journal[c][n] = Events[j]
      BY <1>1, <1>3, WriteEffect
    <2>2. \/ \E m \in 1..(n - 1) : journal[c][m] = Events[i]
          \/ \E d \in Cells \ {c} : InJournal(Events[i], d)
      BY <1>1, <1>3, <2>1 DEF EventsInOrder
    <2>3. \A m \in 1..(n - 1) : journal'[c][m] = journal[c][m]
      BY <1>2, <1>3, WriteEffect
    <2> QED
      BY <2>2, <2>3, WriteEffect
  <1>4. CASE n \notin 1..Len(journal[c])
    <2>1. c = s.cell /\ n = Len(journal[c]) + 1
      BY <1>1, <1>2, <1>4, WriteEffect
    <2>2. Events[j] = Events[k]
      BY <1>1, <2>1, WriteEffect
    <2>3. j = k
      BY <2>2, IngressAssumption
    <2>4. i \in 1..(k - 1)
      BY <1>1, <1>2, <2>3
    <2>5. PICK d \in Cells : InJournal(Events[i], d)
      BY <2>4 DEF Backed
    <2>6. CASE d = c
      <3>1. PICK m \in 1..Len(journal[c]) : journal[c][m] = Events[i]
        BY <2>5, <2>6 DEF InJournal
      <3>2. m \in 1..(n - 1)
        BY <1>2, <2>1, <3>1
      <3>3. journal'[c][m] = Events[i]
        BY <3>1, WriteEffect
      <3> QED
        BY <3>2, <3>3
    <2>7. CASE d # c
      BY <2>5, <2>7, WriteEffect
    <2> QED
      BY <2>6, <2>7
  <1> QED
    BY <1>3, <1>4

\* A longer journal keeps what was said of it.
LEMMA WriteKeeps ==
  ASSUME IInv, NEW s \in Slices, Write(s),
         UNCHANGED <<acknowledged, offset, consuming, applied>>
  PROVE  AcknowledgedIsDurable' /\ ConsumeInv' /\ NothingIsSkipped'
  <1>1. AcknowledgedIsDurable'
    BY WriteEffect DEF IInv, AcknowledgedIsDurable, Backed
  <1>2. \A c \in Cells : offset[c] \in Nat /\ Len(journal[c]) \in Nat /\ Len(journal'[c]) \in Nat
    BY WriteEffect DEF IInv, TypeOK
  <1>3. ConsumeInv'
    <2>1. SUFFICES ASSUME NEW c \in Cells
                   PROVE  /\ offset[c] <= Len(journal'[c])
                          /\ consuming[c] = "applied" =>
                                /\ offset[c] < Len(journal'[c])
                                /\ journal'[c][offset[c] + 1] \in applied[c]
      BY DEF ConsumeInv
    <2>2. /\ offset[c] <= Len(journal[c])
          /\ consuming[c] = "applied" =>
                offset[c] < Len(journal[c]) /\ journal[c][offset[c] + 1] \in applied[c]
      BY DEF IInv, ConsumeInv
    <2>3. /\ Len(journal[c]) <= Len(journal'[c])
          /\ \A n \in 1..Len(journal[c]) : journal'[c][n] = journal[c][n]
      BY WriteEffect DEF IInv
    <2>4. offset[c] <= Len(journal'[c])
      BY <1>2, <2>2, <2>3
    <2>5. CASE consuming[c] = "applied"
      <3>1. offset[c] + 1 \in 1..Len(journal[c]) /\ offset[c] < Len(journal'[c])
        BY <1>2, <2>2, <2>3, <2>5
      <3> QED
        BY <2>2, <2>3, <2>4, <2>5, <3>1
    <2> QED
      BY <2>4, <2>5
  <1>4. NothingIsSkipped'
    <2>1. SUFFICES ASSUME NEW c \in Cells, NEW n \in 1..offset[c]
                   PROVE  journal'[c][n] \in applied[c]
      BY DEF NothingIsSkipped
    <2>2. offset[c] <= Len(journal[c]) /\ journal[c][n] \in applied[c]
      BY DEF IInv, ConsumeInv, NothingIsSkipped
    <2>3. journal'[c][n] = journal[c][n]
      BY <1>2, <2>2, WriteEffect DEF IInv
    <2> QED
      BY <2>2, <2>3
  <1> QED
    BY <1>1, <1>3, <1>4

-----------------------------------------------------------------------------
(* Frames                                                                  *)

\* A step of request r says nothing of the others.
LEMMA OneRequest ==
  ASSUME IInv, NEW r \in Requests,
         \A q \in Requests \ {r} :
            stage'[q] = stage[q] /\ slices'[q] = slices[q] /\ appended'[q] = appended[q],
         \A e : Backed(e) => Backed(e)',
         LocalInv(r)', ConfirmedBy(r)'
  PROVE  RequestInv' /\ ConfirmedInv'
  <1>1. ASSUME NEW q \in Requests \ {r}
        PROVE  LocalInv(q)' /\ ConfirmedBy(q)'
    <2>1. stage'[q] = stage[q] /\ slices'[q] = slices[q] /\ appended'[q] = appended[q]
      OBVIOUS
    <2>2. LocalInv(q) /\ ConfirmedBy(q)
      BY DEF IInv, RequestInv, ConfirmedInv
    <2>3. LocalInv(q)'
      BY <2>1, <2>2 DEF LocalInv
    <2>4. ConfirmedBy(q)'
      BY <2>1, <2>2 DEF ConfirmedBy
    <2> QED
      BY <2>3, <2>4
  <1> QED
    BY <1>1 DEF RequestInv, ConfirmedInv

\* Where the journal, what was given up and the consumers stay, so does what is
\* said of them.
LEMMA JournalStays ==
  ASSUME IInv, UNCHANGED <<journal, lateAppends, acknowledged, durabilityVars>>
  PROVE  /\ LateInv' /\ ConsumeInv' /\ AcknowledgedIsDurable' /\ EventsInOrder'
         /\ NothingIsSkipped'
         /\ \A e : Backed(e)' <=> Backed(e)
  <1>1. \A e, c : InJournal(e, c)' <=> InJournal(e, c)
    BY DEF InJournal
  <1>2. \A e : Backed(e)' <=> Backed(e)
    BY <1>1 DEF Backed
  <1>3. LateInv'
    BY <1>2 DEF IInv, LateInv
  <1>4. ConsumeInv' /\ NothingIsSkipped'
    BY DEF IInv, ConsumeInv, NothingIsSkipped, durabilityVars
  <1>5. AcknowledgedIsDurable'
    BY <1>1 DEF IInv, AcknowledgedIsDurable
  <1>6. EventsInOrder'
    BY <1>1 DEF IInv, EventsInOrder
  <1> QED
    BY <1>2, <1>3, <1>4, <1>5, <1>6

\* A request that takes a slot, that gives it back, and one that does neither.
LEMMA SlotTaken ==
  ASSUME TypeOK, CapacityInv, NEW r \in Requests, NEW s \in Running, Goto(r, s),
         stage[r] \notin Running, busy' = busy + 1
  PROVE  CapacityInv'
  <1>1. Serving' = Serving \cup {r} /\ r \notin Serving
    BY DEF Serving, Goto, TypeOK
  <1> QED
    BY <1>1, FS_AddElement DEF CapacityInv

LEMMA SlotGivenBack ==
  ASSUME TypeOK, CapacityInv, NEW r \in Requests, NEW s, s \notin Running, Goto(r, s),
         stage[r] \in Running, busy' = busy - 1
  PROVE  CapacityInv' /\ busy' \in Nat
  <1>1. Serving' = Serving \ {r} /\ r \in Serving
    BY DEF Serving, Goto, TypeOK
  <1>2. IsFiniteSet(Serving') /\ Cardinality(Serving') = Cardinality(Serving) - 1
    BY <1>1, FS_RemoveElement DEF CapacityInv
  <1> QED
    BY <1>2, FS_CardinalityType DEF CapacityInv

LEMMA SlotKept ==
  ASSUME TypeOK, CapacityInv, NEW r \in Requests, NEW s, Goto(r, s),
         stage[r] \in Running <=> s \in Running, busy' = busy
  PROVE  CapacityInv'
  <1>1. Serving' = Serving
    BY DEF Serving, Goto, TypeOK
  <1> QED
    BY <1>1 DEF CapacityInv

-----------------------------------------------------------------------------
(* The handler                                                             *)

\* Only the stage of one request and the slots move.
LEMMA StageStep ==
  ASSUME IInv, NEW r \in Requests, NEW s \in RequestStages, Goto(r, s),
         LocalInv(r)', s # "stored", CapacityInv', busy' \in Nat, home' \in Placements,
         UNCHANGED <<slices, appended, journal, lateAppends, acknowledged, durabilityVars>>
  PROVE  IInv'
  <1>1. TypeOK'
    BY DEF IInv, TypeOK, Goto, durabilityVars
  <1>2. \A e : Backed(e)' <=> Backed(e)
    BY JournalStays
  <1>3. stage'[r] = s /\ \A q \in Requests \ {r} : stage'[q] = stage[q]
    BY DEF IInv, TypeOK, Goto
  <1>4. ConfirmedBy(r)'
    BY <1>2, <1>3 DEF IInv, ConfirmedInv, ConfirmedBy
  <1>5. RequestInv' /\ ConfirmedInv'
    BY <1>2, <1>3, <1>4, OneRequest
  <1> QED
    BY <1>1, <1>5, JournalStays DEF IInv

LEMMA EnterStep ==
  ASSUME IInv, NEW r \in Requests, Enter(r), UNCHANGED durabilityVars
  PROVE  IInv'
  <1>1. Goto(r, "binding") /\ "binding" \in RequestStages \cap Running /\ stage'[r] = "binding"
    BY DEF Enter, Goto, IInv, TypeOK, RequestStages, Running
  <1>2. CapacityInv'
    BY <1>1, SlotTaken DEF Enter, IInv, Running
  <1>3. LocalInv(r)'
    BY <1>1 DEF Enter, IInv, RequestInv, LocalInv
  <1> QED
    BY <1>1, <1>2, <1>3, StageStep DEF Enter, IInv, TypeOK

LEMMA AtCapacityStep ==
  ASSUME IInv, NEW r \in Requests, AtCapacity(r), UNCHANGED durabilityVars
  PROVE  IInv'
  <1>1. Goto(r, "done") /\ "done" \in RequestStages \ Running /\ stage'[r] = "done"
    BY DEF AtCapacity, Goto, IInv, TypeOK, RequestStages, Running
  <1>2. CapacityInv'
    BY <1>1, SlotKept DEF AtCapacity, IInv, Running
  <1>3. LocalInv(r)'
    BY <1>1 DEF AtCapacity, IInv, RequestInv, LocalInv
  <1> QED
    BY <1>1, <1>2, <1>3, StageStep DEF AtCapacity, IInv, TypeOK

LEMMA AnswerStep ==
  ASSUME IInv, NEW r \in Requests, Answer(r), UNCHANGED durabilityVars
  PROVE  IInv'
  <1>1. Goto(r, "written") /\ "written" \in RequestStages \ Running /\ stage'[r] = "written"
    BY DEF Answer, Goto, IInv, TypeOK, RequestStages, Running
  <1>2. CapacityInv' /\ busy' \in Nat
    BY <1>1, SlotGivenBack DEF Answer, IInv, Running
  <1>3. LocalInv(r)'
    BY <1>1 DEF Answer, IInv, RequestInv, LocalInv
  <1> QED
    BY <1>1, <1>2, <1>3, StageStep DEF Answer, IInv, TypeOK

LEMMA LoseAnswerStep ==
  ASSUME IInv, NEW r \in Requests, LoseAnswer(r), UNCHANGED durabilityVars
  PROVE  IInv'
  <1>1. Goto(r, "done") /\ "done" \in RequestStages \ Running /\ stage'[r] = "done"
    BY DEF LoseAnswer, Goto, IInv, TypeOK, RequestStages, Running
  <1>2. CapacityInv'
    BY <1>1, SlotKept DEF LoseAnswer, IInv, Running
  <1>3. LocalInv(r)'
    BY <1>1 DEF LoseAnswer, IInv, RequestInv, LocalInv
  <1> QED
    BY <1>1, <1>2, <1>3, StageStep DEF LoseAnswer, IInv, TypeOK

\* A slice is bound to the event of its place.
LEMMA BindStep ==
  ASSUME IInv, NEW r \in Requests, Bind(r), UNCHANGED durabilityVars
  PROVE  IInv'
  <1> DEFINE slice == [event |-> Events[Len(slices[r]) + 1],
                       cell |-> home.cell, epoch |-> home.epoch]
             bound == Append(slices[r], slice)
  <1>1. /\ slices \in [Requests -> Seq(Slices)] /\ stage \in [Requests -> RequestStages]
        /\ appended \in [Requests -> Nat] /\ slices[r] \in Seq(Slices)
        /\ Len(slices[r]) \in Nat /\ stage[r] = "binding"
    BY DEF IInv, TypeOK, Bind
  <1>2. /\ appended[r] = 0 /\ Len(slices[r]) < Len(Events)
        /\ \A i \in 1..Len(slices[r]) : slices[r][i].event = Events[i]
    BY <1>1 DEF IInv, RequestInv, LocalInv
  <1>3. Len(slices[r]) + 1 \in 1..Len(Events)
    BY <1>1, <1>2, EventFacts
  <1>4. slice \in Slices /\ slice.event = Events[Len(slices[r]) + 1]
    BY <1>3, EventFacts DEF IInv, TypeOK, Placements, Slices
  <1>5. slices' = [slices EXCEPT ![r] = bound]
    BY <1>1 DEF Bind
  <1> HIDE DEF slice
  <1>6. /\ bound \in Seq(Slices) /\ Len(bound) = Len(slices[r]) + 1
        /\ bound[Len(slices[r]) + 1] = slice
        /\ \A i \in 1..Len(slices[r]) : bound[i] = slices[r][i]
    BY <1>1, <1>4
  <1> HIDE DEF bound
  <1>7. /\ slices' \in [Requests -> Seq(Slices)] /\ slices'[r] = bound
        /\ \A q \in Requests \ {r} : slices'[q] = slices[q]
    BY <1>1, <1>5, <1>6
  <1> DEFINE s == IF Len(bound) = Len(Events) THEN "waiting" ELSE "binding"
  <1>8. Goto(r, s)
    BY <1>7 DEF Bind
  <1>9. /\ s \in RequestStages \cap Running
        /\ stage' \in [Requests -> RequestStages] /\ stage'[r] = s
        /\ \A q \in Requests \ {r} : stage'[q] = stage[q]
    BY <1>1, <1>8 DEF Goto, RequestStages, Running
  <1>10. TypeOK'
    BY <1>7, <1>9 DEF IInv, TypeOK, Bind, durabilityVars
  <1>11. CapacityInv'
    BY <1>1, <1>8, <1>9, SlotKept DEF Bind, IInv, Running
  <1>12. \A i \in 1..Len(bound) : bound[i].event = Events[i]
    <2>1. TAKE i \in 1..Len(bound)
    <2>2. i \in 1..Len(slices[r]) \/ i = Len(slices[r]) + 1
      BY <1>1, <1>6
    <2> QED
      BY <1>2, <1>4, <1>6, <2>2
  <1>13. appended'[r] = 0 /\ Len(Events) \in Nat /\ Len(Events) > 0
    BY <1>2, EventFacts DEF Bind
  <1>14. Len(slices'[r]) <= Len(Events) /\ Len(slices'[r]) \in Nat
    BY <1>1, <1>3, <1>6, <1>7
  <1>15. LocalInv(r)'
    BY <1>7, <1>9, <1>12, <1>13, <1>14 DEF LocalInv
  <1>16. \A e : Backed(e)' <=> Backed(e)
    BY JournalStays DEF Bind
  <1>17. ConfirmedBy(r)'
    BY <1>9, <1>13 DEF ConfirmedBy
  <1>18. RequestInv' /\ ConfirmedInv'
    BY <1>7, <1>9, <1>15, <1>16, <1>17, OneRequest DEF Bind
  <1> QED
    BY <1>10, <1>11, <1>18, JournalStays DEF IInv, Bind

\* What a request asks for next has its predecessors in the journal.
LEMMA NextSliceFacts ==
  ASSUME IInv, NEW r \in Requests, stage[r] = "waiting"
  PROVE  /\ NextSlice(r) \in Slices
         /\ appended[r] \in Nat /\ appended[r] + 1 \in 1..Len(Events)
         /\ NextSlice(r).event = Events[appended[r] + 1]
         /\ \A i \in 1..appended[r] : Backed(Events[i])
  <1>1. /\ appended[r] \in Nat /\ slices[r] \in Seq(Slices)
        /\ appended[r] < Len(Events) /\ Len(slices[r]) = Len(Events)
        /\ \A i \in 1..Len(slices[r]) : slices[r][i].event = Events[i]
    BY DEF IInv, TypeOK, RequestInv, LocalInv
  <1>2. appended[r] + 1 \in 1..Len(slices[r])
    BY <1>1, EventFacts
  <1>3. \A i \in 1..appended[r] : Backed(Events[i])
    BY DEF IInv, ConfirmedInv, ConfirmedBy
  <1> QED
    BY <1>1, <1>2, <1>3 DEF NextSlice

LEMMA StoreStep ==
  ASSUME IInv, NEW r \in Requests, Store(r), UNCHANGED durabilityVars
  PROVE  IInv'
  <1>0. stage[r] = "waiting" /\ Goto(r, "stored")
    BY DEF Store
  <1>a. PICK s \in Slices : s = NextSlice(r)
    BY <1>0, NextSliceFacts
  <1>b. PICK k \in 1..Len(Events) : k = appended[r] + 1
    BY <1>0, NextSliceFacts
  <1>1. stage[r] = "waiting" /\ Write(s) /\ Goto(r, "stored")
    BY <1>a DEF Store
  <1>2. /\ appended[r] \in Nat /\ s.event = Events[k]
        /\ \A i \in 1..appended[r] : Backed(Events[i])
    BY <1>0, <1>a, <1>b, NextSliceFacts
  <1>3. appended[r] = k - 1
    BY <1>2, <1>b
  <1>4. EventsInOrder'
    BY <1>1, <1>2, <1>3, WriteInOrder DEF IInv
  <1>5. AcknowledgedIsDurable' /\ ConsumeInv' /\ NothingIsSkipped'
    BY <1>1, <1>2, WriteKeeps DEF Store, durabilityVars
  <1>6. \A e : Backed(e) => Backed(e)'
    BY <1>1, <1>2, WriteEffect DEF IInv
  <1>7. Backed(Events[k])'
    BY <1>1, <1>2, WriteEffect DEF IInv
  <1>8. /\ "stored" \in RequestStages \cap Running
        /\ stage' \in [Requests -> RequestStages] /\ stage'[r] = "stored"
        /\ \A q \in Requests \ {r} : stage'[q] = stage[q]
    BY <1>1 DEF IInv, TypeOK, Goto, RequestStages, Running
  <1>9. journal' \in [Cells -> Seq(EventSet)]
    BY <1>1, <1>2, WriteEffect DEF IInv
  <1>10. TypeOK'
    BY <1>8, <1>9 DEF IInv, TypeOK, Store, durabilityVars
  <1>11. CapacityInv'
    BY <1>1, <1>8, SlotKept DEF Store, IInv, Running
  <1>12. LateInv'
    BY <1>6 DEF IInv, LateInv, Store
  <1>13. LocalInv(r)'
    BY <1>1, <1>8 DEF IInv, RequestInv, LocalInv, Store
  <1>14. ConfirmedBy(r)'
    BY <1>2, <1>b, <1>6, <1>7 DEF ConfirmedBy, Store
  <1>15. RequestInv' /\ ConfirmedInv'
    BY <1>6, <1>8, <1>13, <1>14, OneRequest DEF Store
  <1> QED
    BY <1>4, <1>5, <1>10, <1>11, <1>12, <1>15 DEF IInv

LEMMA ConfirmStep ==
  ASSUME IInv, NEW r \in Requests, Confirm(r), UNCHANGED durabilityVars
  PROVE  IInv'
  <1> DEFINE n == appended[r] + 1
             s == IF n = Len(slices[r]) THEN "answering" ELSE "waiting"
  <1>1. /\ stage[r] = "stored" /\ appended \in [Requests -> Nat] /\ appended[r] \in Nat
        /\ stage \in [Requests -> RequestStages]
        /\ appended[r] < Len(Events) /\ Len(slices[r]) = Len(Events)
    BY DEF IInv, TypeOK, RequestInv, LocalInv, Confirm
  <1>2. appended' = [appended EXCEPT ![r] = n]
    BY <1>1 DEF Confirm
  <1>3. n \in Nat /\ n <= Len(Events) /\ Len(Events) \in Nat
    BY <1>1, EventFacts
  <1>4. /\ appended' \in [Requests -> Nat] /\ appended'[r] = n
        /\ \A q \in Requests \ {r} : appended'[q] = appended[q]
    BY <1>1, <1>2, <1>3
  <1>5. Goto(r, s)
    BY <1>4 DEF Confirm
  <1>6. /\ s \in RequestStages \cap Running
        /\ stage' \in [Requests -> RequestStages] /\ stage'[r] = s
        /\ \A q \in Requests \ {r} : stage'[q] = stage[q]
    BY <1>1, <1>5 DEF Goto, RequestStages, Running
  <1>7. TypeOK'
    BY <1>4, <1>6 DEF IInv, TypeOK, Confirm, durabilityVars
  <1>8. CapacityInv'
    BY <1>1, <1>5, <1>6, SlotKept DEF Confirm, IInv, Running
  <1>9. \A e : Backed(e)' <=> Backed(e)
    BY JournalStays DEF Confirm
  <1>10. LocalInv(r)'
    BY <1>1, <1>3, <1>4, <1>6 DEF IInv, RequestInv, LocalInv, Confirm
  <1>11. \A i \in 1..n : Backed(Events[i])
    <2>1. TAKE i \in 1..n
    <2>2. i \in 1..appended[r] \/ i = appended[r] + 1
      BY <1>1
    <2> QED
      BY <1>1, <2>2 DEF IInv, ConfirmedInv, ConfirmedBy
  <1>12. ConfirmedBy(r)'
    BY <1>4, <1>6, <1>9, <1>11 DEF ConfirmedBy
  <1>13. RequestInv' /\ ConfirmedInv'
    BY <1>4, <1>6, <1>9, <1>10, <1>12, OneRequest DEF Confirm
  <1> QED
    BY <1>7, <1>8, <1>13, JournalStays DEF IInv, Confirm

\* A request that fails may leave an append behind.
LEMMA FailStep ==
  ASSUME IInv, NEW r \in Requests, Fail(r), UNCHANGED durabilityVars
  PROVE  IInv'
  <1>1. Goto(r, "done") /\ "done" \in RequestStages \ Running
    BY DEF Fail, RequestStages, Running
  <1>2. /\ stage' \in [Requests -> RequestStages] /\ stage'[r] = "done"
        /\ \A q \in Requests \ {r} : stage'[q] = stage[q]
    BY <1>1 DEF IInv, TypeOK, Goto
  <1>3. CapacityInv' /\ busy' \in Nat
    BY <1>1, SlotGivenBack DEF Fail, IInv
  <1>4. \A e, c : InJournal(e, c)' <=> InJournal(e, c)
    BY DEF InJournal, Fail
  <1>5. \A e : Backed(e)' <=> Backed(e)
    BY <1>4 DEF Backed
  <1>6. LocalInv(r)' /\ ConfirmedBy(r)'
    BY <1>2, <1>5 DEF IInv, RequestInv, LocalInv, ConfirmedInv, ConfirmedBy, Fail
  <1>7. RequestInv' /\ ConfirmedInv'
    BY <1>2, <1>5, <1>6, OneRequest DEF Fail
  <1>8. lateAppends' \subseteq Slices /\ LateInv'
    <2>1. CASE stage[r] = "waiting"
      <3> DEFINE s == NextSlice(r)
                 k == appended[r] + 1
      <3>1. lateAppends' = lateAppends \cup {s}
        BY <2>1 DEF Fail, Abandoned
      <3>2. /\ s \in Slices /\ appended[r] \in Nat /\ k \in 1..Len(Events)
            /\ s.event = Events[k] /\ \A i \in 1..appended[r] : Backed(Events[i])
        BY <2>1, NextSliceFacts
      <3>3. appended[r] = k - 1
        BY <3>2
      <3> HIDE DEF s, k
      <3>4. \E j \in 1..Len(Events) :
               s.event = Events[j] /\ \A i \in 1..(j - 1) : Backed(Events[i])
        BY <3>2, <3>3
      <3> QED
        BY <1>5, <3>1, <3>2, <3>4 DEF IInv, TypeOK, LateInv
    <2>2. CASE stage[r] # "waiting"
      <3>1. lateAppends' = lateAppends
        BY <2>2 DEF Fail, Abandoned
      <3> QED
        BY <1>5, <3>1 DEF IInv, TypeOK, LateInv
    <2> QED
      BY <2>1, <2>2
  <1>9. TypeOK'
    BY <1>2, <1>3, <1>8 DEF IInv, TypeOK, Fail, durabilityVars
  <1>10. ConsumeInv' /\ NothingIsSkipped'
    BY DEF IInv, ConsumeInv, NothingIsSkipped, durabilityVars, Fail
  <1>11. AcknowledgedIsDurable'
    BY <1>4 DEF IInv, AcknowledgedIsDurable, Fail
  <1>12. EventsInOrder'
    BY <1>4 DEF IInv, EventsInOrder, Fail
  <1> QED
    BY <1>3, <1>7, <1>8, <1>9, <1>10, <1>11, <1>12 DEF IInv

\* The provider sees a 200 whose request confirmed every event.
LEMMA ReceiveStep ==
  ASSUME IInv, NEW r \in Requests, Receive(r), UNCHANGED durabilityVars
  PROVE  IInv'
  <1>1. Goto(r, "done") /\ "done" \in RequestStages \ Running /\ stage[r] = "written"
    BY DEF Receive, RequestStages, Running
  <1>2. /\ stage' \in [Requests -> RequestStages] /\ stage'[r] = "done"
        /\ \A q \in Requests \ {r} : stage'[q] = stage[q]
    BY <1>1 DEF IInv, TypeOK, Goto
  <1>3. CapacityInv'
    BY <1>1, SlotKept DEF Receive, IInv, Running
  <1>4. \A e, c : InJournal(e, c)' <=> InJournal(e, c)
    BY DEF InJournal, Receive
  <1>5. \A e : Backed(e)' <=> Backed(e)
    BY <1>4 DEF Backed
  <1>6. LocalInv(r)' /\ ConfirmedBy(r)'
    BY <1>2, <1>5 DEF IInv, RequestInv, LocalInv, ConfirmedInv, ConfirmedBy, Receive
  <1>7. RequestInv' /\ ConfirmedInv'
    BY <1>2, <1>5, <1>6, OneRequest DEF Receive
  <1>8. TypeOK'
    BY <1>2 DEF IInv, TypeOK, Receive, durabilityVars
  <1>9. ConsumeInv' /\ NothingIsSkipped' /\ LateInv'
    <2>1. ConsumeInv' /\ NothingIsSkipped'
      BY DEF IInv, ConsumeInv, NothingIsSkipped, durabilityVars, Receive
    <2>2. LateInv'
      BY <1>5 DEF IInv, LateInv, Receive
    <2> QED
      BY <2>1, <2>2
  <1>10. EventsInOrder'
    BY <1>4 DEF IInv, EventsInOrder, Receive
  <1>11. \A i \in 1..Len(Events) : Backed(Events[i])
    BY <1>1 DEF IInv, RequestInv, LocalInv, ConfirmedInv, ConfirmedBy
  <1>12. AcknowledgedIsDurable'
    BY <1>4, <1>11, EventFacts DEF AcknowledgedIsDurable, Backed
  <1> QED
    BY <1>3, <1>7, <1>8, <1>9, <1>10, <1>12 DEF IInv

LEMMA LateAppendStep ==
  ASSUME IInv, NEW s \in lateAppends, LateAppend(s), UNCHANGED durabilityVars
  PROVE  IInv'
  <1>1. s \in Slices /\ Write(s)
    BY DEF IInv, TypeOK, LateAppend
  <1>2. PICK k \in 1..Len(Events) :
           s.event = Events[k] /\ \A i \in 1..(k - 1) : Backed(Events[i])
    BY DEF IInv, LateInv
  <1>3. EventsInOrder'
    BY <1>1, <1>2, WriteInOrder DEF IInv
  <1>4. AcknowledgedIsDurable' /\ ConsumeInv' /\ NothingIsSkipped'
    BY <1>1, WriteKeeps DEF LateAppend, durabilityVars
  <1>5. \A e : Backed(e) => Backed(e)'
    BY <1>1, WriteEffect DEF IInv
  <1>6. journal' \in [Cells -> Seq(EventSet)]
    BY <1>1, WriteEffect DEF IInv
  <1>7. TypeOK'
    BY <1>6 DEF IInv, TypeOK, LateAppend, requestVars, durabilityVars
  <1>8. CapacityInv'
    BY DEF IInv, CapacityInv, Serving, LateAppend, requestVars
  <1>9. LateInv'
    BY <1>5 DEF IInv, LateInv, LateAppend
  <1>10. RequestInv'
    BY DEF IInv, RequestInv, LocalInv, LateAppend, requestVars
  <1>11. ConfirmedInv'
    BY <1>5 DEF IInv, ConfirmedInv, ConfirmedBy, LateAppend, requestVars
  <1> QED
    BY <1>3, <1>4, <1>7, <1>8, <1>9, <1>10, <1>11 DEF IInv

LEMMA MoveHomeStep ==
  ASSUME IInv, MoveHome, UNCHANGED durabilityVars
  PROVE  IInv'
  <1>1. home' \in Placements
    BY EventFacts DEF MoveHome, IInv, TypeOK, Placements
  <1>2. TypeOK'
    BY <1>1 DEF IInv, TypeOK, MoveHome, requestVars, durabilityVars
  <1>3. CapacityInv'
    BY DEF IInv, CapacityInv, Serving, MoveHome, requestVars
  <1>4. RequestInv'
    BY DEF IInv, RequestInv, LocalInv, MoveHome, requestVars
  <1>5. ConfirmedInv'
    BY JournalStays DEF IInv, ConfirmedInv, ConfirmedBy, MoveHome, requestVars
  <1> QED
    BY <1>2, <1>3, <1>4, <1>5, JournalStays DEF IInv, MoveHome

-----------------------------------------------------------------------------
(* The consumers                                                           *)

\* A consumer leaves the handler, the provider and the journals alone.
LEMMA IngressKept ==
  ASSUME IInv, UNCHANGED ingressVars
  PROVE  /\ RequestInv' /\ CapacityInv' /\ ConfirmedInv' /\ LateInv'
         /\ AcknowledgedIsDurable' /\ EventsInOrder'
  <1> USE DEF ingressVars
  <1>1. \A f, d : InJournal(f, d)' <=> InJournal(f, d)
    BY DEF InJournal
  <1>2. \A f : Backed(f)' <=> Backed(f)
    BY <1>1 DEF Backed
  <1>3. EventsInOrder'
    BY <1>1 DEF IInv, EventsInOrder
  <1>4. AcknowledgedIsDurable'
    BY <1>1 DEF IInv, AcknowledgedIsDurable
  <1>5. LateInv'
    BY <1>2 DEF IInv, LateInv
  <1>6. ConfirmedInv'
    BY <1>2 DEF IInv, ConfirmedInv, ConfirmedBy
  <1>7. RequestInv' /\ CapacityInv'
    BY DEF IInv, RequestInv, LocalInv, CapacityInv, Serving
  <1> QED
    BY <1>3, <1>4, <1>5, <1>6, <1>7

LEMMA ApplyStep ==
  ASSUME IInv, NEW c \in Cells, Apply(c)
  PROVE  IInv'
  <1>1. PICK e \in EventSet : e = journal[c][offset[c] + 1]
    BY DEF Apply, IInv, TypeOK
  <1>2. /\ applied' \in [Cells -> SUBSET EventSet]
        /\ applied'[c] = applied[c] \cup {e}
        /\ \A d \in Cells \ {c} : applied'[d] = applied[d]
    BY <1>1 DEF Apply, IInv, TypeOK
  <1>3. /\ consuming' \in [Cells -> ConsumeStages] /\ consuming'[c] = "applied"
        /\ \A d \in Cells \ {c} : consuming'[d] = consuming[d]
    BY DEF Apply, IInv, TypeOK, ConsumeStages
  <1>4. TypeOK'
    BY <1>2, <1>3 DEF IInv, TypeOK, Apply, ingressVars, requestVars
  <1>5. ConsumeInv'
    BY <1>1, <1>2, <1>3 DEF IInv, ConsumeInv, Apply, ingressVars
  <1>6. NothingIsSkipped'
    BY <1>2 DEF IInv, NothingIsSkipped, Apply, ingressVars
  <1> QED
    BY <1>4, <1>5, <1>6, IngressKept DEF IInv, Apply

LEMMA CommitOffsetStep ==
  ASSUME IInv, NEW c \in Cells, CommitOffset(c)
  PROVE  IInv'
  <1>1. /\ offset' \in [Cells -> Nat] /\ offset'[c] = offset[c] + 1
        /\ \A d \in Cells \ {c} : offset'[d] = offset[d]
        /\ offset[c] \in Nat /\ Len(journal[c]) \in Nat
    BY DEF CommitOffset, IInv, TypeOK
  <1>2. /\ consuming' \in [Cells -> ConsumeStages] /\ consuming'[c] = "idle"
        /\ \A d \in Cells \ {c} : consuming'[d] = consuming[d]
    BY DEF CommitOffset, IInv, TypeOK, ConsumeStages
  <1>3. TypeOK'
    BY <1>1, <1>2 DEF IInv, TypeOK, CommitOffset, ingressVars, requestVars
  <1>4. offset[c] < Len(journal[c]) /\ journal[c][offset[c] + 1] \in applied[c]
    BY DEF CommitOffset, IInv, ConsumeInv
  <1>5. ConsumeInv'
    BY <1>1, <1>2, <1>4 DEF IInv, ConsumeInv, CommitOffset, ingressVars
  <1>6. NothingIsSkipped'
    <2>1. SUFFICES ASSUME NEW d \in Cells, NEW n \in 1..offset'[d]
                   PROVE  journal[d][n] \in applied[d]
      BY DEF NothingIsSkipped, CommitOffset, ingressVars
    <2>2. CASE d = c /\ n = offset[c] + 1
      BY <1>4, <2>2
    <2>3. CASE n \in 1..offset[d]
      BY <2>3 DEF IInv, NothingIsSkipped
    <2> QED
      BY <1>1, <2>2, <2>3
  <1> QED
    BY <1>3, <1>5, <1>6, IngressKept DEF IInv, CommitOffset

LEMMA ConsumeFailStep ==
  ASSUME IInv, NEW c \in Cells, ConsumeFail(c)
  PROVE  IInv'
  <1>1. /\ consuming' \in [Cells -> ConsumeStages] /\ consuming'[c] = "idle"
        /\ \A d \in Cells \ {c} : consuming'[d] = consuming[d]
    BY DEF ConsumeFail, IInv, TypeOK, ConsumeStages
  <1>2. TypeOK'
    BY <1>1 DEF IInv, TypeOK, ConsumeFail, ingressVars, requestVars
  <1>3. ConsumeInv' /\ NothingIsSkipped'
    BY <1>1 DEF IInv, ConsumeInv, NothingIsSkipped, ConsumeFail, ingressVars
  <1> QED
    BY <1>2, <1>3, IngressKept DEF IInv, ConsumeFail


-----------------------------------------------------------------------------
(* The theorems                                                            *)

LEMMA InitInvariant ==
  ASSUME Init
  PROVE  IInv
  <1> USE DEF Init, IngressInit, DurabilityInit
  <1>1. TypeOK
    <2>1. home \in Placements
      BY EventFacts DEF Placements
    <2>2. slices \in [Requests -> Seq(Slices)] /\ journal \in [Cells -> Seq(EventSet)]
      OBVIOUS
    <2> QED
      BY <2>1, <2>2 DEF TypeOK, RequestStages, ConsumeStages
  <1>2. RequestInv
    BY EventFacts DEF RequestInv, LocalInv
  <1>3. Serving = {}
    BY DEF Serving, Running
  <1>4. CapacityInv
    BY <1>3, FS_EmptySet DEF CapacityInv
  <1>5. ConfirmedInv /\ LateInv /\ ConsumeInv
    BY DEF ConfirmedInv, ConfirmedBy, LateInv, ConsumeInv
  <1>6. AcknowledgedIsDurable /\ EventsInOrder /\ NothingIsSkipped
    BY DEF AcknowledgedIsDurable, EventsInOrder, NothingIsSkipped
  <1> QED
    BY <1>1, <1>2, <1>4, <1>5, <1>6 DEF IInv

LEMMA StepInvariant ==
  ASSUME IInv, [Next]_vars
  PROVE  IInv'
  <1>1. CASE IngressNext /\ UNCHANGED durabilityVars
    <2>1. ASSUME NEW r \in Requests,
                 \/ Enter(r) \/ AtCapacity(r) \/ Bind(r) \/ Store(r) \/ Confirm(r)
                 \/ Fail(r) \/ Answer(r) \/ Receive(r) \/ LoseAnswer(r)
          PROVE  IInv'
      BY <1>1, <2>1, EnterStep, AtCapacityStep, BindStep, StoreStep, ConfirmStep, FailStep,
         AnswerStep, ReceiveStep, LoseAnswerStep
    <2> QED
      BY <1>1, <2>1, LateAppendStep, MoveHomeStep DEF IngressNext
  <1>2. CASE DurabilityNext
    BY <1>2, ApplyStep, CommitOffsetStep, ConsumeFailStep DEF DurabilityNext
  <1>3. CASE UNCHANGED vars
    <2> USE <1>3 DEF vars, ingressVars, requestVars, durabilityVars
    <2>1. TypeOK' /\ ConsumeInv' /\ NothingIsSkipped'
      BY DEF IInv, TypeOK, ConsumeInv, NothingIsSkipped
    <2> QED
      BY <2>1, IngressKept DEF IInv
  <1> QED
    BY <1>1, <1>2, <1>3 DEF Next

\* The inductive invariant holds of every behaviour.
THEOREM Invariance == Spec => []IInv
  BY InitInvariant, StepInvariant, PTL DEF Spec

\* The variables stay in their types: a request gives back a slot only if it has
\* one.
THEOREM TypeCorrect == Spec => []TypeOK
  <1>1. IInv => TypeOK
    BY DEF IInv
  <1> QED
    BY <1>1, Invariance, PTL

\* A 200 that the provider has seen means that every event of its callback is in
\* a journal (handler.go: appends are confirmed before the 200 is written).
THEOREM AcknowledgedDurable == Spec => []AcknowledgedIsDurable
  <1>1. IInv => AcknowledgedIsDurable
    BY DEF IInv
  <1> QED
    BY <1>1, Invariance, PTL

\* No event overtakes an earlier one of its callback within a cell, with
\* requests that overlap, appends that land late, and moves of the asset.
THEOREM InOrder == Spec => []EventsInOrder
  <1>1. IInv => EventsInOrder
    BY DEF IInv
  <1> QED
    BY <1>1, Invariance, PTL

\* The records before a committed offset have their effect
\* (internal/events/durability.go).
THEOREM NoneSkipped == Spec => []NothingIsSkipped
  <1>1. IInv => NothingIsSkipped
    BY DEF IInv
  <1> QED
    BY <1>1, Invariance, PTL

-----------------------------------------------------------------------------
(* The promise of a callback                                               *)

\* The mapping of the refinement.
Kept == [c \in Cells |-> InJournalOf(c)]

LEMMA KeptFacts ==
  ASSUME NEW c \in Cells, NEW e
  PROVE  /\ e \in Kept[c] <=> InJournal(e, c)
         /\ Delivery!Durable(e) <=> Backed(e)
  BY DEF Kept, InJournalOf, InJournal, Delivery!Durable, Backed

\* An append keeps one event, whose predecessors are kept.
LEMMA WriteDelivers ==
  ASSUME IInv, NEW s \in Slices, Write(s), NEW k \in 1..Len(Events), s.event = Events[k],
         \A i \in 1..(k - 1) : Backed(Events[i]), UNCHANGED <<applied, acknowledged>>
  PROVE  Delivery!Next
  <1> DEFINE c == s.cell
  <1>1. /\ c \in Cells /\ journal \in [Cells -> Seq(EventSet)]
        /\ journal' \in [Cells -> Seq(EventSet)]
        /\ \A d \in Cells : d # c => journal'[d] = journal[d]
        /\ Len(journal'[c]) = Len(journal[c]) + 1
        /\ journal'[c][Len(journal[c]) + 1] = Events[k]
        /\ \A n \in 1..Len(journal[c]) : journal'[c][n] = journal[c][n]
    BY WriteEffect DEF IInv, TypeOK
  <1> HIDE DEF c
  <1>2. InJournalOf(c)' = InJournalOf(c) \cup {Events[k]}
    <2>1. Len(journal[c]) \in Nat
      BY <1>1
    <2>2. 1..Len(journal'[c]) = (1..Len(journal[c])) \cup {Len(journal[c]) + 1}
      BY <1>1, <2>1
    <2>3. Events[k] \in InJournalOf(c)'
      <3>1. Len(journal[c]) + 1 \in 1..Len(journal'[c])
        BY <2>2
      <3> QED
        BY <1>1, <3>1 DEF InJournalOf
    <2>4. InJournalOf(c) \subseteq InJournalOf(c)'
      BY <1>1, <2>2 DEF InJournalOf
    <2>5. ASSUME NEW e \in InJournalOf(c)' PROVE e \in InJournalOf(c) \cup {Events[k]}
      <3> PICK n \in 1..Len(journal'[c]) : e = journal'[c][n]
        BY <2>5 DEF InJournalOf
      <3> QED
        BY <1>1, <2>2 DEF InJournalOf
    <2> QED
      BY <2>3, <2>4, <2>5
  <1>3. \A d \in Cells \ {c} : InJournalOf(d)' = InJournalOf(d)
    BY <1>1 DEF InJournalOf
  <1>4. Kept' = [Kept EXCEPT ![c] = @ \cup {Events[k]}]
    BY <1>1, <1>2, <1>3 DEF Kept
  <1>5. \A i \in 1..(k - 1) : Delivery!Durable(Events[i])
    BY <1>1, KeptFacts
  <1>6. Delivery!Keep(c, k)
    BY <1>4, <1>5 DEF Delivery!Keep, Kept
  <1> QED
    BY <1>1, <1>6 DEF Delivery!Next

\* A step that leaves the journals, the effects and the provider alone stutters.
LEMMA Stutters ==
  ASSUME UNCHANGED <<journal, applied, acknowledged>>
  PROVE  UNCHANGED Delivery!vars
  BY DEF Delivery!vars, InJournalOf

\* A consumer's effect comes after those of earlier events in the journal.
LEMMA ApplyDelivers ==
  ASSUME IInv, NEW c \in Cells, Apply(c)
  PROVE  Delivery!Next
  <1> DEFINE n == offset[c] + 1
  <1>1. /\ journal[c] \in Seq(EventSet) /\ offset[c] \in Nat
        /\ applied \in [Cells -> SUBSET EventSet] /\ offset[c] < Len(journal[c])
    BY DEF Apply, IInv, TypeOK
  <1>2. n \in 1..Len(journal[c])
    BY <1>1
  <1>3. PICK k \in 1..Len(Events) : journal[c][n] = Events[k]
    <2>1. journal[c][n] \in EventSet
      BY <1>1, <1>2
    <2> HIDE DEF n
    <2> QED
      BY <2>1, EventFacts
  <1>4. applied' = [applied EXCEPT ![c] = @ \cup {Events[k]}]
    <2>1. applied' = [applied EXCEPT ![c] = applied[c] \cup {journal[c][n]}]
      BY <1>1 DEF Apply
    <2> HIDE DEF n
    <2> QED
      BY <1>1, <1>3, <2>1
  <1>5. Events[k] \in Kept[c]
    BY <1>2, <1>3, KeptFacts DEF InJournal
  <1>6. ASSUME NEW i \in 1..(k - 1)
        PROVE  Events[i] \in applied[c] \/ \E d \in Cells \ {c} : Events[i] \in Kept[d]
    <2>1. i \in 1..Len(Events) /\ i < k
      BY EventFacts
    <2>2. \/ \E m \in 1..(n - 1) : journal[c][m] = Events[i]
          \/ \E d \in Cells \ {c} : InJournal(Events[i], d)
      BY <1>2, <1>3, <2>1 DEF IInv, EventsInOrder
    <2>3. \A m \in 1..(n - 1) : journal[c][m] \in applied[c]
      BY <1>1 DEF IInv, NothingIsSkipped
    <2>4. CASE \E m \in 1..(n - 1) : journal[c][m] = Events[i]
      BY <2>3, <2>4
    <2>5. CASE \E d \in Cells \ {c} : InJournal(Events[i], d)
      BY <2>5, KeptFacts
    <2> QED
      BY <2>2, <2>4, <2>5
  <1>7. UNCHANGED <<Kept, acknowledged>>
    BY DEF Apply, ingressVars, Kept, InJournalOf
  <1>8. Delivery!Effect(c, k)
    BY <1>4, <1>5, <1>6, <1>7 DEF Delivery!Effect, Kept
  <1> QED
    BY <1>8 DEF Delivery!Next

\* A 200 is received when all the events are in the journals.
LEMMA ReceiveDelivers ==
  ASSUME IInv, NEW r \in Requests, Receive(r), UNCHANGED durabilityVars
  PROVE  Delivery!Next
  <1>1. \A i \in 1..Len(Events) : Backed(Events[i])
    BY DEF IInv, RequestInv, LocalInv, ConfirmedInv, ConfirmedBy, Receive
  <1>2. \A i \in 1..Len(Events) : Delivery!Durable(Events[i])
    BY <1>1, KeptFacts DEF Backed
  <1>3. acknowledged' = TRUE /\ UNCHANGED <<Kept, applied>>
    BY DEF Receive, durabilityVars, Kept, InJournalOf
  <1>4. Delivery!Acknowledge
    BY <1>2, <1>3 DEF Delivery!Acknowledge, Kept
  <1> QED
    BY <1>4 DEF Delivery!Next

\* Repetitions, moves, late appends, lost answers and consumers that fail add
\* nothing to the promise: the events become durable in their order, the provider
\* hears of it when all of them are, and effects follow the order within a cell.
THEOREM Refinement == Spec => ImplementsDelivery
  <1>1. Init => Delivery!Init
    <2> SUFFICES ASSUME Init PROVE Delivery!Init
      OBVIOUS
    <2>1. \A c \in Cells : journal[c] = <<>>
      BY DEF Init, IngressInit
    <2>2. \A c \in Cells : InJournalOf(c) = {}
      BY <2>1 DEF InJournalOf
    <2> QED
      BY <2>2 DEF Init, IngressInit, DurabilityInit, Delivery!Init
  <1>2. IInv /\ [Next]_vars => [Delivery!Next]_(Delivery!vars)
    <2> SUFFICES ASSUME IInv, [Next]_vars PROVE Delivery!Next \/ UNCHANGED Delivery!vars
      OBVIOUS
    <2>1. ASSUME NEW r \in Requests, Store(r), UNCHANGED durabilityVars PROVE Delivery!Next
      <3>1. stage[r] = "waiting" /\ Write(NextSlice(r)) /\ UNCHANGED <<applied, acknowledged>>
        BY <2>1 DEF Store, durabilityVars
      <3>2. /\ NextSlice(r) \in Slices /\ appended[r] + 1 \in 1..Len(Events)
            /\ NextSlice(r).event = Events[appended[r] + 1]
            /\ \A i \in 1..((appended[r] + 1) - 1) : Backed(Events[i])
        BY <3>1, NextSliceFacts
      <3> QED
        BY <3>1, <3>2, WriteDelivers
    <2>2. ASSUME NEW s \in lateAppends, LateAppend(s), UNCHANGED durabilityVars PROVE Delivery!Next
      <3>1. s \in Slices /\ Write(s) /\ UNCHANGED <<applied, acknowledged>>
        BY <2>2 DEF LateAppend, IInv, TypeOK, durabilityVars
      <3>2. PICK k \in 1..Len(Events) :
               s.event = Events[k] /\ \A i \in 1..(k - 1) : Backed(Events[i])
        BY DEF IInv, LateInv
      <3> QED
        BY <3>1, <3>2, WriteDelivers
    <2>3. ASSUME NEW r \in Requests,
                 \/ Enter(r) \/ AtCapacity(r) \/ Bind(r) \/ Confirm(r)
                 \/ Fail(r) \/ Answer(r) \/ LoseAnswer(r),
                 UNCHANGED durabilityVars
          PROVE  UNCHANGED Delivery!vars
      <3>1. UNCHANGED <<journal, acknowledged>>
        BY <2>3 DEF Enter, AtCapacity, Bind, Confirm, Fail, Answer, LoseAnswer
      <3> QED
        BY <2>3, <3>1, Stutters DEF durabilityVars
    <2>4. ASSUME MoveHome, UNCHANGED durabilityVars PROVE UNCHANGED Delivery!vars
      BY <2>4, Stutters DEF MoveHome, durabilityVars
    <2>5. CASE IngressNext /\ UNCHANGED durabilityVars
      BY <2>1, <2>2, <2>3, <2>4, <2>5, ReceiveDelivers DEF IngressNext
    <2>6. ASSUME NEW c \in Cells, CommitOffset(c) \/ ConsumeFail(c) PROVE UNCHANGED Delivery!vars
      BY <2>6, Stutters DEF CommitOffset, ConsumeFail, ingressVars
    <2>7. CASE DurabilityNext
      BY <2>6, <2>7, ApplyDelivers DEF DurabilityNext
    <2>8. CASE UNCHANGED vars
      BY <2>8, Stutters DEF vars, ingressVars, durabilityVars
    <2> QED
      BY <2>5, <2>7, <2>8 DEF Next
  <1> QED
    BY <1>1, <1>2, Invariance, PTL DEF Spec, ImplementsDelivery, Delivery!Spec
=============================================================================
