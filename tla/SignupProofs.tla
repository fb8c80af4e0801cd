---------------------------- MODULE SignupProofs ----------------------------
(***************************************************************************)
(* Safety of SignupAttempts for any number of calls, attempts, fragments   *)
(* and configurations, and for clocks that differ by any amount: the       *)
(* invariant SInv is inductive, and the service implements SignupStore.    *)
(* Only Apply changes records and history; what it writes follows the      *)
(* record that its compare-and-set compares, so the lemmas are about       *)
(* Follows and Extends, and about what else may change under a call.       *)
(***************************************************************************)
EXTENDS SignupAttempts, TLAPS

-----------------------------------------------------------------------------
(* Records                                                                 *)

\* Closing a record, and a view of it.  The provers update one field at a time.
LEMMA ClosedFields ==
  ASSUME NEW r \in Records, NEW status
  PROVE  /\ \A t : [Closed(r, status) EXCEPT !.updated = t]
              = [profile |-> r.profile, expires |-> r.expires, updated |-> t,
                 version |-> r.version + 1, status |-> status,
                 code |-> r.code, session |-> r.session]
         /\ Closed(View(r), status)
              = [version |-> r.version + 1, status |-> status,
                 code |-> r.code, session |-> r.session]
  <1> DEFINE q1 == [r EXCEPT !.status = status]
             q2 == [q1 EXCEPT !.version = @ + 1]
             v0 == View(r)
             v1 == [v0 EXCEPT !.status = status]
             v2 == [v1 EXCEPT !.version = @ + 1]
  <1>1. /\ q1 = [profile |-> r.profile, expires |-> r.expires, updated |-> r.updated,
                 version |-> r.version, status |-> status,
                 code |-> r.code, session |-> r.session]
        /\ v0 = [version |-> r.version, status |-> r.status,
                 code |-> r.code, session |-> r.session]
    BY DEF Records, View
  <1> HIDE DEF q1, v0
  <1>2. /\ q2 = [profile |-> r.profile, expires |-> r.expires, updated |-> r.updated,
                 version |-> r.version + 1, status |-> status,
                 code |-> r.code, session |-> r.session]
        /\ v1 = [version |-> r.version, status |-> status,
                 code |-> r.code, session |-> r.session]
    BY <1>1
  <1> HIDE DEF q2, v1
  <1>3. /\ \A t : [q2 EXCEPT !.updated = t]
              = [profile |-> r.profile, expires |-> r.expires, updated |-> t,
                 version |-> r.version + 1, status |-> status,
                 code |-> r.code, session |-> r.session]
        /\ v2 = [version |-> r.version + 1, status |-> status,
                 code |-> r.code, session |-> r.session]
    BY <1>2
  <1>4. q1.version = r.version /\ v1.version = v0.version
    BY <1>1, <1>2
  <1>5. q2 = Closed(r, status)
    BY DEF q2, q1, Closed
  <1>6. v2 = Closed(View(r), status)
    BY DEF v1, v0, Closed
  <1> HIDE DEF v2
  <1> QED
    BY <1>3, <1>5, <1>6

\* Adding a fragment to a record, and to a view of it.
LEMMA FragmentFields ==
  ASSUME NEW r \in Records, NEW f
  PROVE  LET code == IF f \in Codes THEN f ELSE r.code
             session == IF f \in Sessions THEN f ELSE r.session
         IN /\ \A t : [WithFragment(r, f) EXCEPT !.updated = t]
                 = [profile |-> r.profile, expires |-> r.expires, updated |-> t,
                    version |-> r.version + 1, status |-> ExpectedState(code, session),
                    code |-> code, session |-> session]
            /\ WithFragment(View(r), f)
                 = [version |-> r.version + 1, status |-> ExpectedState(code, session),
                    code |-> code, session |-> session]
  <1> DEFINE code == IF f \in Codes THEN f ELSE r.code
             session == IF f \in Sessions THEN f ELSE r.session
             status == ExpectedState(code, session)
             Stored(u, v, x, c, s) ==
               [profile |-> r.profile, expires |-> r.expires, updated |-> u,
                version |-> v, status |-> x, code |-> c, session |-> s]
             Shown(v, x, c, s) == [version |-> v, status |-> x, code |-> c, session |-> s]
             v0 == View(r)
             q1 == [r EXCEPT !.code = code]
             v1 == [v0 EXCEPT !.code = code]
             q2 == [q1 EXCEPT !.session = session]
             v2 == [v1 EXCEPT !.session = session]
             q3 == [q2 EXCEPT !.status = status]
             v3 == [v2 EXCEPT !.status = status]
             q4 == [q3 EXCEPT !.version = @ + 1]
             v4 == [v3 EXCEPT !.version = @ + 1]
  <1>1. /\ WithFragment(r, f) = q4
        /\ v0.code = r.code /\ v0.session = r.session
    BY DEF WithFragment, View
  <1>2. WithFragment(View(r), f) = v4
    BY <1>1 DEF WithFragment
  <1> HIDE DEF code, session, status
  <1>3. v0 = Shown(r.version, r.status, r.code, r.session)
    BY DEF View
  <1> HIDE DEF v0
  <1>4. /\ q1 = Stored(r.updated, r.version, r.status, code, r.session)
        /\ v1 = Shown(r.version, r.status, code, r.session)
    BY <1>3 DEF Records
  <1> HIDE DEF q1, v1
  <1>5. /\ q2 = Stored(r.updated, r.version, r.status, code, session)
        /\ v2 = Shown(r.version, r.status, code, session)
    BY <1>4
  <1> HIDE DEF q2, v2
  <1>6. /\ q3 = Stored(r.updated, r.version, status, code, session)
        /\ v3 = Shown(r.version, status, code, session)
    BY <1>5
  <1> HIDE DEF q3, v3
  <1>7. /\ q4 = Stored(r.updated, r.version + 1, status, code, session)
        /\ v4 = Shown(r.version + 1, status, code, session)
    BY <1>6
  <1> HIDE DEF q4, v4
  <1>8. \A t : [q4 EXCEPT !.updated = t] = Stored(t, r.version + 1, status, code, session)
    BY <1>7
  <1> QED
    BY <1>1, <1>2, <1>7, <1>8 DEF code, session, status

\* What a new fragment makes of a record is one that the service reads back.
LEMMA FragmentAdded ==
  ASSUME NEW r \in Records, NEW f \in Fragments, NEW t \in Nat,
         Valid(r), r.status \notin Terminal, Prior(r, f) = None, t < r.expires
  PROVE  LET new == [WithFragment(r, f) EXCEPT !.updated = t]
         IN /\ new \in Records
            /\ Valid(new)
            /\ Follows(new, r)
            /\ new.status \notin Terminal
            /\ new.code = IF f \in Codes THEN f ELSE r.code
  <1> DEFINE code == IF f \in Codes THEN f ELSE r.code
             session == IF f \in Sessions THEN f ELSE r.session
             new == [profile |-> r.profile, expires |-> r.expires, updated |-> t,
                     version |-> r.version + 1, status |-> ExpectedState(code, session),
                     code |-> code, session |-> session]
  <1>1. new = [WithFragment(r, f) EXCEPT !.updated = t]
    BY FragmentFields
  <1>2. /\ code \in Codes \cup {None} /\ session \in Sessions \cup {None}
        /\ ExpectedState(code, session) \in States \ Terminal
    BY DEF ExpectedState, States, Terminal, Records, Fragments
  <1>3. FactCount(new) = r.version + 1 /\ FactCount(new) \in 1 .. 4
    BY <1>2, FragmentAssumption DEF FactCount, One, Valid, Prior, Records, Fragments
  <1>4. new \in Records
    BY <1>2, <1>3 DEF Records
  <1>5. Valid(new)
    BY <1>2, <1>3, <1>4 DEF Valid, Terminal, Records
  <1>6. View(new) = WithFragment(View(r), f)
    BY FragmentFields DEF View
  <1>7. Follows(new, r)
    BY <1>6 DEF Follows
  <1> HIDE DEF new
  <1>8. new.status \notin Terminal /\ new.code = code
    BY <1>2 DEF new
  <1> QED
    BY <1>1, <1>4, <1>5, <1>7, <1>8

\* What closing makes of a record is one that the service reads back.
LEMMA AttemptClosed ==
  ASSUME NEW r \in Records, NEW t \in Nat, Valid(r), r.status \notin Terminal
  PROVE  LET new == [Closed(r, IF r.expires <= t THEN "EXPIRED" ELSE "CANCELLED")
                       EXCEPT !.updated = t]
         IN /\ new \in Records
            /\ Valid(new)
            /\ Follows(new, r)
            /\ new.status \in Terminal
            /\ new.code = r.code
  <1> DEFINE status == IF r.expires <= t THEN "EXPIRED" ELSE "CANCELLED"
             new == [profile |-> r.profile, expires |-> r.expires, updated |-> t,
                     version |-> r.version + 1, status |-> status,
                     code |-> r.code, session |-> r.session]
  <1>1. new = [Closed(r, status) EXCEPT !.updated = t]
    BY ClosedFields
  <1>2. status \in Terminal /\ status \in States
    BY DEF Terminal, States
  <1>3. FactCount(new) = r.version + 1 /\ FactCount(new) \in 1 .. 4
    BY <1>2 DEF FactCount, One, Valid, Records
  <1>4. new \in Records
    BY <1>2, <1>3 DEF Records
  <1>5. Valid(new)
    BY <1>2, <1>3, <1>4 DEF Valid, Terminal, Records
  <1>6. View(new) = Closed(View(r), status)
    BY ClosedFields DEF View
  <1>7. Follows(new, r)
    BY <1>2, <1>6 DEF Follows
  <1> HIDE DEF new
  <1>8. new.status \in Terminal /\ new.code = r.code
    BY <1>2 DEF new
  <1> QED
    BY <1>1, <1>4, <1>5, <1>7, <1>8

\* A record that follows another extends all that the other extends.
LEMMA FollowsExtends ==
  ASSUME NEW r \in Records, NEW s \in Records, NEW q \in Records,
         Follows(s, r), Extends(r, q)
  PROVE  Extends(s, q) /\ s.version = r.version + 1
  <1>1. /\ r.version \in Nat /\ q.version \in Nat /\ s.version \in Nat
        /\ View(s).version = s.version /\ View(s).code = s.code
        /\ View(s).session = s.session
    BY DEF Records, View
  <1>2. q.status \notin Terminal
    BY DEF Follows, Extends, View
  <1>3. /\ s.version = r.version + 1
        /\ r.code # None => s.code = r.code
        /\ r.session # None => s.session = r.session
    <2>1. CASE \E f \in Fragments : Prior(r, f) = None /\ View(s) = WithFragment(View(r), f)
      <3> PICK f \in Fragments : Prior(r, f) = None /\ View(s) = WithFragment(View(r), f)
        BY <2>1
      <3>1. /\ View(s).version = r.version + 1
            /\ View(s).code = IF f \in Codes THEN f ELSE r.code
            /\ View(s).session = IF f \in Sessions THEN f ELSE r.session
        BY FragmentFields
      <3> QED
        BY <1>1, <3>1, FragmentAssumption DEF Prior, Fragments
    <2>2. CASE \E t \in Terminal : View(s) = Closed(View(r), t)
      <3> PICK t \in Terminal : View(s) = Closed(View(r), t)
        BY <2>2
      <3>1. /\ View(s).version = r.version + 1
            /\ View(s).code = r.code
            /\ View(s).session = r.session
        BY ClosedFields
      <3> QED
        BY <1>1, <3>1
    <2> QED
      BY <2>1, <2>2 DEF Follows
  <1> QED
    BY <1>1, <1>2, <1>3 DEF Extends

\* A record extends itself.
LEMMA ExtendsItself ==
  ASSUME NEW r \in Records
  PROVE  Extends(r, r)
  BY DEF Extends, Records

-----------------------------------------------------------------------------
(* Steps                                                                   *)

\* The clock of the service returns a natural number.
LEMMA ClockValues == ASSUME TypeOK PROVE \A t \in Clock : t \in Nat
  BY DEF Clock

\* What a row is, at the reads and at the comparison.
LEMMA RowRead ==
  ASSUME SInv, NEW c \in Callers, Loaded(c)
  PROVE  /\ req[c] \in Requests
         /\ req[c].attempt \in Attempts
         /\ Row(c) \in Records /\ Valid(Row(c))
         /\ <<req[c].attempt, Row(c)>> \in history
         /\ InCustody(req[c].attempt, Row(c))
  <1>1. req[c] \in Requests
    BY DEF SInv, TypeOK, CallInv, Loaded
  <1>2. req[c].attempt \in Attempts
    BY <1>1, RequestAssumption
  <1>3. <<req[c].attempt, Row(c)>> \in history
    BY <1>2 DEF SInv, HistoryInv, Loaded, Row
  <1>4. InCustody(req[c].attempt, Row(c))
    <2> DEFINE h == <<req[c].attempt, Row(c)>>
    <2>1. InCustody(h[1], h[2])
      BY <1>3 DEF SInv, HistoryInv
    <2> QED
      BY <2>1
  <1> QED
    BY <1>1, <1>2, <1>3, <1>4 DEF SInv, TypeOK, Loaded, Row

\* The record that begin sends is one that the service reads back.
LEMMA InsertSends ==
  ASSUME SInv, NEW c \in Callers, Insert(c)
  PROVE  \E new \in Records :
           /\ Valid(new) /\ View(new) = FirstView /\ new.code = None
           /\ Send(c, req[c].attempt, None, new)
           /\ seen' = [seen EXCEPT ![c] = new]
  <1>1. req[c] \in Requests
    BY DEF SInv, TypeOK, CallInv, Insert
  <1>2. req[c].profile \in Profiles
    BY <1>1, RequestAssumption
  <1> PICK now \in Clock :
        LET r == [profile |-> req[c].profile, expires |-> Expiry(req[c].profile, now),
                  updated |-> now, version |-> 1, status |-> "AWAITING_CALLBACK",
                  code |-> None, session |-> None]
        IN /\ Prepared(req[c].profile, now)
           /\ Send(c, req[c].attempt, None, r)
           /\ seen' = [seen EXCEPT ![c] = r]
    BY DEF Insert
  <1> DEFINE r == [profile |-> req[c].profile, expires |-> Expiry(req[c].profile, now),
                   updated |-> now, version |-> 1, status |-> "AWAITING_CALLBACK",
                   code |-> None, session |-> None]
  <1>3. /\ now \in Nat /\ Expiry(req[c].profile, now) \in Nat
        /\ now < Expiry(req[c].profile, now)
    BY <1>2, ClockValues, ClockAssumption DEF Expiry, Prepared, SInv
  <1>4. r \in Records
    BY <1>2, <1>3 DEF Records, States
  <1>5. Valid(r)
    BY <1>3 DEF Valid, Terminal, ExpectedState, FactCount, One
  <1>6. View(r) = FirstView
    BY DEF View, FirstView
  <1> QED
    BY <1>4, <1>5, <1>6

\* The record that receive sends follows the one that it was computed from.
LEMMA CommitSends ==
  ASSUME SInv, NEW c \in Callers, Commit(c)
  PROVE  \E new \in Records :
           /\ Valid(new) /\ InCustody(req[c].attempt, new)
           /\ <<req[c].attempt, seen[c]>> \in history /\ seen[c] \in Records
           /\ Follows(new, seen[c]) /\ new.status \notin Terminal
           /\ granted
           /\ Send(c, req[c].attempt, seen[c], new)
           /\ seen' = [seen EXCEPT ![c] = new]
  <1>1. stage[c] = "reauthorize" /\ granted
    BY DEF Commit
  <1>2. /\ req[c] \in Requests /\ seen[c] \in Records
        /\ <<req[c].attempt, seen[c]>> \in history
        /\ seen[c].status \notin Terminal
        /\ Prior(seen[c], req[c].fragment) = None
        /\ req[c].fragment \in Codes => vault[req[c].attempt] = req[c].fragment
    BY <1>1 DEF SInv, TypeOK, CallInv
  <1>3. req[c].fragment \in Fragments
    BY <1>2, RequestAssumption
  <1>4. Valid(seen[c]) /\ InCustody(req[c].attempt, seen[c])
    <2> DEFINE h == <<req[c].attempt, seen[c]>>
    <2>1. Valid(h[2]) /\ InCustody(h[1], h[2])
      BY <1>2 DEF SInv, HistoryInv
    <2> QED
      BY <2>1
  <1> PICK now \in Clock :
        LET new == [WithFragment(seen[c], req[c].fragment) EXCEPT !.updated = now]
        IN /\ Timely(seen[c], now)
           /\ Send(c, req[c].attempt, seen[c], new)
           /\ seen' = [seen EXCEPT ![c] = new]
    BY DEF Commit
  <1> DEFINE new == [WithFragment(seen[c], req[c].fragment) EXCEPT !.updated = now]
  <1>5. now \in Nat /\ now < seen[c].expires
    BY ClockValues DEF Timely, SInv
  <1>6. /\ new \in Records /\ Valid(new) /\ Follows(new, seen[c])
        /\ new.status \notin Terminal
        /\ new.code = IF req[c].fragment \in Codes THEN req[c].fragment ELSE seen[c].code
    BY <1>2, <1>3, <1>4, <1>5, FragmentAdded
  <1>7. InCustody(req[c].attempt, new)
    BY <1>2, <1>4, <1>6 DEF InCustody
  <1> QED
    BY <1>1, <1>2, <1>6, <1>7

\* The record that close sends follows the one that it has read.
LEMMA CloseSends ==
  ASSUME SInv, NEW c \in Callers, Close(c)
  PROVE  \E new \in Records :
           /\ Valid(new) /\ InCustody(req[c].attempt, new)
           /\ <<req[c].attempt, Row(c)>> \in history /\ Row(c) \in Records
           /\ Follows(new, Row(c)) /\ new.status \in Terminal
           /\ Send(c, req[c].attempt, Row(c), new)
           /\ seen' = [seen EXCEPT ![c] = new]
  <1>1. /\ Row(c) \in Records /\ Valid(Row(c)) /\ Row(c).status \notin Terminal
        /\ <<req[c].attempt, Row(c)>> \in history
        /\ InCustody(req[c].attempt, Row(c))
    BY RowRead DEF Close, Closes
  <1> PICK now \in Clock :
        End(c, now, IF Row(c).expires <= now THEN "EXPIRED" ELSE "CANCELLED")
    BY DEF Close
  <1> DEFINE new == [Closed(Row(c), IF Row(c).expires <= now THEN "EXPIRED" ELSE "CANCELLED")
                       EXCEPT !.updated = now]
  <1>2. now \in Nat
    BY ClockValues DEF SInv
  <1>3. /\ new \in Records /\ Valid(new) /\ Follows(new, Row(c))
        /\ new.status \in Terminal /\ new.code = Row(c).code
    BY <1>1, <1>2, AttemptClosed
  <1>4. InCustody(req[c].attempt, new)
    BY <1>1, <1>3 DEF InCustody
  <1> QED
    BY <1>1, <1>3, <1>4 DEF End

\* The three calls that write to the repository.
LEMMA CallSends ==
  ASSUME SInv, NEW c \in Callers, Insert(c) \/ Commit(c) \/ Close(c)
  PROVE  \E w \in Writes :
           /\ w.by = c /\ w.awaited /\ w.attempt = req[c].attempt
           /\ Valid(w.new) /\ InCustody(w.attempt, w.new)
           /\ w.prev = None => View(w.new) = FirstView
           /\ w.prev # None => <<w.attempt, w.prev>> \in history /\ Follows(w.new, w.prev)
           /\ w.prev # None /\ w.new.status \notin Terminal => granted
           /\ writes' = writes \cup {w}
           /\ stage[c] \notin {"idle", "commit"}
           /\ stage' = [stage EXCEPT ![c] = "commit"]
           /\ seen' = [seen EXCEPT ![c] = w.new]
           /\ UNCHANGED <<time, stores, granted, seals, req, results, witnessed, faults>>
  <1> DEFINE Sent(prev, new) ==
               [by |-> c, awaited |-> TRUE, attempt |-> req[c].attempt,
                prev |-> prev, new |-> new]
  <1>1. /\ stage[c] \notin {"idle", "commit"}
        /\ UNCHANGED <<time, stores, granted, seals, req, results, witnessed, faults>>
    BY DEF Insert, Commit, Close, End, Closes, Loaded
  <1>2. req[c].attempt \in Attempts
    <2>1. req[c] \in Requests
      BY <1>1 DEF SInv, TypeOK, CallInv
    <2> QED
      BY <2>1, RequestAssumption
  <1>3. \A prev \in Records \cup {None}, new \in Records : Sent(prev, new) \in Writes
    BY <1>2 DEF Writes
  <1>4. CASE Insert(c)
    <2> PICK new \in Records :
          /\ Valid(new) /\ View(new) = FirstView /\ new.code = None
          /\ Send(c, req[c].attempt, None, new)
          /\ seen' = [seen EXCEPT ![c] = new]
      BY <1>4, InsertSends
    <2>1. Sent(None, new) \in Writes
      BY <1>3
    <2> QED
      BY <1>1, <2>1 DEF InCustody, Send, Goto
  <1>5. CASE Commit(c)
    <2> PICK new \in Records :
          /\ Valid(new) /\ InCustody(req[c].attempt, new)
          /\ <<req[c].attempt, seen[c]>> \in history /\ seen[c] \in Records
          /\ Follows(new, seen[c]) /\ new.status \notin Terminal
          /\ granted
          /\ Send(c, req[c].attempt, seen[c], new)
          /\ seen' = [seen EXCEPT ![c] = new]
      BY <1>5, CommitSends
    <2>1. Sent(seen[c], new) \in Writes /\ seen[c] # None
      BY <1>3, NoneAssumption
    <2> QED
      BY <1>1, <2>1 DEF Send, Goto
  <1>6. CASE Close(c)
    <2> PICK new \in Records :
          /\ Valid(new) /\ InCustody(req[c].attempt, new)
          /\ <<req[c].attempt, Row(c)>> \in history /\ Row(c) \in Records
          /\ Follows(new, Row(c)) /\ new.status \in Terminal
          /\ Send(c, req[c].attempt, Row(c), new)
          /\ seen' = [seen EXCEPT ![c] = new]
      BY <1>6, CloseSends
    <2>1. Sent(Row(c), new) \in Writes /\ Row(c) # None
      BY <1>3, NoneAssumption
    <2> QED
      BY <1>1, <2>1 DEF Send, Goto
  <1> QED
    BY <1>4, <1>5, <1>6

\* The calls that write nothing: what they leave alone.
LEMMA QuietFrame ==
  ASSUME TypeOK, NEW c \in Callers,
         \/ \E r \in Requests : Start(c, r)
         \/ Authorize(c) \/ Answer(c) \/ Admit(c) \/ Sealed(c) \/ Return(c) \/ Reject(c)
  PROVE  /\ UNCHANGED <<time, record, history, vault, granted, writes, faults>>
         /\ stage[c] # "commit" /\ stage'[c] # "commit"
         /\ stage' \in [Callers -> Stages]
         /\ req' \in [Callers -> Requests \cup {None}]
         /\ witnessed' \in [Callers -> BOOLEAN]
         /\ \A d \in Callers \ {c} :
              /\ stage'[d] = stage[d] /\ req'[d] = req[d] /\ seen'[d] = seen[d]
              /\ witnessed'[d] = witnessed[d]
  <1>1. CASE \E r \in Requests : Start(c, r)
    BY <1>1 DEF TypeOK, Start, Goto, stores, Stages
  <1>2. CASE Authorize(c)
    BY <1>2 DEF TypeOK, Authorize, Goto, stores, Stages
  <1>3. CASE Answer(c)
    BY <1>3 DEF TypeOK, Answer, Answered, Receives, Closes, Loaded, Idle, Goto, stores, Stages
  <1>4. CASE Admit(c)
    <2>1. stage[c] = "read"
      BY <1>4 DEF Admit, Receives, Loaded
    <2>2. CASE req[c].fragment \in Codes
      BY <1>4, <2>1, <2>2 DEF TypeOK, Admit, Goto, stores, Stages
    <2>3. CASE req[c].fragment \notin Codes
      BY <1>4, <2>1, <2>3 DEF TypeOK, Admit, Goto, stores, Stages
    <2> QED
      BY <2>2, <2>3
  <1>5. CASE Sealed(c)
    BY <1>5 DEF TypeOK, Sealed, Goto, stores, Stages
  <1>6. CASE Return(c)
    BY <1>6 DEF TypeOK, Return, Idle, Goto, stores, Stages
  <1>7. CASE Reject(c)
    <2>1. stage[c] # "commit"
      BY <1>7 DEF Reject, Rejected, Loaded, Closes
    <2> QED
      BY <1>7, <2>1 DEF TypeOK, Reject, Idle, Goto, stores, Stages
  <1> QED
    BY <1>1, <1>2, <1>3, <1>4, <1>5, <1>6, <1>7

\* A failed call leaves what it sent on its way.
LEMMA FailFrame ==
  ASSUME TypeOK, NEW c \in Callers, Fail(c)
  PROVE  /\ UNCHANGED <<time, stores, granted, seals, results>>
         /\ stage' = [stage EXCEPT ![c] = "idle"]
         /\ req' = [req EXCEPT ![c] = None]
         /\ seen' = [seen EXCEPT ![c] = None]
         /\ witnessed' = [witnessed EXCEPT ![c] = TRUE]
         /\ faults' \in 0 .. MaxFaults
         /\ writes' \subseteq Writes
         /\ \A v \in writes' : \E w \in writes :
              /\ v.attempt = w.attempt /\ v.prev = w.prev /\ v.new = w.new
              /\ v = w \/ ~v.awaited
              /\ v.awaited => v.by # c
  <1>1. \A w \in writes : /\ w \in Writes
                          /\ [w EXCEPT !.awaited = FALSE] \in Writes
                          /\ ~[w EXCEPT !.awaited = FALSE].awaited
                          /\ [w EXCEPT !.awaited = FALSE].attempt = w.attempt
                          /\ [w EXCEPT !.awaited = FALSE].prev = w.prev
                          /\ [w EXCEPT !.awaited = FALSE].new = w.new
    BY DEF TypeOK, Writes
  <1>2. writes' = {IF w.by = c THEN [w EXCEPT !.awaited = FALSE] ELSE w : w \in writes}
    BY DEF Fail
  <1>3. \A v \in writes' : \E w \in writes :
          v = IF w.by = c THEN [w EXCEPT !.awaited = FALSE] ELSE w
    BY <1>2
  <1>4. writes' \subseteq Writes
    BY <1>1, <1>3
  <1>5. \A v \in writes' : \E w \in writes :
              /\ v.attempt = w.attempt /\ v.prev = w.prev /\ v.new = w.new
              /\ v = w \/ ~v.awaited
              /\ v.awaited => v.by # c
    BY <1>1, <1>3
  <1>6. faults' \in 0 .. MaxFaults
    BY ClockAssumption DEF Fail, TypeOK
  <1> QED
    BY <1>4, <1>5, <1>6 DEF Fail, Idle, Goto

\* A write that is refused ends its call, if it still awaits the write.
LEMMA RefuseFrame ==
  ASSUME TypeOK, NEW w \in writes, Refuse(w)
  PROVE  /\ UNCHANGED <<time, stores, granted, seals, results>>
         /\ faults' \in 0 .. MaxFaults
         /\ writes' = writes \ {w}
         /\ w.by \in Callers
         /\ w.awaited => /\ stage' = [stage EXCEPT ![w.by] = "idle"]
                         /\ req' = [req EXCEPT ![w.by] = None]
                         /\ seen' = [seen EXCEPT ![w.by] = None]
                         /\ witnessed' = [witnessed EXCEPT ![w.by] = TRUE]
         /\ ~w.awaited => UNCHANGED <<stage, req, seen, witnessed>>
  <1>1. w.by \in Callers
    BY DEF TypeOK, Writes
  <1>2. faults' \in 0 .. MaxFaults
    BY ClockAssumption DEF Refuse, TypeOK
  <1> QED
    BY <1>1, <1>2 DEF Refuse, Idle, Goto, calls

-----------------------------------------------------------------------------
(* The type invariant                                                      *)

\* Nothing is recorded, sealed, sent or told at first.
LEMMA InitInvariant == ASSUME Init PROVE SInv
  <1>1. TypeOK
    BY ClockAssumption DEF Init, TypeOK, Stages
  <1>2. HistoryInv /\ WriteInv /\ CallInv /\ ToldInv /\ LaunchesAreDurable
    BY DEF Init, HistoryInv, WriteInv, CallInv, ToldInv, LaunchesAreDurable
  <1>3. OneEventPerVersion
    BY DEF Init, OneEventPerVersion
  <1> QED
    BY <1>1, <1>2, <1>3 DEF SInv

\* What View shows of a record is a view.
LEMMA ViewsOfRecords == \A r \in Records : View(r) \in Views
  BY DEF Records, Views, View

\* Every action keeps the types.
LEMMA TypeStep == ASSUME SInv, [Next]_vars PROVE TypeOK'
  <1> USE DEF stores, calls, results
  <1>1. TypeOK
    BY DEF SInv
  <1>2. CASE UNCHANGED vars
    BY <1>1, <1>2 DEF TypeOK, vars
  <1>3. ASSUME NEW c \in Callers, NEW r \in Requests, Start(c, r) PROVE TypeOK'
    <2>1. UNCHANGED <<seals, seen, launched, told>>
      BY <1>3 DEF Start
    <2> QED
      BY <1>1, <1>3, <2>1, QuietFrame DEF TypeOK
  <1>4. ASSUME NEW c \in Callers, Insert(c) \/ Commit(c) \/ Close(c) PROVE TypeOK'
    <2> PICK w \in Writes :
          /\ writes' = writes \cup {w}
          /\ stage' = [stage EXCEPT ![c] = "commit"]
          /\ seen' = [seen EXCEPT ![c] = w.new]
          /\ UNCHANGED <<time, stores, granted, seals, req, results, witnessed, faults>>
      BY <1>4, CallSends
    <2>1. w.new \in Records
      BY DEF Writes
    <2> QED
      BY <1>1, <2>1 DEF TypeOK, Stages
  <1>5. ASSUME NEW c \in Callers, Authorize(c) \/ Sealed(c) PROVE TypeOK'
    <2>1. UNCHANGED <<seals, seen, launched, told>>
      BY <1>5 DEF Authorize, Sealed
    <2> QED
      BY <1>1, <1>5, <2>1, QuietFrame DEF TypeOK
  <1>6. ASSUME NEW c \in Callers, Answer(c) PROVE TypeOK'
    <2>1. /\ req[c].attempt \in Attempts /\ Row(c) \in Records
      BY <1>6, RowRead DEF Answer, Answered, Receives, Closes
    <2>2. told' \in [Callers -> (Attempts \X Views) \cup {None}]
      BY <1>1, <1>6, <2>1, ViewsOfRecords DEF TypeOK, Answer, Tell
    <2>3. seals' = seals /\ launched' = launched /\ seen' \in [Callers -> Records \cup {None}]
      BY <1>1, <1>6 DEF TypeOK, Answer, Idle
    <2> QED
      BY <1>1, <1>6, <2>2, <2>3, QuietFrame DEF TypeOK
  <1>7. ASSUME NEW c \in Callers, Admit(c) PROVE TypeOK'
    <2>1. /\ req[c].attempt \in Attempts /\ Row(c) \in Records
      BY <1>7, RowRead DEF Admit, Receives
    <2>2. seals' \subseteq Attempts \X Codes
      BY <1>1, <1>7, <2>1 DEF TypeOK, Admit
    <2>3. launched' = launched /\ told' = told /\ seen' \in [Callers -> Records \cup {None}]
      BY <1>1, <1>7, <2>1 DEF TypeOK, Admit
    <2> QED
      BY <1>1, <1>7, <2>2, <2>3, QuietFrame DEF TypeOK
  <1>8. ASSUME NEW c \in Callers, Return(c) PROVE TypeOK'
    <2>1. stage[c] = "acknowledged"
      BY <1>8 DEF Return
    <2>2. req[c] \in Requests /\ seen[c] \in Records
      BY <1>1, <2>1 DEF SInv, TypeOK, CallInv
    <2>3. req[c].attempt \in Attempts
      BY <2>2, RequestAssumption
    <2>4. told' \in [Callers -> (Attempts \X Views) \cup {None}]
      BY <1>1, <1>8, <2>2, <2>3, ViewsOfRecords DEF TypeOK, Return, Tell
    <2>5. launched' \subseteq Attempts
      BY <1>1, <1>8, <2>3 DEF TypeOK, Return
    <2>6. seals' = seals /\ seen' \in [Callers -> Records \cup {None}]
      BY <1>1, <1>8 DEF TypeOK, Return, Idle
    <2> QED
      BY <1>1, <1>8, <2>4, <2>5, <2>6, QuietFrame DEF TypeOK
  <1>9. ASSUME NEW c \in Callers, Reject(c) PROVE TypeOK'
    <2>1. seals' = seals /\ launched' = launched /\ told' = told
          /\ seen' \in [Callers -> Records \cup {None}]
      BY <1>1, <1>9 DEF TypeOK, Reject, Idle
    <2> QED
      BY <1>1, <1>9, <2>1, QuietFrame DEF TypeOK
  <1>10. ASSUME NEW c \in Callers, Fail(c) PROVE TypeOK'
    BY <1>1, <1>10, FailFrame DEF TypeOK, Stages
  <1>11. ASSUME NEW w \in writes, Apply(w) PROVE TypeOK'
    <2>1. w \in Writes /\ w.attempt \in Attempts /\ w.by \in Callers /\ w.new \in Records
      BY <1>1 DEF TypeOK, Writes
    <2>2. /\ record' \in [Attempts -> Records \cup {None}]
          /\ history' \subseteq Attempts \X Records
          /\ writes' \subseteq Writes
          /\ stage' \in [Callers -> Stages]
      BY <1>1, <1>11, <2>1 DEF TypeOK, Apply, Stages
    <2> QED
      BY <1>1, <1>11, <2>2 DEF TypeOK, Apply
  <1>12. ASSUME NEW w \in writes, Refuse(w) PROVE TypeOK'
    BY <1>1, <1>12, RefuseFrame DEF TypeOK, Stages
  <1>13. ASSUME NEW s \in seals, Seal(s) PROVE TypeOK'
    <2>1. s[1] \in Attempts /\ s[2] \in Codes
      BY <1>1 DEF TypeOK
    <2> QED
      BY <1>1, <1>13, <2>1 DEF TypeOK, Seal
  <1>14. CASE Tick
    BY <1>1, <1>14, ClockAssumption DEF TypeOK, Tick
  <1>15. CASE Revoke
    <2>1. faults' \in 0 .. MaxFaults
      BY <1>1, <1>15, ClockAssumption DEF TypeOK, Revoke
    <2>2. granted' \in BOOLEAN
      BY <1>15 DEF Revoke
    <2> QED
      BY <1>1, <1>15, <2>1, <2>2 DEF TypeOK, Revoke
  <1>16. CASE Grant
    BY <1>1, <1>16 DEF TypeOK, Grant
  <1> QED
    BY <1>2, <1>3, <1>4, <1>5, <1>6, <1>7, <1>8, <1>9, <1>10, <1>11, <1>12, <1>13,
       <1>14, <1>15, <1>16 DEF Next, Call, Ports

-----------------------------------------------------------------------------
(* The stores                                                              *)

\* Only a write that is applied and a code that is sealed change the stores.
LEMMA StoreFrame ==
  ASSUME SInv, [Next]_vars
  PROVE  \/ \E w \in writes : Apply(w)
         \/ \E s \in seals : Seal(s)
         \/ UNCHANGED <<record, history, vault>>
  <1> USE DEF stores
  <1>1. TypeOK
    BY DEF SInv
  <1>2. CASE UNCHANGED vars
    BY <1>2 DEF vars
  <1>3. ASSUME NEW c \in Callers, Call(c) PROVE UNCHANGED <<record, history, vault>>
    BY <1>3 DEF Call, Start, Insert, Authorize, Answer, Admit, Sealed, Commit, Close, End,
                Return, Reject, Fail
  <1>4. ASSUME NEW w \in writes, Refuse(w) PROVE UNCHANGED <<record, history, vault>>
    BY <1>4 DEF Refuse
  <1>5. CASE Tick \/ Revoke \/ Grant
    BY <1>5 DEF Tick, Revoke, Grant
  <1> QED
    BY <1>2, <1>3, <1>4, <1>5 DEF Next, Ports

\* The compare-and-set: what is applied extends all that the attempt ever was.
LEMMA ApplyExtends ==
  ASSUME SInv, NEW w \in writes, Apply(w)
  PROVE  /\ w.attempt \in Attempts /\ w.new \in Records
         /\ Valid(w.new) /\ InCustody(w.attempt, w.new)
         /\ record[w.attempt] = w.prev
         /\ record' = [record EXCEPT ![w.attempt] = w.new]
         /\ history' = history \cup {<<w.attempt, w.new>>}
         /\ vault' = vault
         /\ w.prev = None => /\ View(w.new) = FirstView /\ w.new.version = 1
                             /\ \A h \in history : h[1] # w.attempt
         /\ w.prev # None => /\ w.prev \in Records
                             /\ Follows(w.new, w.prev)
                             /\ w.new.version = w.prev.version + 1
         /\ \A h \in history : h[1] = w.attempt => Extends(w.new, h[2])
  <1>1. w \in Writes /\ w.attempt \in Attempts /\ w.new \in Records
        /\ w.prev \in Records \cup {None}
    BY DEF SInv, TypeOK, Writes
  <1>2. /\ record[w.attempt] = w.prev
        /\ record' = [record EXCEPT ![w.attempt] = w.new]
        /\ history' = history \cup {<<w.attempt, w.new>>}
        /\ vault' = vault
    BY DEF Apply, RowMatches
  <1>3. /\ Valid(w.new) /\ InCustody(w.attempt, w.new)
        /\ w.prev = None => View(w.new) = FirstView
        /\ w.prev # None => Follows(w.new, w.prev)
    BY DEF SInv, WriteInv
  <1>4. \A h \in history : h[1] = w.attempt =>
          w.prev # None /\ h[2] \in Records /\ Extends(w.prev, h[2])
    BY <1>2 DEF SInv, HistoryInv, TypeOK
  <1>5. \A h \in history : h[1] = w.attempt => Extends(w.new, h[2])
    BY <1>1, <1>3, <1>4, FollowsExtends
  <1>6. w.prev # None => w.new.version = w.prev.version + 1
    BY <1>1, <1>3, FollowsExtends, ExtendsItself
  <1>7. w.prev = None => w.new.version = 1
    <2>1. View(w.new).version = w.new.version
      BY DEF View
    <2> QED
      BY <1>3, <2>1 DEF FirstView
  <1> QED
    BY <1>1, <1>2, <1>3, <1>4, <1>5, <1>6, <1>7

\* What is sealed stays.
LEMMA SealKeeps ==
  ASSUME TypeOK, NEW s \in seals, Seal(s)
  PROVE  /\ UNCHANGED <<time, record, history, granted, writes, stage, req, seen,
                        launched, told, witnessed, faults>>
         /\ \A a \in Attempts : vault[a] # None => vault'[a] = vault[a]
  <1>1. s[1] \in Attempts
    BY DEF TypeOK
  <1> QED
    BY <1>1 DEF TypeOK, Seal, calls, results

\* Custody of a record is never lost.
LEMMA CustodyKept ==
  ASSUME SInv, [Next]_vars, NEW a \in Attempts, NEW r, InCustody(a, r)
  PROVE  r.code # None => vault'[a] = r.code
  <1>1. CASE \E w \in writes : Apply(w)
    BY <1>1 DEF Apply, InCustody
  <1>2. CASE \E s \in seals : Seal(s)
    BY <1>2, SealKeeps DEF SInv, InCustody
  <1>3. CASE vault' = vault
    BY <1>3 DEF InCustody
  <1> QED
    BY <1>1, <1>2, <1>3, StoreFrame

\* The row extends what its attempt ever was, readable and in custody.
LEMMA HistoryStep == ASSUME SInv, [Next]_vars PROVE HistoryInv'
  <1>1. \A h \in history : h[1] \in Attempts /\ h[2] \in Records /\ h = <<h[1], h[2]>>
    BY DEF SInv, TypeOK
  <1>2. \A h \in history : /\ record[h[1]] # None /\ Extends(record[h[1]], h[2])
                           /\ Valid(h[2])
                           /\ h[2].code # None => vault'[h[1]] = h[2].code
    BY <1>1, CustodyKept DEF SInv, HistoryInv
  <1>3. \A a \in Attempts : record[a] # None => <<a, record[a]>> \in history
    BY DEF SInv, HistoryInv
  <1>4. CASE \E w \in writes : Apply(w)
    <2> PICK w \in writes : Apply(w)
      BY <1>4
    <2>1. w.new # None
      BY ApplyExtends, NoneAssumption
    <2>2. \A a \in Attempts : record'[a] = IF a = w.attempt THEN w.new ELSE record[a]
      BY ApplyExtends DEF SInv, TypeOK
    <2>3. \A a \in Attempts : record'[a] # None => <<a, record'[a]>> \in history'
      BY <1>3, <2>2, ApplyExtends
    <2>4. ASSUME NEW h \in history
          PROVE  record'[h[1]] # None /\ Extends(record'[h[1]], h[2])
      BY <1>1, <1>2, <2>1, <2>2, ApplyExtends
    <2>5. /\ record'[w.attempt] = w.new /\ Extends(w.new, w.new) /\ Valid(w.new)
          /\ w.new.code # None => vault'[w.attempt] = w.new.code
      BY <2>2, ApplyExtends, ExtendsItself DEF InCustody
    <2>6. ASSUME NEW h \in history'
          PROVE  /\ record'[h[1]] # None
                 /\ Extends(record'[h[1]], h[2])
                 /\ Valid(h[2])
                 /\ h[2].code # None => vault'[h[1]] = h[2].code
      <3>1. CASE h \in history
        BY <1>2, <2>4, <3>1
      <3>2. CASE h = <<w.attempt, w.new>>
        BY <2>1, <2>5, <3>2
      <3> QED
        BY <3>1, <3>2, ApplyExtends
    <2> QED
      BY <2>3, <2>6 DEF HistoryInv, InCustody
  <1>5. CASE record' = record /\ history' = history
    BY <1>2, <1>3, <1>5 DEF HistoryInv, InCustody
  <1> QED
    BY <1>4, <1>5, StoreFrame, SealKeeps DEF SInv

\* A version is recorded when it is the next one, so no version is recorded twice.
LEMMA OneEventStep == ASSUME SInv, [Next]_vars PROVE OneEventPerVersion'
  <1> DEFINE Mine(a) == {h \in history : h[1] = a}
             Last(a) == IF record[a] = None THEN 0 ELSE record[a].version
  <1>1. /\ \A a \in Attempts : {h[2].version : h \in Mine(a)} = 1 .. Last(a)
        /\ \A h, g \in history : h[1] = g[1] /\ h[2].version = g[2].version => h = g
    <2>1. \A h \in history : h[1] \in Attempts
      BY DEF SInv, TypeOK
    <2> QED
      BY <2>1 DEF SInv, OneEventPerVersion
  <1>2. CASE \E w \in writes : Apply(w)
    <2> PICK w \in writes : Apply(w)
      BY <1>2
    <2> DEFINE e == <<w.attempt, w.new>>
               n == w.new.version
    <2>1. \A a \in Attempts : record'[a] = IF a = w.attempt THEN w.new ELSE record[a]
      BY ApplyExtends DEF SInv, TypeOK
    <2>2. history' = history \cup {e} /\ w.attempt \in Attempts /\ w.new # None
      BY ApplyExtends, NoneAssumption
    <2>3. n \in Nat /\ n = Last(w.attempt) + 1 /\ Last(w.attempt) \in Nat
      BY ApplyExtends, NoneAssumption DEF Records
    <2>4. \A h \in Mine(w.attempt) : h[2].version # n
      <3>1. \A h \in Mine(w.attempt) : h[2].version \in 1 .. Last(w.attempt)
        BY <1>1, <2>2
      <3> QED
        BY <2>3, <3>1
    <2>5. ASSUME NEW a \in Attempts
          PROVE  /\ {h[2].version : h \in Mine(a)'} = 1 .. Last(a)'
                 /\ \A h, g \in Mine(a)' : h[2].version = g[2].version => h = g
      <3>1. CASE a = w.attempt
        <4>1. Mine(a)' = Mine(a) \cup {e}
          BY <2>2, <3>1
        <4>2. Last(a)' = n
          BY <2>1, <2>2, <3>1
        <4>3. e[2].version = n
          OBVIOUS
        <4>4. {h[2].version : h \in Mine(a) \cup {e}} = {h[2].version : h \in Mine(a)} \cup {n}
          BY <4>3
        <4>5. (1 .. Last(a)) \cup {n} = 1 .. n
          BY <2>3, <3>1
        <4>6. {h[2].version : h \in Mine(a)'} = 1 .. Last(a)'
          BY <1>1, <4>1, <4>2, <4>4, <4>5
        <4>7. \A h, g \in Mine(a)' : h[2].version = g[2].version => h = g
          BY <1>1, <2>4, <3>1, <4>1, <4>3
        <4> QED
          BY <4>6, <4>7
      <3>2. CASE a # w.attempt
        <4>1. Mine(a)' = Mine(a) /\ Last(a)' = Last(a)
          BY <2>1, <2>2, <3>2
        <4> QED
          BY <1>1, <4>1
      <3> QED
        BY <3>1, <3>2
    <2> QED
      BY <2>5 DEF OneEventPerVersion
  <1>3. CASE record' = record /\ history' = history
    BY <1>3 DEF SInv, OneEventPerVersion
  <1> QED
    BY <1>2, <1>3, StoreFrame, SealKeeps DEF SInv

\* The history only grows, and what is recorded stays recorded.
LEMMA StoresGrow ==
  ASSUME SInv, [Next]_vars
  PROVE  /\ history \subseteq history'
         /\ \A a \in Attempts : record[a] # None => record'[a] # None
  <1>1. CASE \E w \in writes : Apply(w)
    BY <1>1, ApplyExtends, NoneAssumption DEF SInv, TypeOK
  <1>2. CASE record' = record /\ history' = history
    BY <1>2
  <1> QED
    BY <1>1, <1>2, StoreFrame, SealKeeps DEF SInv

\* What a call that returns has seen acknowledged.
LEMMA Acknowledged ==
  ASSUME SInv, NEW c \in Callers, Return(c)
  PROVE  /\ <<req[c].attempt, seen[c]>> \in history
         /\ req[c].attempt \in Attempts
         /\ record[req[c].attempt] # None
  <1>1. <<req[c].attempt, seen[c]>> \in history
    BY DEF SInv, CallInv, Return
  <1>2. req[c].attempt \in Attempts
    BY <1>1 DEF SInv, TypeOK
  <1> DEFINE h == <<req[c].attempt, seen[c]>>
  <1>3. record[h[1]] # None
    BY <1>1 DEF SInv, HistoryInv
  <1> QED
    BY <1>1, <1>2, <1>3

\* What callers are told, and what is launched: nothing but what is recorded.
LEMMA ToldFrame ==
  ASSUME SInv, [Next]_vars
  PROVE  \/ \E c \in Callers : Return(c)
         \/ \E c \in Callers : Answer(c)
         \/ UNCHANGED <<told, launched>>
  <1> USE DEF results
  <1>1. CASE UNCHANGED vars
    BY <1>1 DEF vars
  <1>2. ASSUME NEW c \in Callers, Call(c), ~Return(c), ~Answer(c)
        PROVE  UNCHANGED <<told, launched>>
    BY <1>2 DEF Call, Start, Insert, Authorize, Admit, Sealed, Commit, Close, End, Reject, Fail
  <1>3. CASE Ports
    BY <1>3 DEF Ports, Apply, Refuse, Seal, Tick, Revoke, Grant
  <1> QED
    BY <1>1, <1>2, <1>3 DEF Next

\* Only a call that returns launches, and its attempt is recorded.
LEMMA LaunchStep == ASSUME SInv, [Next]_vars PROVE LaunchesAreDurable'
  <1>1. \A a \in launched : a \in Attempts /\ record'[a] # None
    BY StoresGrow DEF SInv, TypeOK, LaunchesAreDurable
  <1>2. CASE \E c \in Callers : Return(c)
    <2> PICK c \in Callers : Return(c)
      BY <1>2
    <2>1. launched' \subseteq launched \cup {req[c].attempt}
      BY DEF Return
    <2> QED
      BY <1>1, <2>1, Acknowledged, StoresGrow DEF LaunchesAreDurable
  <1>3. CASE launched' = launched
    BY <1>1, <1>3 DEF LaunchesAreDurable
  <1> QED
    BY <1>2, <1>3, ToldFrame DEF Answer

\* Only Answer and Return tell, and what they tell is in the history.
LEMMA ToldStep == ASSUME SInv, [Next]_vars PROVE ToldInv'
  <1>1. \A c \in Callers : told[c] # None =>
          \E h \in history' : told[c] = <<h[1], View(h[2])>>
    BY StoresGrow DEF SInv, ToldInv
  <1>2. ASSUME NEW c \in Callers, NEW r, <<req[c].attempt, r>> \in history, Tell(c, r)
        PROVE  ToldInv'
    <2> DEFINE e == <<req[c].attempt, r>>
    <2>1. told'[c] = <<e[1], View(e[2])>> /\ e \in history'
      BY <1>2, StoresGrow DEF Tell, SInv, TypeOK
    <2>2. \A d \in Callers : d # c => told'[d] = told[d]
      BY <1>2 DEF Tell, SInv, TypeOK
    <2> HIDE DEF e
    <2>3. ASSUME NEW d \in Callers, told'[d] # None
          PROVE  \E h \in history' : told'[d] = <<h[1], View(h[2])>>
      BY <1>1, <2>1, <2>2, <2>3
    <2> QED
      BY <2>3 DEF ToldInv, View
  <1>3. CASE \E c \in Callers : Return(c)
    BY <1>2, <1>3, Acknowledged DEF Return
  <1>4. CASE \E c \in Callers : Answer(c)
    BY <1>2, <1>4, RowRead DEF Answer, Answered, Receives, Closes
  <1>5. CASE told' = told
    BY <1>1, <1>5 DEF ToldInv, View
  <1> QED
    BY <1>3, <1>4, <1>5, ToldFrame

-----------------------------------------------------------------------------
(* What is on its way, and the calls                                       *)

\* The part of WriteInv that does not depend on the calls.
LEMMA WritesKept ==
  ASSUME SInv, [Next]_vars, NEW w \in writes
  PROVE  /\ Valid(w.new)
         /\ w.new.code # None => vault'[w.attempt] = w.new.code
         /\ w.prev = None => View(w.new) = FirstView
         /\ w.prev # None => <<w.attempt, w.prev>> \in history' /\ Follows(w.new, w.prev)
  <1>1. w.attempt \in Attempts /\ InCustody(w.attempt, w.new)
    BY DEF SInv, TypeOK, WriteInv, Writes
  <1> QED
    BY <1>1, CustodyKept, StoresGrow DEF SInv, WriteInv

\* What is on its way follows what it is compared with, and at most one
\* write of a call is awaited by it.
LEMMA WriteStep == ASSUME SInv, [Next]_vars PROVE WriteInv'
  <1> USE DEF calls, stores, results
  <1> DEFINE Part(w) ==
               /\ Valid(w.new)
               /\ w.new.code # None => vault'[w.attempt] = w.new.code
               /\ w.prev = None => View(w.new) = FirstView
               /\ w.prev # None => <<w.attempt, w.prev>> \in history' /\ Follows(w.new, w.prev)
             Awaits(w) == stage'[w.by] = "commit" /\ req'[w.by].attempt = w.attempt
                            /\ seen'[w.by] = w.new
  <1>1. \A w \in writes : Part(w)
    BY WritesKept
  <1>2. \A w \in writes : w.by \in Callers
    BY DEF SInv, TypeOK, Writes
  <1>3. SUFFICES /\ \A w \in writes' : Part(w) /\ (w.awaited => Awaits(w))
                 /\ \A v, w \in writes' : v.awaited /\ w.awaited /\ v.by = w.by => v = w
    BY <1>3 DEF WriteInv, InCustody
  <1>4. /\ \A w \in writes : w.awaited => /\ stage[w.by] = "commit"
                                          /\ req[w.by].attempt = w.attempt
                                          /\ seen[w.by] = w.new
        /\ \A v, w \in writes : v.awaited /\ w.awaited /\ v.by = w.by => v = w
    BY DEF SInv, WriteInv
  <1>5. TypeOK
    BY DEF SInv
  <1> HIDE DEF Part
  <1>6. ASSUME NEW c \in Callers,
               \/ \E r \in Requests : Start(c, r)
               \/ Authorize(c) \/ Answer(c) \/ Admit(c) \/ Sealed(c) \/ Return(c) \/ Reject(c)
        PROVE  /\ \A w \in writes' : Part(w) /\ (w.awaited => Awaits(w))
               /\ \A v, w \in writes' : v.awaited /\ w.awaited /\ v.by = w.by => v = w
    <2>1. /\ writes' = writes /\ stage[c] # "commit"
          /\ \A d \in Callers \ {c} :
               stage'[d] = stage[d] /\ req'[d] = req[d] /\ seen'[d] = seen[d]
      BY <1>5, <1>6, QuietFrame
    <2>2. \A w \in writes : w.awaited => w.by \in Callers \ {c}
      BY <1>2, <1>4, <2>1
    <2> QED
      BY <1>1, <1>4, <2>1, <2>2
  <1>7. ASSUME NEW c \in Callers, Insert(c) \/ Commit(c) \/ Close(c)
        PROVE  /\ \A w \in writes' : Part(w) /\ (w.awaited => Awaits(w))
               /\ \A v, w \in writes' : v.awaited /\ w.awaited /\ v.by = w.by => v = w
    <2> PICK u \in Writes :
          /\ u.by = c /\ u.awaited /\ u.attempt = req[c].attempt
          /\ Valid(u.new) /\ InCustody(u.attempt, u.new)
          /\ u.prev = None => View(u.new) = FirstView
          /\ u.prev # None => <<u.attempt, u.prev>> \in history /\ Follows(u.new, u.prev)
          /\ writes' = writes \cup {u}
          /\ stage[c] \notin {"idle", "commit"}
          /\ stage' = [stage EXCEPT ![c] = "commit"]
          /\ seen' = [seen EXCEPT ![c] = u.new]
          /\ UNCHANGED <<time, stores, granted, seals, req, results, witnessed, faults>>
      BY <1>7, CallSends
    <2>1. Part(u)
      BY DEF Part, InCustody
    <2>2. \A w \in writes : w.awaited => w.by \in Callers \ {c}
      BY <1>2, <1>4
    <2>3. /\ \A d \in Callers \ {c} :
               stage'[d] = stage[d] /\ req'[d] = req[d] /\ seen'[d] = seen[d]
          /\ Awaits(u)
      BY <1>5 DEF TypeOK
    <2> QED
      BY <1>1, <1>4, <2>1, <2>2, <2>3
  <1>8. ASSUME NEW c \in Callers, Fail(c)
        PROVE  /\ \A w \in writes' : Part(w) /\ (w.awaited => Awaits(w))
               /\ \A v, w \in writes' : v.awaited /\ w.awaited /\ v.by = w.by => v = w
    <2>1. \A v \in writes' : \E w \in writes :
              /\ v.attempt = w.attempt /\ v.prev = w.prev /\ v.new = w.new
              /\ v = w \/ ~v.awaited
              /\ v.awaited => v.by # c
      BY <1>5, <1>8, FailFrame
    <2>2. \A v \in writes' : Part(v)
      BY <1>1, <2>1 DEF Part
    <2>3. \A v \in writes' : v.awaited => v \in writes /\ v.by \in Callers \ {c}
      BY <1>2, <2>1
    <2>4. \A d \in Callers \ {c} :
            stage'[d] = stage[d] /\ req'[d] = req[d] /\ seen'[d] = seen[d]
      BY <1>5, <1>8, FailFrame DEF TypeOK
    <2> QED
      BY <1>4, <2>2, <2>3, <2>4
  <1>9. ASSUME NEW u \in writes, Apply(u) \/ Refuse(u)
        PROVE  /\ \A w \in writes' : Part(w) /\ (w.awaited => Awaits(w))
               /\ \A v, w \in writes' : v.awaited /\ w.awaited /\ v.by = w.by => v = w
    <2>1. /\ writes' = writes \ {u}
          /\ \A d \in Callers : ~(u.awaited /\ d = u.by) =>
               stage'[d] = stage[d] /\ req'[d] = req[d] /\ seen'[d] = seen[d]
      <3>1. CASE Apply(u)
        BY <1>5, <3>1 DEF Apply, TypeOK
      <3>2. CASE Refuse(u)
        BY <1>5, <3>2, RefuseFrame DEF TypeOK
      <3> QED
        BY <1>9, <3>1, <3>2
    <2> QED
      BY <1>1, <1>2, <1>4, <2>1
  <1>10. CASE writes' = writes /\ UNCHANGED calls
    BY <1>1, <1>4, <1>10
  <1>11. CASE UNCHANGED vars \/ Tick \/ Revoke \/ Grant \/ \E s \in seals : Seal(s)
    <2>1. writes' = writes /\ UNCHANGED calls
      BY <1>11 DEF vars, Tick, Revoke, Grant, Seal
    <2> QED
      BY <1>10, <2>1
  <1> QED
    BY <1>6, <1>7, <1>8, <1>9, <1>11 DEF Next, Call, Ports

\* A call that does not move: what holds of it is kept by the others' steps.
LEMMA CallKept ==
  ASSUME SInv, [Next]_vars, NEW c \in Callers,
         stage'[c] = stage[c], req'[c] = req[c], seen'[c] = seen[c]
  PROVE  /\ (stage'[c] = "idle") <=> (req'[c] = None)
         /\ stage'[c] \in {"seal", "reauthorize"} =>
              /\ req'[c].op = "receive"
              /\ seen'[c] # None
              /\ <<req'[c].attempt, seen'[c]>> \in history'
              /\ seen'[c].status \notin Terminal
              /\ Prior(seen'[c], req'[c].fragment) = None
         /\ stage'[c] = "reauthorize" /\ req'[c].fragment \in Codes =>
              vault'[req'[c].attempt] = req'[c].fragment
         /\ stage'[c] = "commit" => seen'[c] # None
         /\ stage'[c] = "acknowledged" =>
              seen'[c] # None /\ <<req'[c].attempt, seen'[c]>> \in history'
  <1>1. ASSUME stage[c] = "reauthorize", req[c].fragment \in Codes
        PROVE  vault'[req[c].attempt] = req[c].fragment
    <2>1. /\ req[c].attempt \in Attempts
          /\ vault[req[c].attempt] = req[c].fragment
          /\ req[c].fragment # None
      BY <1>1, FragmentAssumption, RequestAssumption DEF SInv, TypeOK, CallInv
    <2>2. CASE \E w \in writes : Apply(w)
      BY <2>1, <2>2 DEF Apply
    <2>3. CASE \E s \in seals : Seal(s)
      BY <2>1, <2>3, SealKeeps DEF SInv
    <2>4. CASE vault' = vault
      BY <2>1, <2>4
    <2> QED
      BY <2>2, <2>3, <2>4, StoreFrame
  <1> QED
    BY <1>1, StoresGrow DEF SInv, CallInv

\* The same, of a call that has become idle, or has begun to authorize or to read.
LEMMA CallEasy ==
  ASSUME NEW c \in Callers,
         \/ stage'[c] = "idle" /\ req'[c] = None
         \/ stage'[c] \in {"authorize", "read"} /\ req'[c] # None
  PROVE  /\ (stage'[c] = "idle") <=> (req'[c] = None)
         /\ stage'[c] \notin {"seal", "reauthorize", "commit", "acknowledged"}
  OBVIOUS

\* What the stage of a call says of its request and its record.
LEMMA CallStep == ASSUME SInv, [Next]_vars PROVE CallInv'
  <1> USE DEF calls, stores, results
  <1> DEFINE Part(d) ==
         /\ (stage'[d] = "idle") <=> (req'[d] = None)
         /\ stage'[d] \in {"seal", "reauthorize"} =>
              /\ req'[d].op = "receive"
              /\ seen'[d] # None
              /\ <<req'[d].attempt, seen'[d]>> \in history'
              /\ seen'[d].status \notin Terminal
              /\ Prior(seen'[d], req'[d].fragment) = None
         /\ stage'[d] = "reauthorize" /\ req'[d].fragment \in Codes =>
              vault'[req'[d].attempt] = req'[d].fragment
         /\ stage'[d] = "commit" => seen'[d] # None
         /\ stage'[d] = "acknowledged" =>
              seen'[d] # None /\ <<req'[d].attempt, seen'[d]>> \in history'
             Fresh(d) == granted' => witnessed'[d]
  <1>1. SUFFICES \A d \in Callers : Part(d) /\ Fresh(d)
    BY <1>1 DEF CallInv, Prior
  <1>2. TypeOK /\ \A d \in Callers : granted => witnessed[d]
    BY DEF SInv, CallInv
  <1>3. \A d \in Callers :
          stage'[d] = stage[d] /\ req'[d] = req[d] /\ seen'[d] = seen[d] => Part(d)
    BY CallKept
  <1>4. \A d \in Callers :
          \/ stage'[d] = "idle" /\ req'[d] = None
          \/ stage'[d] \in {"authorize", "read"} /\ req'[d] # None
          => Part(d)
    BY CallEasy
  <1> HIDE DEF Part
  <1>5. ASSUME NEW c \in Callers,
               \/ \E r \in Requests : Start(c, r)
               \/ Authorize(c) \/ Answer(c) \/ Admit(c) \/ Sealed(c) \/ Return(c) \/ Reject(c)
        PROVE  \A d \in Callers : Part(d) /\ Fresh(d)
    <2>1. /\ granted' = granted /\ history' = history /\ vault' = vault
          /\ \A d \in Callers \ {c} :
               /\ stage'[d] = stage[d] /\ req'[d] = req[d] /\ seen'[d] = seen[d]
               /\ witnessed'[d] = witnessed[d]
      BY <1>2, <1>5, QuietFrame
    <2>2. CASE \E r \in Requests : Start(c, r)
      <3>1. stage'[c] = "authorize" /\ req'[c] # None /\ witnessed'[c] = witnessed[c]
        BY <1>2, <2>2, NoneAssumption DEF Start, Goto, TypeOK
      <3> QED
        BY <1>2, <1>3, <1>4, <2>1, <3>1
    <2>3. CASE Authorize(c)
      <3>1. stage'[c] = "read" /\ req'[c] # None /\ witnessed'[c] = witnessed[c]
        <4>1. req[c] # None
          BY <2>3 DEF SInv, CallInv, Authorize
        <4> QED
          BY <1>2, <2>3, <4>1 DEF Authorize, Goto, TypeOK
      <3> QED
        BY <1>2, <1>3, <1>4, <2>1, <3>1
    <2>4. CASE Answer(c) \/ Return(c) \/ Reject(c)
      <3>1. stage'[c] = "idle" /\ req'[c] = None /\ witnessed'[c]
        BY <1>2, <2>4 DEF Answer, Return, Reject, Idle, Goto, TypeOK
      <3> QED
        BY <1>2, <1>3, <1>4, <2>1, <3>1
    <2>5. CASE Admit(c)
      <3>1. /\ Receives(c) /\ Prior(Row(c), req[c].fragment) = None
            /\ req' = req /\ seen'[c] = Row(c)
        BY <1>2, <2>5 DEF Admit, TypeOK
      <3>2. /\ req[c] # None /\ req[c].op = "receive"
            /\ Row(c) \in Records /\ Row(c).status \notin Terminal
            /\ <<req[c].attempt, Row(c)>> \in history
        BY <3>1, RowRead, NoneAssumption DEF Receives
      <3>3. Row(c) # None
        BY <3>2, NoneAssumption
      <3>4. \/ req[c].fragment \in Codes /\ stage'[c] = "seal" /\ witnessed'[c] = witnessed[c]
            \/ req[c].fragment \notin Codes /\ stage'[c] = "reauthorize"
                 /\ witnessed'[c] = granted
        BY <1>2, <2>5 DEF Admit, Goto, TypeOK
      <3>5. Part(c) /\ Fresh(c)
        BY <1>2, <2>1, <3>1, <3>2, <3>3, <3>4 DEF Part
      <3> QED
        BY <1>2, <1>3, <2>1, <3>5
    <2>6. CASE Sealed(c)
      <3>1. /\ stage[c] = "seal" /\ stage'[c] = "reauthorize"
            /\ req' = req /\ seen' = seen /\ witnessed'[c] = granted
            /\ vault[req[c].attempt] = req[c].fragment
        BY <1>2, <2>6 DEF Sealed, Goto, TypeOK
      <3>2. Part(c) /\ Fresh(c)
        BY <2>1, <3>1 DEF Part, SInv, CallInv
      <3> QED
        BY <1>2, <1>3, <2>1, <3>2
    <2> QED
      BY <1>5, <2>2, <2>3, <2>4, <2>5, <2>6
  <1>6. ASSUME NEW c \in Callers, Insert(c) \/ Commit(c) \/ Close(c)
        PROVE  \A d \in Callers : Part(d) /\ Fresh(d)
    <2> PICK w \in Writes :
          /\ w.by = c /\ w.awaited /\ w.attempt = req[c].attempt
          /\ Valid(w.new) /\ InCustody(w.attempt, w.new)
          /\ w.prev = None => View(w.new) = FirstView
          /\ w.prev # None => <<w.attempt, w.prev>> \in history /\ Follows(w.new, w.prev)
          /\ w.prev # None /\ w.new.status \notin Terminal => granted
          /\ writes' = writes \cup {w}
          /\ stage[c] \notin {"idle", "commit"}
          /\ stage' = [stage EXCEPT ![c] = "commit"]
          /\ seen' = [seen EXCEPT ![c] = w.new]
          /\ UNCHANGED <<time, stores, granted, seals, req, results, witnessed, faults>>
      BY <1>6, CallSends
    <2>1. w.new # None /\ req[c] # None
      BY NoneAssumption DEF Writes, SInv, CallInv
    <2>2. Part(c)
      BY <1>2, <2>1 DEF Part, TypeOK
    <2>3. \A d \in Callers \ {c} :
            stage'[d] = stage[d] /\ req'[d] = req[d] /\ seen'[d] = seen[d]
      BY <1>2 DEF TypeOK
    <2> QED
      BY <1>2, <1>3, <2>2, <2>3
  <1>7. ASSUME NEW c \in Callers,
               Fail(c) \/ \E w \in writes : w.by = c /\ w.awaited /\ Refuse(w)
        PROVE  \A d \in Callers : Part(d) /\ Fresh(d)
    <2>1. /\ granted' = granted
          /\ stage' = [stage EXCEPT ![c] = "idle"]
          /\ req' = [req EXCEPT ![c] = None]
          /\ seen' = [seen EXCEPT ![c] = None]
          /\ witnessed' = [witnessed EXCEPT ![c] = TRUE]
      BY <1>2, <1>7, FailFrame, RefuseFrame
    <2>2. /\ stage'[c] = "idle" /\ req'[c] = None /\ witnessed'[c]
          /\ \A d \in Callers \ {c} :
               /\ stage'[d] = stage[d] /\ req'[d] = req[d] /\ seen'[d] = seen[d]
               /\ witnessed'[d] = witnessed[d]
      BY <1>2, <2>1 DEF TypeOK
    <2> QED
      BY <1>2, <1>3, <1>4, <2>1, <2>2
  <1>8. ASSUME NEW w \in writes, Refuse(w) PROVE \A d \in Callers : Part(d) /\ Fresh(d)
    <2>1. CASE w.awaited
      BY <1>2, <1>7, <1>8, <2>1, RefuseFrame
    <2>2. CASE ~w.awaited
      BY <1>2, <1>3, <1>8, <2>2, RefuseFrame
    <2> QED
      BY <2>1, <2>2
  <1>9. ASSUME NEW w \in writes, Apply(w) PROVE \A d \in Callers : Part(d) /\ Fresh(d)
    <2>1. /\ UNCHANGED <<granted, req, seen, witnessed>>
          /\ w.awaited => stage' = [stage EXCEPT ![w.by] = "acknowledged"]
          /\ ~w.awaited => stage' = stage
      BY <1>9 DEF Apply
    <2>2. ASSUME w.awaited PROVE Part(w.by)
      <3>1. /\ w.by \in Callers /\ w.new \in Records
            /\ stage[w.by] = "commit" /\ req[w.by].attempt = w.attempt /\ seen[w.by] = w.new
        BY <2>2 DEF SInv, TypeOK, WriteInv, Writes
      <3>2. stage'[w.by] = "acknowledged" /\ req[w.by] # None /\ w.new # None
        <4>1. stage'[w.by] = "acknowledged"
          BY <1>2, <2>1, <2>2, <3>1 DEF TypeOK
        <4>2. req[w.by] # None
          BY <3>1 DEF SInv, CallInv
        <4>3. w.new # None
          BY <3>1, NoneAssumption
        <4> QED
          BY <4>1, <4>2, <4>3
      <3>3. <<w.attempt, w.new>> \in history'
        BY <1>9, ApplyExtends
      <3> QED
        BY <2>1, <3>1, <3>2, <3>3 DEF Part
    <2>3. \A d \in Callers : ~(w.awaited /\ d = w.by) => stage'[d] = stage[d]
      BY <1>2, <2>1 DEF TypeOK
    <2> QED
      BY <1>2, <1>3, <2>1, <2>2, <2>3
  <1>10. CASE Grant
    <2>1. UNCHANGED <<stage, req, seen>> /\ \A d \in Callers : witnessed'[d]
      BY <1>10 DEF Grant
    <2> QED
      BY <1>3, <2>1
  <1>11. CASE UNCHANGED vars \/ Tick \/ Revoke \/ \E s \in seals : Seal(s)
    <2>1. UNCHANGED <<stage, req, seen, witnessed>> /\ (granted' => granted)
      BY <1>11 DEF vars, Tick, Revoke, Seal
    <2> QED
      BY <1>2, <1>3, <2>1
  <1> QED
    BY <1>5, <1>6, <1>7, <1>8, <1>9, <1>10, <1>11 DEF Next, Call, Ports

-----------------------------------------------------------------------------
(* Safety                                                                  *)

\* SInv is inductive.
LEMMA Invariance == Spec => []SInv
  <1>1. SInv /\ [Next]_vars => SInv'
    BY TypeStep, HistoryStep, OneEventStep, LaunchStep, ToldStep, WriteStep, CallStep DEF SInv
  <1> QED
    BY InitInvariant, <1>1, PTL DEF Spec

\* Every variable of the service and of its ports keeps its type.
THEOREM TypeCorrect == Spec => []TypeOK
  <1>1. SInv => TypeOK
    BY DEF SInv
  <1> QED
    BY Invariance, <1>1, PTL

\* A row is always one that validatedRecord accepts, whatever the clocks of the
\* calls that wrote it: no attempt is locked out by its own record.
THEOREM RecordsReadable == Spec => []RecordsAreReadable
  <1>1. ASSUME SInv, NEW a \in Attempts, record[a] # None PROVE Valid(record[a])
    <2> DEFINE h == <<a, record[a]>>
    <2>1. h \in history
      BY <1>1 DEF SInv, HistoryInv
    <2>2. Valid(h[2])
      BY <1>1, <2>1 DEF SInv, HistoryInv
    <2> QED
      BY <2>2
  <1>2. SInv => RecordsAreReadable
    BY <1>1 DEF RecordsAreReadable
  <1> QED
    BY Invariance, <1>2, PTL

\* What begin, receive, inspect or close returned is never taken back by what is
\* recorded later.
THEOREM ToldFinal == Spec => []ToldIsFinal
  <1>1. ASSUME SInv, NEW c \in Callers, told[c] # None
        PROVE  LET now == record[told[c][1]]
                   v == told[c][2]
               IN /\ now # None
                  /\ v.version <= now.version
                  /\ v.code # None => now.code = v.code
                  /\ v.session # None => now.session = v.session
                  /\ v.status \in Terminal => View(now) = v
    <2> PICK h \in history : told[c] = <<h[1], View(h[2])>>
      BY <1>1 DEF SInv, ToldInv
    <2>1. /\ View(h[2]).version = h[2].version /\ View(h[2]).code = h[2].code
          /\ View(h[2]).session = h[2].session /\ View(h[2]).status = h[2].status
      BY DEF View
    <2>2. record[h[1]] # None /\ Extends(record[h[1]], h[2])
      BY <1>1 DEF SInv, HistoryInv
    <2> QED
      BY <2>1, <2>2 DEF Extends
  <1>2. SInv => ToldIsFinal
    BY <1>1 DEF ToldIsFinal
  <1> QED
    BY Invariance, <1>2, PTL

\* receive records a code only when the vault has it, and the vault never changes
\* its mind: whoever redeems the recorded code finds it.
THEOREM CodesInCustody == Spec => []CodeInCustody
  <1>1. ASSUME SInv, NEW a \in Attempts, record[a] # None, record[a].code # None
        PROVE  vault[a] = record[a].code
    <2> DEFINE h == <<a, record[a]>>
    <2>1. h \in history
      BY <1>1 DEF SInv, HistoryInv
    <2>2. InCustody(h[1], h[2])
      BY <1>1, <2>1 DEF SInv, HistoryInv
    <2> QED
      BY <1>1, <2>2 DEF InCustody
  <1>2. SInv => CodeInCustody
    BY <1>1 DEF CodeInCustody
  <1> QED
    BY Invariance, <1>2, PTL

\* Every version of an attempt has exactly one outbox event, and none is missing.
THEOREM OneEvent == Spec => []OneEventPerVersion
  <1>1. SInv => OneEventPerVersion
    BY DEF SInv
  <1> QED
    BY Invariance, <1>1, PTL

\* begin hands out state and nonce only after the attempt is recorded.
THEOREM LaunchDurable == Spec => []LaunchesAreDurable
  <1>1. SInv => LaunchesAreDurable
    BY DEF SInv
  <1> QED
    BY Invariance, <1>1, PTL

\* receive sends a fragment to the repository only under a grant that it has
\* checked after the vault answered.
THEOREM FreshAuthority == Spec => AuthorityIsFresh
  <1> USE DEF calls, stores, results
  <1> DEFINE Fresh == \A w \in writes' \ writes :
               w.awaited /\ w.prev # None /\ w.new.status \notin Terminal => witnessed[w.by]
  <1>1. ASSUME SInv, [Next]_vars PROVE Fresh
    <2>1. ASSUME NEW c \in Callers, Insert(c) \/ Commit(c) \/ Close(c) PROVE Fresh
      <3> PICK w \in Writes :
            /\ w.by = c
            /\ w.prev # None /\ w.new.status \notin Terminal => granted
            /\ writes' = writes \cup {w}
        BY <1>1, <2>1, CallSends
      <3> QED
        BY <1>1 DEF SInv, CallInv
    <2>2. ASSUME NEW c \in Callers, Fail(c) PROVE Fresh
      <3>1. \A v \in writes' : v \in writes \/ ~v.awaited
        BY <1>1, <2>2, FailFrame DEF SInv
      <3> QED
        BY <3>1
    <2>3. ASSUME NEW c \in Callers,
                 \/ \E r \in Requests : Start(c, r)
                 \/ Authorize(c) \/ Answer(c) \/ Admit(c) \/ Sealed(c)
                 \/ Return(c) \/ Reject(c)
          PROVE  Fresh
      BY <1>1, <2>3, QuietFrame DEF SInv
    <2>4. CASE Ports \/ UNCHANGED vars
      BY <2>4 DEF Ports, Apply, Refuse, Seal, Tick, Revoke, Grant, vars
    <2> QED
      BY <1>1, <2>1, <2>2, <2>3, <2>4 DEF Next, Call
  <1>2. SInv /\ [Next]_vars => [Fresh]_vars
    BY <1>1
  <1> QED
    BY Invariance, <1>2, PTL DEF Spec, AuthorityIsFresh

-----------------------------------------------------------------------------
(* SignupStore                                                             *)

\* The vocabulary of SignupStore is that of SignupAttempts.
LEMMA SameVocabulary ==
  /\ Promise!Terminal = Terminal
  /\ Promise!Fragments = Fragments
  /\ Promise!FirstView = FirstView
  /\ \A r, f : Promise!Prior(r, f) = Prior(r, f)
  /\ \A r, f : Promise!WithFragment(r, f) = WithFragment(r, f)
  /\ \A r, s : Promise!Closed(r, s) = Closed(r, s)
  <1>1. /\ Promise!Terminal = Terminal
        /\ Promise!Fragments = Fragments
        /\ Promise!FirstView = FirstView
        /\ \A r, f : Promise!Prior(r, f) = Prior(r, f)
    BY DEF Promise!Terminal, Terminal, Promise!Fragments, Fragments,
           Promise!FirstView, FirstView, Promise!Prior, Prior
  <1>2. \A code, session : Promise!ExpectedState(code, session) = ExpectedState(code, session)
    BY DEF Promise!ExpectedState, ExpectedState
  <1>3. \A r, f : Promise!WithFragment(r, f) = WithFragment(r, f)
    BY <1>2 DEF Promise!WithFragment, WithFragment
  <1>4. \A r, s : Promise!Closed(r, s) = Closed(r, s)
    BY DEF Promise!Closed, Closed
  <1> QED
    BY <1>1, <1>3, <1>4

\* At first the store is empty.
LEMMA InitMaps == Init => Promise!Init
  BY DEF Init, Promise!Init

\* A write that is applied opens, extends or closes the attempt.
LEMMA ApplyMaps ==
  ASSUME SInv, NEW w \in writes, Apply(w)
  PROVE  Promise!Open(w.attempt) \/ Promise!Collect(w.attempt) \/ Promise!Close(w.attempt)
  <1> USE DEF results
  <1> DEFINE a == w.attempt
             Cur == [b \in Attempts |-> IF record[b] = None THEN None ELSE View(record[b])]
             v == View(w.new)
  <1>1. /\ a \in Attempts /\ record[a] = w.prev
        /\ record' = [record EXCEPT ![a] = w.new]
        /\ history' = history \cup {<<a, w.new>>}
        /\ w.new # None /\ told' = told
    BY ApplyExtends, NoneAssumption DEF Apply
  <1>2. Cur' = [Cur EXCEPT ![a] = v]
    BY <1>1 DEF SInv, TypeOK, View
  <1>3. {<<h[1], View(h[2])>> : h \in history'}
          = {<<h[1], View(h[2])>> : h \in history} \cup {<<a, v>>}
    <2> DEFINE e == <<a, w.new>>
    <2>1. <<e[1], View(e[2])>> = <<a, v>>
      OBVIOUS
    <2> HIDE DEF e
    <2>2. {<<h[1], View(h[2])>> : h \in history \cup {e}}
            = {<<h[1], View(h[2])>> : h \in history} \cup {<<e[1], View(e[2])>>}
      OBVIOUS
    <2> QED
      BY <1>1, <2>1, <2>2 DEF e
  <1>4. Promise!Becomes(a, v)
    BY <1>1, <1>2, <1>3 DEF Promise!Becomes, View
  <1>5. CASE w.prev = None
    BY <1>1, <1>4, <1>5, ApplyExtends, SameVocabulary DEF Promise!Open
  <1>6. CASE w.prev # None
    <2>1. w.prev \in Records /\ Follows(w.new, w.prev) /\ Cur[a] = View(w.prev)
      BY <1>1, <1>6, ApplyExtends
    <2>2. /\ View(w.prev).code = w.prev.code /\ View(w.prev).session = w.prev.session
          /\ View(w.prev).status = w.prev.status
      BY DEF View
    <2>3. View(w.prev) # None
      BY <2>1, ViewsOfRecords, NoneAssumption
    <2>4. Promise!Live(a)
      BY <2>1, <2>2, <2>3, SameVocabulary DEF Promise!Live, Follows, View
    <2>5. ASSUME NEW f \in Fragments, Prior(w.prev, f) = None, v = WithFragment(View(w.prev), f)
          PROVE  Promise!Collect(a)
      <3>1. f \in Promise!Fragments /\ Promise!Prior(Cur[a], f) = None
        BY <2>1, <2>2, <2>5, SameVocabulary DEF Prior
      <3>2. v = Promise!WithFragment(Cur[a], f)
        BY <2>1, <2>5, SameVocabulary
      <3> QED
        BY <1>4, <2>4, <3>1, <3>2, Zenon DEF Promise!Collect, Promise!Becomes
    <2>6. ASSUME NEW s \in Terminal, v = Closed(View(w.prev), s)
          PROVE  Promise!Close(a)
      <3>1. s \in Promise!Terminal /\ v = Promise!Closed(Cur[a], s)
        BY <2>1, <2>6, SameVocabulary
      <3> QED
        BY <1>4, <2>4, <3>1, Zenon DEF Promise!Close, Promise!Becomes
    <2> QED
      BY <2>1, <2>5, <2>6 DEF Follows
  <1> QED
    BY <1>5, <1>6

\* A call that returns a record tells a view that is in the history.
LEMMA TellMaps ==
  ASSUME SInv, NEW c \in Callers, NEW r, <<req[c].attempt, r>> \in history, Tell(c, r),
         record' = record, history' = history
  PROVE  Promise!Tell(c)
  <1> DEFINE e == <<req[c].attempt, r>>
  <1>1. told' = [told EXCEPT ![c] = <<e[1], View(e[2])>>] /\ e \in history
    BY DEF Tell
  <1>2. \E h \in {<<g[1], View(g[2])>> : g \in history} : told' = [told EXCEPT ![c] = h]
    BY <1>1
  <1> QED
    BY <1>2 DEF Promise!Tell, View

\* SignupAttempts implements SignupStore: its history and its answers are those
\* of a store that takes each fragment once and ends each attempt once.
THEOREM Refinement == Spec => ImplementsStore
  <1> USE DEF stores, results
  <1>1. ASSUME SInv, [Next]_vars PROVE Promise!Next \/ UNCHANGED Promise!vars
    <2>1. CASE \E w \in writes : Apply(w)
      BY <1>1, <2>1, ApplyMaps, ApplyExtends DEF Promise!Next
    <2>2. CASE \E c \in Callers : Answer(c)
      <3> PICK c \in Callers : Answer(c)
        BY <2>2
      <3>1. <<req[c].attempt, Row(c)>> \in history
        BY <1>1, RowRead DEF Answer, Answered, Receives, Closes
      <3>2. Promise!Tell(c)
        BY <1>1, <3>1, TellMaps DEF Answer
      <3> QED
        BY <3>2 DEF Promise!Next
    <2>3. CASE \E c \in Callers : Return(c)
      <3> PICK c \in Callers : Return(c)
        BY <2>3
      <3>1. Promise!Tell(c)
        BY <1>1, Acknowledged, TellMaps DEF Return
      <3> QED
        BY <3>1 DEF Promise!Next
    <2>4. CASE UNCHANGED <<record, history, told>>
      BY <2>4 DEF Promise!vars, View
    <2>5. ASSUME NEW s \in seals, Seal(s) PROVE UNCHANGED <<record, history, told>>
      BY <2>5 DEF Seal
    <2> QED
      BY <1>1, <2>1, <2>2, <2>3, <2>4, <2>5, StoreFrame, ToldFrame
  <1>2. SInv /\ [Next]_vars => [Promise!Next]_(Promise!vars)
    BY <1>1
  <1> QED
    BY InitMaps, Invariance, <1>2, PTL DEF Spec, Promise!Spec, ImplementsStore
=============================================================================
