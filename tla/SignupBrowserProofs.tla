------------------------ MODULE SignupBrowserProofs ------------------------
(* What a page shows as acknowledged or cancelled is recorded, for any number of
   calls, attempts and fragments, and whatever its user, observer, timers and
   transport do.  The page and the server meet in the wire and in the history:
   the page's steps leave the server alone, the server's steps leave all but the
   wire alone, and the history only grows.                                   *)
EXTENDS SignupBrowser, SignupProofs

-----------------------------------------------------------------------------
(* The server under the page                                               *)

\* Every step of the composition is a step of SignupAttempts, or leaves it alone.
LEMMA ServerSteps == ASSUME BrowserNext PROVE [Next]_vars
  <1>1. ASSUME NEW c \in Callers, Serve(c) \/ Break(c) PROVE Call(c)
    BY <1>1 DEF Serve, Break, Call
  <1>2. ASSUME NEW c \in Callers, NEW r \in Requests, HostStart(c, r) PROVE Call(c)
    BY <1>2 DEF HostStart, Call
  <1>3. ASSUME NEW c \in Callers, NEW i \in DOMAIN wire, Carry(c, i) PROVE Call(c)
    BY <1>3 DEF Carry, Asked, Call
  <1>4. PortsAnswer \/ World => Ports
    BY DEF PortsAnswer, World, Ports
  <1>5. User \/ Browser => UNCHANGED vars
    BY DEF User, Browser
  <1>6. ASSUME NEW i \in DOMAIN wire, Rejects(i) PROVE UNCHANGED vars
    BY <1>6 DEF Rejects, vars
  <1> QED
    BY <1>1, <1>2, <1>3, <1>4, <1>5, <1>6 DEF BrowserNext, Next

\* What is sent to be recorded holds the fragment that was received.
LEMMA CommitOffers ==
  ASSUME SInv, NEW c \in Callers, Commit(c)
  PROVE  Prior(seen'[c], req[c].fragment) = req[c].fragment
  <1>1. /\ req[c] \in Requests /\ seen[c] \in Records /\ seen \in [Callers -> Records \cup {None}]
    BY DEF SInv, TypeOK, CallInv, Commit
  <1>2. req[c].fragment \in Fragments
    BY <1>1, RequestAssumption
  <1> PICK now \in Clock :
        seen' = [seen EXCEPT ![c] = [WithFragment(seen[c], req[c].fragment) EXCEPT !.updated = now]]
    BY DEF Commit
  <1> DEFINE f == req[c].fragment
             code == IF f \in Codes THEN f ELSE seen[c].code
             session == IF f \in Sessions THEN f ELSE seen[c].session
             new == [profile |-> seen[c].profile, expires |-> seen[c].expires, updated |-> now,
                     version |-> seen[c].version + 1, status |-> ExpectedState(code, session),
                     code |-> code, session |-> session]
  <1>3. seen'[c] = new
    BY <1>1, FragmentFields
  <1>4. new.code = code /\ new.session = session
    OBVIOUS
  <1> HIDE DEF new
  <1> QED
    BY <1>2, <1>3, <1>4 DEF Prior, Fragments

\* A call that moves on keeps its request, and moves no other call.
LEMMA CallMoves ==
  ASSUME SInv, NEW c \in Callers,
         Insert(c) \/ Authorize(c) \/ Admit(c) \/ Sealed(c) \/ Commit(c) \/ Close(c)
  PROVE  /\ stage'[c] # "idle" /\ req' = req
         /\ \A d \in Callers \ {c} : stage'[d] = stage[d] /\ seen'[d] = seen[d]
  <1> USE DEF SInv, TypeOK, Goto, Send
  <1>1. CASE Insert(c) \/ Authorize(c)
    BY <1>1 DEF Insert, Authorize
  <1>2. CASE Admit(c) \/ Sealed(c)
    BY <1>2 DEF Admit, Sealed
  <1>3. CASE Commit(c)
    BY <1>3 DEF Commit
  <1>4. CASE Close(c)
    BY <1>4 DEF Close, End
  <1> QED
    BY <1>1, <1>2, <1>3, <1>4

\* A call that ends is idle, and ends no other call.
LEMMA CallEnds ==
  ASSUME SInv, NEW c \in Callers,
         \/ Answer(c) \/ Return(c) \/ Reject(c) \/ Fail(c)
         \/ \E w \in writes : w.awaited /\ w.by = c /\ Refuse(w)
  PROVE  /\ stage'[c] = "idle"
         /\ \A d \in Callers \ {c} :
              stage'[d] = stage[d] /\ req'[d] = req[d] /\ seen'[d] = seen[d]
  <1>1. Idle(c)
    BY DEF Answer, Return, Reject, Fail, Refuse
  <1> QED
    BY <1>1 DEF SInv, TypeOK, Idle, Goto

\* A request that is taken up starts an idle call, and moves no other.
LEMMA CallStarts ==
  ASSUME SInv, NEW c \in Callers, NEW r, Start(c, r)
  PROVE  /\ stage[c] = "idle" /\ stage'[c] = "authorize" /\ req'[c] = r
         /\ \A d \in Callers \ {c} :
              stage'[d] = stage[d] /\ req'[d] = req[d] /\ seen'[d] = seen[d]
  BY DEF SInv, TypeOK, Start, Goto

\* The repository, the vault, the clock and the authority start and end no call.
LEMMA PortsKeep ==
  ASSUME SInv,
         \/ \E w \in writes : Apply(w) \/ (~w.awaited /\ Refuse(w))
         \/ \E s \in seals : Seal(s)
         \/ Tick \/ Revoke \/ Grant
  PROVE  /\ req' = req /\ seen' = seen
         /\ \A d \in Callers :
              \/ stage'[d] = stage[d]
              \/ stage[d] = "commit" /\ stage'[d] = "acknowledged"
  <1> USE DEF calls
  <1>1. ASSUME NEW w \in writes, Apply(w)
        PROVE  /\ req' = req /\ seen' = seen
               /\ \A d \in Callers :
                    \/ stage'[d] = stage[d]
                    \/ stage[d] = "commit" /\ stage'[d] = "acknowledged"
    BY <1>1 DEF SInv, TypeOK, WriteInv, Apply
  <1>2. ASSUME NEW w \in writes, ~w.awaited, Refuse(w) PROVE UNCHANGED calls
    BY <1>2 DEF Refuse
  <1>3. ASSUME NEW s \in seals, Seal(s) PROVE UNCHANGED calls
    BY <1>3 DEF Seal
  <1>4. Tick \/ Revoke \/ Grant => UNCHANGED calls
    BY DEF Tick, Revoke, Grant
  <1> QED
    BY <1>1, <1>2, <1>3, <1>4

\* OfferInv is inductive relative to SInv.
LEMMA OfferStep == ASSUME SInv, OfferInv, [Next]_vars PROVE OfferInv'
  <1> DEFINE Part(d) == stage[d] \in {"commit", "acknowledged"} /\ req[d].op = "receive" =>
                          Prior(seen[d], req[d].fragment) = req[d].fragment
             PartNext(d) == stage'[d] \in {"commit", "acknowledged"} /\ req'[d].op = "receive" =>
                          Prior(seen'[d], req'[d].fragment) = req'[d].fragment
  <1>1. SUFFICES \A d \in Callers : PartNext(d)
    BY <1>1 DEF OfferInv, Prior
  <1>2. \A d \in Callers : stage'[d] \in {stage[d], "acknowledged"} /\ req'[d] = req[d] /\ seen'[d] = seen[d]
          /\ (stage'[d] # stage[d] => stage[d] = "commit") => PartNext(d)
    BY DEF OfferInv
  <1>3. ASSUME NEW c \in Callers, Insert(c) \/ Authorize(c) \/ Admit(c) \/ Sealed(c) \/ Commit(c) \/ Close(c)
        PROVE  PartNext(c)
    <2>1. CASE Commit(c)
      BY <2>1, CommitOffers, CallMoves
    <2>2. CASE Insert(c) \/ Close(c)
      BY <2>2, CallMoves DEF Insert, Close, Closes
    <2>3. CASE Authorize(c) \/ Admit(c) \/ Sealed(c)
      BY <2>3 DEF Authorize, Admit, Sealed, Goto, SInv, TypeOK
    <2> QED
      BY <1>3, <2>1, <2>2, <2>3
  <1> HIDE DEF PartNext
  <1>4. ASSUME NEW c \in Callers, Insert(c) \/ Authorize(c) \/ Admit(c) \/ Sealed(c) \/ Commit(c) \/ Close(c)
        PROVE  \A d \in Callers : PartNext(d)
    <2>1. \A d \in Callers \ {c} : PartNext(d)
      BY <1>2, <1>4, CallMoves
    <2> QED
      BY <1>3, <1>4, <2>1
  <1>5. ASSUME NEW c \in Callers,
               \/ \E r \in Requests : Start(c, r)
               \/ Answer(c) \/ Return(c) \/ Reject(c) \/ Fail(c)
               \/ \E w \in writes : w.awaited /\ w.by = c /\ Refuse(w)
        PROVE  \A d \in Callers : PartNext(d)
    <2>1. /\ stage'[c] \in {"idle", "authorize"}
          /\ \A d \in Callers \ {c} :
               stage'[d] = stage[d] /\ req'[d] = req[d] /\ seen'[d] = seen[d]
      BY <1>5, CallEnds, CallStarts
    <2>2. PartNext(c)
      BY <2>1 DEF PartNext
    <2> QED
      BY <1>2, <2>1, <2>2
  <1>6. CASE \/ \E w \in writes : Apply(w) \/ (~w.awaited /\ Refuse(w))
             \/ \E s \in seals : Seal(s)
             \/ Tick \/ Revoke \/ Grant
    BY <1>2, <1>6, PortsKeep
  <1>7. CASE UNCHANGED vars
    BY <1>2, <1>7 DEF vars, calls
  <1>8. \A w \in writes : w.by \in Callers
    BY DEF SInv, TypeOK, Writes
  <1> QED
    BY <1>4, <1>5, <1>6, <1>7, <1>8 DEF Next, Call, Ports

-----------------------------------------------------------------------------
(* Steps of the server                                                     *)

\* What the attempt of the page has been stays what it has been.
LEMMA PastGrows == ASSUME SInv, [Next]_vars PROVE Past \subseteq Past'
  BY StoresGrow DEF Past

\* A page that is left alone keeps what it knows.
LEMMA PageRests ==
  ASSUME BInv, [Next]_vars, UNCHANGED pageVars
  PROVE  PageInv' /\ ShownInv'
  <1>1. PageInv'
    BY DEF BInv, PageInv, Filled, pageVars
  <1>2. ShownInv'
    BY PastGrows DEF BInv, ShownInv, Acked, Prior, pageVars
  <1> QED
    BY <1>1, <1>2

\* The answer reaches the call that it is for.
LEMMA ReplyReaches ==
  ASSUME NEW c \in Callers, NEW v \in Views \cup {None}, Replied(c, v)
  PROVE  /\ wire = <<>> => wire' = <<>>
         /\ \A m \in Messages : wire = <<m>> =>
              wire' = <<IF m.at = c THEN [kind |-> m.kind, at |-> "answered",
                                          view |-> v, body |-> m.body] ELSE m>>
  <1>1. wire' = [i \in DOMAIN wire |->
                   IF wire[i].at = c THEN [wire[i] EXCEPT !.at = "answered", !.view = v] ELSE wire[i]]
    BY DEF Replied
  <1>2. wire = <<>> => wire' = <<>>
    BY <1>1
  <1>3. ASSUME NEW m \in Messages, wire = <<m>>
        PROVE  wire' = <<IF m.at = c THEN [kind |-> m.kind, at |-> "answered",
                                           view |-> v, body |-> m.body] ELSE m>>
    <2>1. [m EXCEPT !.at = "answered", !.view = v]
            = [kind |-> m.kind, at |-> "answered", view |-> v, body |-> m.body]
      <3> DEFINE q == [m EXCEPT !.at = "answered"]
      <3>1. q = [kind |-> m.kind, at |-> "answered", view |-> m.view, body |-> m.body]
        BY DEF Messages
      <3> HIDE DEF q
      <3>2. [q EXCEPT !.view = v]
              = [kind |-> m.kind, at |-> "answered", view |-> v, body |-> m.body]
        BY <3>1
      <3> QED
        BY <3>2 DEF q
    <2> DEFINE n == IF m.at = c THEN [m EXCEPT !.at = "answered", !.view = v] ELSE m
    <2>2. wire' = <<n>>
      <3>1. DOMAIN wire = {1} /\ wire[1] = m
        BY <1>3
      <3>2. wire' = [i \in {1} |-> n]
        BY <1>1, <3>1
      <3> HIDE DEF n
      <3>3. [i \in {1} |-> n] = <<n>>
        OBVIOUS
      <3> QED
        BY <3>2, <3>3
    <2> QED
      BY <2>1, <2>2
  <1> QED
    BY <1>2, <1>3

\* A call that answers the page answers with what its attempt has been, and with
\* the fragment that the page sent.
LEMMA AnswerHolds ==
  ASSUME SInv, OfferInv, NEW c \in Callers, Answer(c) \/ Return(c), req[c].attempt = Ticket
  PROVE  \E r \in Past :
           /\ told'[c][2] = View(r) /\ View(r) \in Views
           /\ req[c].op = "receive" => /\ req[c].fragment \in Fragments
                                       /\ Prior(r, req[c].fragment) = req[c].fragment
  <1>1. req[c] \in Requests /\ told \in [Callers -> (Attempts \X Views) \cup {None}]
    BY DEF SInv, TypeOK, CallInv, Answer, Answered, Receives, Closes, Loaded, Return
  <1>2. req[c].fragment \in Fragments
    BY <1>1, RequestAssumption
  <1>3. ASSUME NEW r, <<req[c].attempt, r>> \in history, Tell(c, r),
               req[c].op = "receive" => Prior(r, req[c].fragment) = req[c].fragment
        PROVE  \E q \in Past :
                 /\ told'[c][2] = View(q) /\ View(q) \in Views
                 /\ req[c].op = "receive" => /\ req[c].fragment \in Fragments
                                             /\ Prior(q, req[c].fragment) = req[c].fragment
    <2>1. r \in Past
      <3> DEFINE h == <<req[c].attempt, r>>
      <3>1. h \in history /\ h[1] = Ticket /\ h[2] = r
        BY <1>3
      <3> QED
        BY <3>1 DEF Past
    <2>2. r \in Records
      BY <1>3 DEF SInv, TypeOK
    <2>3. told'[c] = <<req[c].attempt, View(r)>>
      BY <1>1, <1>3 DEF Tell
    <2> QED
      BY <1>2, <1>3, <2>1, <2>2, <2>3, ViewsOfRecords
  <1>4. CASE Answer(c)
    <2>1. Loaded(c) /\ Tell(c, Row(c))
      BY <1>4 DEF Answer, Answered, Receives, Closes
    <2>2. req[c].op = "receive" => Prior(Row(c), req[c].fragment) = req[c].fragment
      BY <1>4 DEF Answer, Answered, Closes
    <2> QED
      BY <1>3, <2>1, <2>2, RowRead
  <1>5. CASE Return(c)
    <2>1. Tell(c, seen[c]) /\ stage[c] = "acknowledged"
      BY <1>5 DEF Return
    <2>2. <<req[c].attempt, seen[c]>> \in history
      BY <1>5, Acknowledged
    <2>3. req[c].op = "receive" => Prior(seen[c], req[c].fragment) = req[c].fragment
      BY <2>1 DEF OfferInv
    <2> QED
      BY <1>3, <2>1, <2>2, <2>3
  <1> QED
    BY <1>4, <1>5

\* Any answer is a view.
LEMMA ToldViews ==
  ASSUME SInv, NEW c \in Callers, Answer(c) \/ Return(c)
  PROVE  told'[c][2] \in Views
  <1>1. \E r \in Records : Tell(c, r)
    <2>1. CASE Answer(c)
      BY <2>1, RowRead DEF Answer, Answered, Receives, Closes
    <2>2. CASE Return(c)
      <3>1. <<req[c].attempt, seen[c]>> \in history
        BY <2>2, Acknowledged
      <3> QED
        BY <2>2, <3>1 DEF Return, SInv, TypeOK
    <2> QED
      BY <2>1, <2>2
  <1> PICK r \in Records : told' = [told EXCEPT ![c] = <<req[c].attempt, View(r)>>]
    BY <1>1 DEF Tell
  <1>2. told'[c] = <<req[c].attempt, View(r)>>
    BY DEF SInv, TypeOK
  <1> QED
    BY <1>2, ViewsOfRecords

\* A call of the bridge that stays where it is: what is known of it stays, if the
\* host's call goes on.
LEMMA TrackedKept ==
  ASSUME BInv, [Next]_vars, UNCHANGED pageVars, NEW m \in Messages, Tracked(m),
         m.at \in Callers => stage'[m.at] # "idle" /\ req'[m.at] = req[m.at]
  PROVE  Tracked(m)'
  BY PastGrows DEF BInv, Tracked, Prior, View, pageVars

\* The same for the wire, when no call of the host ends.
LEMMA WireKept ==
  ASSUME BInv, [Next]_vars, UNCHANGED bridgeVars,
         \A d \in Callers : stage[d] # "idle" => stage'[d] # "idle" /\ req'[d] = req[d]
  PROVE  WireInv'
  <1>1. ASSUME wire # <<>> PROVE \E m \in Messages : wire = <<m>> /\ Tracked(m)'
    <2> PICK m \in Messages : wire = <<m>> /\ Tracked(m)
      BY <1>1 DEF BInv, WireInv
    <2>1. Tracked(m)'
      BY TrackedKept DEF bridgeVars, Tracked
    <2> QED
      BY <2>1
  <1> QED
    BY <1>1 DEF BInv, WireInv, bridgeVars, pageVars

\* And when the call that ends has replied.
LEMMA WireReplied ==
  ASSUME BInv, [Next]_vars, NEW c \in Callers, NEW v \in Views \cup {None}, Replied(c, v),
         \A d \in Callers \ {c} : stage'[d] = stage[d] /\ req'[d] = req[d],
         v # None /\ req[c].attempt = Ticket => \E r \in Past :
           /\ v = View(r)
           /\ req[c].op = "receive" => /\ req[c].fragment \in Fragments
                                       /\ Prior(r, req[c].fragment) = req[c].fragment
  PROVE  WireInv'
  <1>1. UNCHANGED pageVars
    BY DEF Replied
  <1>2. CASE wire = <<>>
    BY <1>2, ReplyReaches DEF WireInv
  <1>3. CASE wire # <<>>
    <2> PICK m \in Messages : wire = <<m>> /\ Tracked(m) /\ outstanding
      BY <1>3 DEF BInv, WireInv
    <2>1. CASE m.at = c
      <3> DEFINE n == [kind |-> m.kind, at |-> "answered", view |-> v, body |-> m.body]
      <3>1. wire' = <<n>> /\ n \in Messages
        BY <2>1, ReplyReaches DEF Messages
      <3>2. n.kind = m.kind /\ n.body = m.body /\ n.at \notin Callers /\ n.view = v
        BY TicketAssumption
      <3>3. v # None => \E r \in Past' :
              v = View(r) /\ (m.kind \in Kinds => m.body \in Fragments /\ Prior(r, m.body) = m.body)
        BY <2>1, PastGrows DEF Tracked, BInv
      <3> HIDE DEF n
      <3>4. Tracked(n)'
        BY <1>1, <3>2, <3>3 DEF Tracked, View, Prior, pageVars
      <3> QED
        BY <1>1, <3>1, <3>4 DEF WireInv, pageVars
    <2>2. CASE m.at # c
      <3>1. wire' = <<m>>
        BY <2>2, ReplyReaches
      <3>2. Tracked(m)'
        BY <1>1, <2>2, TrackedKept DEF Tracked
      <3> QED
        BY <1>1, <3>1, <3>2 DEF WireInv, pageVars
    <2> QED
      BY <2>1, <2>2
  <1> QED
    BY <1>2, <1>3

\* A request that is carried is known to be what the page sent.
LEMMA WireCarried ==
  ASSUME BInv, [Next]_vars, NEW c \in Callers, NEW i \in DOMAIN wire, Carry(c, i)
  PROVE  WireInv'
  <1> PICK m \in Messages : wire = <<m>> /\ Tracked(m) /\ outstanding
    BY DEF BInv, WireInv
  <1> DEFINE n == [kind |-> m.kind, at |-> c, view |-> m.view, body |-> m.body]
  <1>1. i = 1 /\ wire[i] = m /\ UNCHANGED pageVars
    BY DEF Carry
  <1>2. [m EXCEPT !.at = c] = n /\ n \in Messages
    BY DEF Messages
  <1>3. wire' = <<n>>
    BY <1>1, <1>2 DEF Carry
  <1>4. n.kind = m.kind /\ n.body = m.body /\ n.at = c /\ n.view = m.view
    OBVIOUS
  <1> PICK r \in Asked(m) : Start(c, r)
    BY <1>1 DEF Carry
  <1>5. /\ stage'[c] = "authorize" /\ req'[c].attempt = Ticket
        /\ m.kind \in Kinds => req'[c].op = "receive" /\ req'[c].fragment = m.body
    BY CallStarts DEF Asked, BInv, Kinds
  <1> HIDE DEF n
  <1>6. Tracked(n)'
    BY <1>1, <1>4, <1>5, PastGrows DEF Tracked, BInv, View, Prior, pageVars
  <1> QED
    BY <1>1, <1>2, <1>3, <1>6 DEF WireInv, pageVars

\* A transport that rejects answers with nothing new.
LEMMA WireRejected ==
  ASSUME BInv, NEW i \in DOMAIN wire, Rejects(i)
  PROVE  WireInv'
  <1> PICK m \in Messages : wire = <<m>> /\ Tracked(m) /\ outstanding
    BY DEF BInv, WireInv
  <1> DEFINE n == [kind |-> m.kind, at |-> "answered", view |-> m.view, body |-> m.body]
  <1>1. i = 1 /\ wire[i] = m /\ UNCHANGED <<vars, pageVars>>
    BY DEF Rejects
  <1>2. [m EXCEPT !.at = "answered"] = n /\ n \in Messages
    BY DEF Messages
  <1>3. wire' = <<n>>
    BY <1>1, <1>2 DEF Rejects
  <1>4. n.kind = m.kind /\ n.body = m.body /\ n.at \notin Callers /\ n.view = m.view
    BY TicketAssumption
  <1> HIDE DEF n
  <1>5. Past' = Past
    BY <1>1 DEF Past, vars, stores
  <1>6. Tracked(n)'
    BY <1>1, <1>4, <1>5 DEF Tracked, View, Prior, pageVars
  <1> QED
    BY <1>1, <1>2, <1>3, <1>6 DEF WireInv, pageVars

\* The steps of the server keep the wire, whichever call they are of.
LEMMA ServerWire ==
  ASSUME BInv, [Next]_vars,
         \/ \E c \in Callers : \/ Serve(c) \/ Break(c)
                               \/ \E r \in Requests : HostStart(c, r)
                               \/ \E i \in DOMAIN wire : Carry(c, i)
         \/ PortsAnswer \/ World
  PROVE  WireInv' /\ UNCHANGED pageVars
  <1> USE DEF bridgeVars
  <1>0. SInv /\ OfferInv
    BY DEF BInv
  <1>1. ASSUME NEW c \in Callers, (Answer(c) \/ Return(c)) /\ Replied(c, told'[c][2])
        PROVE  WireInv' /\ UNCHANGED pageVars
    <2> DEFINE v == told'[c][2]
    <2>1. \A d \in Callers \ {c} : stage'[d] = stage[d] /\ req'[d] = req[d]
      BY <1>0, <1>1, CallEnds
    <2>2. CASE req[c].attempt = Ticket
      <3>1. \E r \in Past :
               /\ v = View(r) /\ View(r) \in Views
               /\ req[c].op = "receive" => /\ req[c].fragment \in Fragments
                                           /\ Prior(r, req[c].fragment) = req[c].fragment
        BY <1>0, <1>1, <2>2, AnswerHolds
      <3>2. v \in Views \cup {None}
        BY <3>1
      <3> HIDE DEF v
      <3>3. Replied(c, v)
        BY <1>1 DEF v
      <3> QED
        BY <2>1, <3>1, <3>2, <3>3, WireReplied DEF Replied
    <2>3. CASE req[c].attempt # Ticket
      <3>1. v \in Views
        BY <1>0, <1>1, ToldViews
      <3> HIDE DEF v
      <3>2. Replied(c, v)
        BY <1>1 DEF v
      <3> QED
        BY <2>1, <2>3, <3>1, <3>2, WireReplied DEF Replied
    <2> QED
      BY <2>2, <2>3
  <1>2. ASSUME NEW c \in Callers, Replied(c, None),
               \/ Reject(c) \/ Fail(c)
               \/ \E w \in writes : w.awaited /\ w.by = c /\ Refuse(w)
        PROVE  WireInv' /\ UNCHANGED pageVars
    <2>1. \A d \in Callers \ {c} : stage'[d] = stage[d] /\ req'[d] = req[d]
      BY <1>0, <1>2, CallEnds
    <2> QED
      BY <1>2, <2>1, WireReplied DEF Replied
  <1>3. ASSUME NEW c \in Callers, UNCHANGED bridgeVars,
               Insert(c) \/ Authorize(c) \/ Admit(c) \/ Sealed(c) \/ Commit(c) \/ Close(c)
        PROVE  WireInv' /\ UNCHANGED pageVars
    <2>1. \A d \in Callers : stage[d] # "idle" => stage'[d] # "idle" /\ req'[d] = req[d]
      BY <1>0, <1>3, CallMoves
    <2> QED
      BY <1>3, <2>1, WireKept
  <1>4. ASSUME NEW c \in Callers, NEW r \in Requests, HostStart(c, r)
        PROVE  WireInv' /\ UNCHANGED pageVars
    <2>1. \A d \in Callers : stage[d] # "idle" => stage'[d] # "idle" /\ req'[d] = req[d]
      BY <1>0, <1>4, CallStarts DEF HostStart
    <2> QED
      BY <1>4, <2>1, WireKept DEF HostStart
  <1>5. ASSUME UNCHANGED bridgeVars,
               \/ \E w \in writes : Apply(w) \/ (~w.awaited /\ Refuse(w))
               \/ \E s \in seals : Seal(s)
               \/ Tick \/ Revoke \/ Grant
        PROVE  WireInv' /\ UNCHANGED pageVars
    <2>1. \A d \in Callers : stage[d] # "idle" => stage'[d] # "idle" /\ req'[d] = req[d]
      BY <1>0, <1>5, PortsKeep
    <2> QED
      BY <1>5, <2>1, WireKept
  <1>6. ASSUME NEW c \in Callers, NEW i \in DOMAIN wire, Carry(c, i)
        PROVE  WireInv' /\ UNCHANGED pageVars
    BY <1>6, WireCarried DEF Carry
  <1>7. ASSUME NEW c \in Callers, Serve(c) \/ Break(c) PROVE WireInv' /\ UNCHANGED pageVars
    BY <1>1, <1>2, <1>3, <1>7 DEF Serve, Break
  <1>8. PortsAnswer => WireInv' /\ UNCHANGED pageVars
    <2> HAVE PortsAnswer
    <2>1. ASSUME NEW w \in writes, Refuse(w), w.awaited, Replied(w.by, None)
          PROVE  WireInv' /\ UNCHANGED pageVars
      <3>1. w.by \in Callers
        BY <1>0 DEF SInv, TypeOK, Writes
      <3> QED
        BY <1>2, <2>1, <3>1
    <2> QED
      BY <1>5, <2>1 DEF PortsAnswer
  <1>9. World => WireInv' /\ UNCHANGED pageVars
    BY <1>5 DEF World
  <1> QED
    BY <1>4, <1>6, <1>7, <1>8, <1>9

-----------------------------------------------------------------------------
(* Steps of the page                                                       *)

\* A step that makes no call, takes up no other one, acknowledges nothing and
\* cancels nothing.
LEMMA PageFrame ==
  ASSUME BInv, UNCHANGED <<vars, wire>>, outstanding => outstanding',
         pump' = "await" => pump = "await" /\ active' = active,
         \A k \in Filled : slots'[k] = slots[k],
         \A k \in Kinds \ Filled : slots'[k] = None \/ ~slots'[k].ack,
         bridge' = "cancelled" => bridge = "cancelled"
  PROVE  WireInv' /\ ShownInv'
  <1>1. Past' = Past
    BY DEF Past, vars, stores
  <1>2. ASSUME NEW m \in Messages, Tracked(m) PROVE Tracked(m)'
    <2>1. pump' = "await" => /\ m.kind = active'
                             /\ active' \in Kinds => m.body \in {None, slots'[active'].fragment}
      <3> SUFFICES ASSUME pump' = "await"
                   PROVE  /\ m.kind = active'
                          /\ active' \in Kinds => m.body \in {None, slots'[active'].fragment}
        OBVIOUS
      <3>1. pump = "await" /\ active' = active /\ active \in Filled \cup {"cancel"}
        BY DEF BInv, PageInv
      <3>2. active \in Kinds => active \in Filled
        BY <3>1 DEF Kinds
      <3> QED
        BY <1>2, <3>1, <3>2 DEF Tracked
    <2> QED
      BY <1>1, <1>2, <2>1 DEF Tracked, View, Prior, vars, calls
  <1>3. WireInv'
    BY <1>2 DEF BInv, WireInv
  <1>4. \A k \in Kinds : Acked(k)' => Acked(k) /\ slots'[k] = slots[k]
    BY DEF Acked, Filled
  <1>5. ShownInv'
    BY <1>1, <1>4 DEF BInv, ShownInv, Prior
  <1> QED
    BY <1>3, <1>5

\* What is queued stays queueable when more is collected.
LEMMA SeqWithin ==
  ASSUME NEW S, NEW T, S \subseteq T, NEW q \in Seq(S)
  PROVE  q \in Seq(T)
  OBVIOUS

\* A bridge that is shut has nothing to take up.
LEMMA ShutPage ==
  ASSUME PageInv, NEW reason, Shut(reason), slots' = slots,
         pump' \in {pump, "idle"}, outstanding' => outstanding, active' = active
  PROVE  PageInv'
  <1>1. Filled' = Filled
    BY DEF Filled
  <1>2. <<>> \in Seq(Filled)
    OBVIOUS
  <1> QED
    BY <1>1, <1>2 DEF PageInv, Shut

LEMMA StopPage ==
  ASSUME PageInv, NEW reason, Stop(reason), slots' = slots,
         outstanding' = outstanding, active' = active
  PROVE  PageInv' /\ pump' \in {pump, "idle"} /\ pump' # "await"
  BY ShutPage DEF Stop, Notices

\* A pump that is started finds no call outstanding.
LEMMA KickPage ==
  ASSUME PageInv, Kick, UNCHANGED <<outstanding, active>>,
         \A k \in Filled : slots'[k] = slots[k],
         slots' \in [Kinds -> Slots \cup {None}],
         \A k \in Filled' : slots'[k] \in Slots /\ KindOf(slots'[k].fragment) = k,
         queue' \in Seq(Filled'), pending' \in {pending, None}
  PROVE  PageInv' /\ (pump' = "await" => pump = "await")
  <1>1. Filled \subseteq Filled'
    BY DEF Filled, PageInv
  <1>2. pump' = pump \/ (pump' = "turn" /\ ~outstanding)
    BY DEF Kick
  <1> QED
    BY <1>1, <1>2 DEF PageInv, KindOf

\* The pump does not await what NoReceipt has given up.
LEMMA NoReceiptPage ==
  ASSUME PageInv, NoReceipt, active' = active
  PROVE  /\ PageInv' /\ pump' \in {"idle", "told"}
         /\ bridge' = "cancelled" => bridge = "cancelled"
         /\ slots' = slots
  <1>1. Filled' = Filled
    BY DEF Filled, NoReceipt
  <1>2. pump' \in {"idle", "told"}
    BY DEF NoReceipt, PumpEnds
  <1>3. queue' \in {queue, <<>>} /\ pending' \in {pending, None}
    BY DEF NoReceipt, Shut
  <1>4. <<>> \in Seq(Filled)
    OBVIOUS
  <1>5. PageInv'
    BY <1>1, <1>2, <1>3, <1>4 DEF PageInv, NoReceipt
  <1> QED
    BY <1>2, <1>5 DEF NoReceipt, Shut

\* The call that the pump makes is the only one, and is for what it has taken up.
LEMMA SubmitStep ==
  ASSUME BInv, Submit, UNCHANGED vars
  PROVE  PageInv' /\ WireInv' /\ ShownInv'
  <1> DEFINE body == IF active \in Kinds /\ Open THEN slots[active].fragment ELSE None
             new == [kind |-> active, at |-> "sent", view |-> None, body |-> body]
  <1>1. active \in Filled \cup {"cancel"} /\ wire = <<>>
    BY DEF BInv, PageInv, WireInv, Submit
  <1>2. active \in Kinds => /\ active \in Filled /\ slots[active].fragment \in Fragments
    BY <1>1 DEF BInv, PageInv, Slots, Kinds
  <1>3. new \in Messages /\ body \in {None, slots[active].fragment}
    BY <1>1, <1>2 DEF Messages, Filled
  <1>4. wire' = <<new>>
    BY <1>1 DEF Submit
  <1>5. new.kind = active /\ new.at \notin Callers /\ new.view = None /\ new.body = body
    BY TicketAssumption
  <1> HIDE DEF new, body
  <1> PICK m \in Messages :
        /\ wire' = <<m>> /\ m.kind = active /\ m.at \notin Callers /\ m.view = None
        /\ m.body \in {None, slots[active].fragment}
    BY <1>3, <1>4, <1>5
  <1>6. UNCHANGED <<active, slots, bridge>> /\ outstanding' /\ pump' = "await"
    BY DEF Submit
  <1>7. Tracked(m)'
    BY <1>6 DEF Tracked
  <1>8. WireInv'
    BY <1>7, <1>6 DEF WireInv
  <1>9. Past' = Past
    BY DEF Past, vars, stores
  <1>10. ShownInv'
    BY <1>9, <1>6 DEF BInv, ShownInv, Acked, Prior
  <1>11. PageInv'
    BY <1>1, <1>6 DEF Submit, BInv, PageInv, Filled, KindOf
  <1> QED
    BY <1>8, <1>10, <1>11

\* An acknowledgement that ack() accepts is of what the pump has taken up.
LEMMA ReceiptStep ==
  ASSUME BInv, UNCHANGED <<vars, active>>, ~outstanding', wire' = <<>>, pump = "await",
         NEW m \in Messages, Tracked(m), m.view # None, Receipt(m.view)
  PROVE  PageInv' /\ ShownInv'
  <1> PICK r \in Past :
        /\ m.view = View(r)
        /\ m.kind \in Kinds => m.body \in Fragments /\ Prior(r, m.body) = m.body
    BY DEF Tracked
  <1>1. m.kind = active /\ Past' = Past
    BY DEF Tracked, Past, vars, stores
  <1>2. PageInv /\ ShownInv /\ active \in Filled \cup {"cancel"}
    BY DEF BInv, PageInv
  <1>3. CASE active = "cancel"
    <2>1. Shut("cancelled") /\ pump' = "idle" /\ slots' = slots
      BY <1>3 DEF Receipt
    <2>2. r.status \in Terminal
      BY <1>3 DEF Receipt, Matches, View
    <2>3. PageInv'
      BY <1>2, <2>1, ShutPage
    <2>4. ShownInv'
      BY <1>1, <1>2, <2>1, <2>2 DEF ShownInv, Acked, Prior
    <2> QED
      BY <2>3, <2>4
  <1>4. CASE active # "cancel"
    <2> DEFINE s == [fragment |-> slots[active].fragment, ack |-> TRUE]
    <2>1. active \in Filled /\ active \in Kinds /\ slots[active] \in Slots
      BY <1>2, <1>4 DEF PageInv, Filled
    <2>2. /\ slots' = [slots EXCEPT ![active] = s]
          /\ pump' = "turn" /\ pending' = None /\ UNCHANGED <<bridge, queue>>
      BY <1>4 DEF Receipt
    <2>3. s \in Slots
      BY <2>1 DEF Slots
    <2>4. s.fragment = slots[active].fragment /\ s # None
      BY <2>3, SlotAssumption
    <2> HIDE DEF s
    <2>5. /\ slots' \in [Kinds -> Slots \cup {None}] /\ slots'[active] = s
          /\ \A k \in Kinds \ {active} : slots'[k] = slots[k]
      BY <1>2, <2>1, <2>2, <2>3 DEF PageInv
    <2>6. Filled' = Filled
      BY <2>1, <2>4, <2>5 DEF Filled
    <2>7. PageInv'
      BY <1>2, <2>1, <2>2, <2>3, <2>4, <2>5, <2>6 DEF PageInv, KindOf, Filled
    <2>8. Prior(r, s.fragment) = s.fragment
      BY <1>1, <2>1, <2>4, FragmentAssumption DEF Tracked, Fragments
    <2>9. ShownInv'
      BY <1>1, <1>2, <2>2, <2>5, <2>8 DEF ShownInv, Acked, Prior
    <2> QED
      BY <2>7, <2>9
  <1> QED
    BY <1>3, <1>4

\* A transport that settles leaves the wire empty.
LEMMA DeliverStep ==
  ASSUME BInv, NEW i \in DOMAIN wire, Deliver(i), UNCHANGED vars
  PROVE  PageInv' /\ WireInv' /\ ShownInv'
  <1> PICK m \in Messages : wire = <<m>> /\ Tracked(m) /\ outstanding
    BY DEF BInv, WireInv
  <1>1. i = 1 /\ Len(wire) = 1 /\ wire[i] = m
    OBVIOUS
  <1>2. wire' = <<>>
    BY <1>1 DEF Deliver
  <1>3. ~outstanding' /\ active' = active /\ PageInv
    BY DEF Deliver, BInv
  <1>4. WireInv'
    BY <1>2 DEF WireInv
  <1>5. CASE pump = "await" /\ m.view # None /\ Receipt(m.view)
    BY <1>2, <1>3, <1>4, <1>5, ReceiptStep
  <1>6. CASE NoReceipt
    <2>1. PageInv' /\ slots' = slots /\ (bridge' = "cancelled" => bridge = "cancelled")
      BY <1>3, <1>6, NoReceiptPage
    <2>2. Past' = Past
      BY DEF Past, vars, stores
    <2>3. ShownInv'
      BY <2>1, <2>2 DEF BInv, ShownInv, Acked, Prior
    <2> QED
      BY <1>4, <2>1, <2>3
  <1>7. CASE pump # "await" /\ UNCHANGED <<bridge, slots, queue, pending, pump>>
    <2>1. PageInv'
      BY <1>3, <1>7 DEF PageInv, Filled, KindOf
    <2>2. Past' = Past
      BY DEF Past, vars, stores
    <2>3. ShownInv'
      BY <1>7, <2>2 DEF BInv, ShownInv, Acked, Prior
    <2> QED
      BY <1>4, <2>1, <2>3
  <1> QED
    BY <1>1, <1>5, <1>6, <1>7 DEF Deliver

\* The user, the observer, the provider's window and the clock.
LEMMA UserStep ==
  ASSUME BInv, Page, UNCHANGED vars
  PROVE  PageInv' /\ WireInv' /\ ShownInv'
  <1>0. PageInv /\ (pump = "turn" => ~outstanding)
    BY DEF BInv, PageInv
  <1>1. CASE Bind \/ Pass \/ \E f \in Fragments : Collect(f)
    <2>1. /\ UNCHANGED <<slots, queue, pending, pump, active, outstanding, wire>>
          /\ bridge' \in {bridge, "waiting"}
      BY <1>1 DEF Bind, Pass, Collect
    <2>2. PageInv'
      BY <1>0, <2>1 DEF PageInv, Filled, KindOf
    <2> QED
      BY <2>1, <2>2, PageFrame DEF BInv, PageInv, Filled
  <1>2. CASE Denied \/ Dispose
    <2> PICK reason \in {"stopped", "disposed"} : Stop(reason)
      BY <1>2 DEF Denied, Dispose
    <2>1. UNCHANGED <<slots, active, outstanding, wire>> /\ bridge' = reason
      BY <1>2 DEF Denied, Dispose, Stop, Shut
    <2> QED
      BY <1>0, <2>1, StopPage, PageFrame DEF Filled, PageInv
  <1>3. CASE RetryPending
    <2>1. /\ UNCHANGED <<slots, active, outstanding, wire>> /\ bridge' = "waiting"
          /\ Kick /\ pending' = None /\ pending \in Filled /\ queue' = <<pending>> \o queue
      BY <1>0, <1>3 DEF RetryPending, PageInv
    <2>2. Filled' = Filled /\ queue' \in Seq(Filled)
      BY <1>0, <2>1 DEF Filled, PageInv
    <2>3. PageInv' /\ (pump' = "await" => pump = "await")
      BY <1>0, <2>1, <2>2, KickPage DEF PageInv
    <2> QED
      BY <2>1, <2>3, PageFrame DEF Filled, BInv, PageInv
  <1>4. CASE Cancel
    <2>1. /\ UNCHANGED <<slots, active, outstanding, wire, bridge, pending>>
          /\ Kick /\ queue' = <<>>
      BY <1>4 DEF Cancel
    <2>2. Filled' = Filled /\ queue' \in Seq(Filled)
      BY <2>1 DEF Filled
    <2>3. PageInv' /\ (pump' = "await" => pump = "await")
      BY <1>0, <2>1, <2>2, KickPage DEF PageInv
    <2> QED
      BY <2>1, <2>3, PageFrame DEF Filled, BInv, PageInv
  <1> QED
    BY <1>1, <1>2, <1>3, <1>4 DEF Page

\* A fragment that is collected fills an empty slot of its kind.
LEMMA EnqueueStep ==
  ASSUME BInv, NEW f \in hashing, Enqueue(f), UNCHANGED vars
  PROVE  PageInv' /\ WireInv' /\ ShownInv'
  <1> DEFINE k == KindOf(f)
             s == [fragment |-> f, ack |-> FALSE]
  <1>0. f \in Fragments
    BY DEF BInv, HashInv
  <1>1. s \in Slots /\ s.fragment = f /\ ~s.ack /\ s # None /\ k \in Kinds
    <2>1. s \in Slots
      BY <1>0 DEF Slots
    <2>2. s.fragment = f /\ s.ack = FALSE
      OBVIOUS
    <2> QED
      BY <2>1, <2>2, SlotAssumption DEF KindOf, Kinds
  <1>2. /\ slots[k] = None /\ slots' = [slots EXCEPT ![k] = s] /\ queue' = Append(queue, k)
        /\ Kick /\ UNCHANGED <<bridge, pending, active, outstanding, wire>>
    BY DEF Enqueue
  <1>3. PageInv
    BY DEF BInv
  <1>4. KindOf(s.fragment) = k
    BY <1>1
  <1> HIDE DEF s, k
  <1>5. /\ slots' \in [Kinds -> Slots \cup {None}] /\ slots'[k] = s
        /\ \A j \in Kinds \ {k} : slots'[j] = slots[j]
    BY <1>1, <1>2, <1>3 DEF PageInv
  <1>6. Filled \subseteq Filled' /\ k \in Filled' /\ k \notin Filled
    BY <1>1, <1>2, <1>5 DEF Filled
  <1>7. queue' \in Seq(Filled')
    <2>1. queue \in Seq(Filled')
      BY <1>3, <1>6, SeqWithin DEF PageInv
    <2> QED
      BY <1>2, <1>6, <2>1
  <1>8. \A j \in Filled' : slots'[j] \in Slots /\ KindOf(slots'[j].fragment) = j
    BY <1>1, <1>3, <1>4, <1>5 DEF PageInv, Filled, KindOf
  <1>9. \A j \in Filled : slots'[j] = slots[j]
    BY <1>5, <1>6 DEF Filled
  <1>10. PageInv' /\ (pump' = "await" => pump = "await")
    BY <1>2, <1>3, <1>5, <1>7, <1>8, <1>9, KickPage
  <1>11. \A j \in Kinds \ Filled : slots'[j] = None \/ ~slots'[j].ack
    BY <1>1, <1>5 DEF Filled
  <1> QED
    BY <1>2, <1>9, <1>10, <1>11, PageFrame

\* The pump, the digests and cancel() as they go on.
LEMMA RunStep ==
  ASSUME BInv, Run, UNCHANGED vars
  PROVE  PageInv' /\ WireInv' /\ ShownInv'
  <1>0. PageInv /\ (\A k \in Kinds \ Filled : slots[k] = None)
    BY DEF BInv, Filled
  <1>1. CASE \/ Expire \/ GiveUp
             \/ \E f \in hashing : Contradict(f) \/ NoDigest(f)
    <2> PICK reason \in {"stopped", "expired"} : Stop(reason)
      BY <1>1 DEF Expire, GiveUp, Contradict, NoDigest
    <2>1. UNCHANGED <<slots, active, outstanding, wire>> /\ bridge' = reason
      BY <1>1 DEF Expire, GiveUp, Contradict, NoDigest, Stop, Shut
    <2> QED
      BY <1>0, <2>1, StopPage, PageFrame DEF Filled
  <1>2. CASE AskHost
    <2>1. UNCHANGED <<slots, active, outstanding, wire, bridge, pending, queue>> /\ Kick
      BY <1>2 DEF AskHost
    <2>2. Filled' = Filled
      BY <2>1 DEF Filled
    <2>3. PageInv' /\ (pump' = "await" => pump = "await")
      BY <1>0, <2>1, <2>2, KickPage DEF PageInv
    <2> QED
      BY <1>0, <2>1, <2>3, PageFrame DEF Filled
  <1>3. CASE TurnCancel
    <2>1. /\ UNCHANGED <<slots, queue, pending, outstanding, wire>> /\ ~outstanding
          /\ bridge' = "closing" /\ pump' = "closing" /\ active' = "cancel"
      BY <1>0, <1>3 DEF TurnCancel, PageInv
    <2>2. PageInv'
      BY <1>0, <2>1 DEF PageInv, Filled, KindOf
    <2> QED
      BY <1>0, <2>1, <2>2, PageFrame DEF Filled
  <1>4. CASE TurnRecovery \/ TurnIdle \/ Told
    <2>1. /\ UNCHANGED <<slots, queue, pending, outstanding, wire, active>>
          /\ bridge' \in {bridge, "recorded", "waiting"} /\ pump' \in {"idle", "told"}
      BY <1>4 DEF TurnRecovery, TurnIdle, Told, PumpEnds
    <2>2. PageInv'
      BY <1>0, <2>1 DEF PageInv, Filled, KindOf
    <2> QED
      BY <1>0, <2>1, <2>2, PageFrame DEF Filled
  <1>5. CASE TurnNext
    <2>1. /\ UNCHANGED <<slots, outstanding, wire>> /\ ~outstanding /\ queue # <<>>
          /\ bridge' = "recording" /\ pump' = "recording"
          /\ active' = Head(queue) /\ pending' = Head(queue) /\ queue' = Tail(queue)
      BY <1>0, <1>5 DEF TurnNext, PageInv
    <2>2. Head(queue) \in Filled /\ Tail(queue) \in Seq(Filled)
      BY <1>0, <2>1 DEF PageInv
    <2>3. PageInv'
      BY <1>0, <2>1, <2>2 DEF PageInv, Filled, KindOf
    <2> QED
      BY <1>0, <2>1, <2>3, PageFrame DEF Filled
  <1>6. CASE Submit
    BY <1>6, SubmitStep
  <1>7. CASE Unsent
    <2>1. NoReceipt /\ active' = active /\ wire' = wire /\ outstanding'
      BY <1>7 DEF Unsent
    <2>2. PageInv' /\ pump' # "await" /\ slots' = slots /\ (bridge' = "cancelled" => bridge = "cancelled")
      BY <1>0, <2>1, NoReceiptPage
    <2> QED
      BY <1>0, <2>1, <2>2, PageFrame DEF Filled
  <1>8. ASSUME NEW f \in hashing, Ignore(f) PROVE PageInv' /\ WireInv' /\ ShownInv'
    <2>1. UNCHANGED <<bridge, slots, queue, pending, pump, active, outstanding, wire>>
      BY <1>8 DEF Ignore
    <2>2. PageInv'
      BY <1>0, <2>1 DEF PageInv, Filled, KindOf
    <2> QED
      BY <1>0, <2>1, <2>2, PageFrame DEF Filled
  <1>9. ASSUME NEW f \in hashing, Enqueue(f) PROVE PageInv' /\ WireInv' /\ ShownInv'
    BY <1>9, EnqueueStep
  <1> QED
    BY <1>1, <1>2, <1>3, <1>4, <1>5, <1>6, <1>7, <1>8, <1>9 DEF Run

\* The time of an operation is up.
LEMMA TimeOutStep ==
  ASSUME BInv, TimeOut, UNCHANGED vars
  PROVE  PageInv' /\ WireInv' /\ ShownInv'
  <1>1. PageInv /\ NoReceipt /\ UNCHANGED <<active, outstanding, wire>>
    BY DEF BInv, TimeOut
  <1>2. PageInv' /\ pump' # "await" /\ slots' = slots /\ (bridge' = "cancelled" => bridge = "cancelled")
    BY <1>1, NoReceiptPage
  <1> QED
    BY <1>1, <1>2, PageFrame DEF Filled

\* Only fragments are hashed.
LEMMA HashStep ==
  ASSUME HashInv, Page \/ Run \/ TimeOut \/ \E i \in DOMAIN wire : Deliver(i)
  PROVE  HashInv'
  <1>1. CASE Page
    BY <1>1 DEF HashInv, Page, Bind, Pass, Denied, Dispose, RetryPending, Cancel, Collect
  <1>2. CASE TimeOut \/ \E i \in DOMAIN wire : Deliver(i)
    BY <1>2 DEF HashInv, TimeOut, Deliver
  <1>3. ASSUME NEW f \in hashing, Ignore(f) \/ Enqueue(f) \/ Contradict(f) \/ NoDigest(f)
        PROVE  HashInv'
    <2>1. Hashed(f)
      BY <1>3 DEF Ignore, Enqueue, Contradict, NoDigest
    <2> QED
      BY <2>1 DEF HashInv, Hashed
  <1>4. CASE \/ Expire \/ AskHost \/ GiveUp
             \/ TurnCancel \/ TurnRecovery \/ TurnIdle \/ TurnNext \/ Submit \/ Unsent \/ Told
    <2>1. hashing' = hashing
      BY <1>4 DEF Expire, AskHost, GiveUp, TurnCancel, TurnRecovery, TurnIdle, TurnNext,
                  Submit, Unsent, Told
    <2> QED
      BY <2>1 DEF HashInv
  <1> QED
    BY <1>1, <1>2, <1>3, <1>4 DEF Run

-----------------------------------------------------------------------------
(* The invariant                                                           *)

\* The bridge is not bound, nothing is on its way and nothing has been.
LEMMA BrowserStarts == ASSUME Init, BridgeInit PROVE BInv
  <1>1. SInv
    BY InitInvariant
  <1>2. PageInv
    <2>1. <<>> \in Seq(Filled)
      OBVIOUS
    <2> QED
      BY <2>1 DEF BridgeInit, PageInv, Filled
  <1>3. HashInv /\ WireInv /\ ShownInv
    BY DEF BridgeInit, HashInv, WireInv, ShownInv, Acked
  <1>4. OfferInv
    BY DEF Init, OfferInv
  <1> QED
    BY <1>1, <1>2, <1>3, <1>4 DEF BInv

\* The server's part is not disturbed by the page.
LEMMA ServerHolds == ASSUME SInv, [Next]_vars PROVE SInv'
  BY TypeStep, HistoryStep, OneEventStep, LaunchStep, ToldStep, WriteStep, CallStep DEF SInv

\* Every step of the page and of the server keeps the invariant.
LEMMA BrowserStep == ASSUME BInv, [BrowserNext]_allVars PROVE BInv'
  <1>1. [Next]_vars
    BY ServerSteps DEF allVars
  <1>2. SInv' /\ OfferInv'
    BY <1>1, ServerHolds, OfferStep DEF BInv
  <1>3. CASE User \/ Browser
    <2>1. PageInv' /\ WireInv' /\ ShownInv'
      BY <1>3, UserStep, RunStep, TimeOutStep, DeliverStep DEF User, Browser
    <2>2. HashInv'
      BY <1>3, HashStep DEF User, Browser, BInv
    <2> QED
      BY <1>2, <2>1, <2>2 DEF BInv
  <1>4. CASE \/ PortsAnswer \/ World
             \/ \E c \in Callers :
                  \/ Serve(c) \/ Break(c)
                  \/ \E r \in Requests : HostStart(c, r)
                  \/ \E i \in DOMAIN wire : Carry(c, i)
    <2>1. WireInv' /\ UNCHANGED pageVars
      BY <1>1, <1>4, ServerWire
    <2>2. HashInv'
      BY <2>1 DEF BInv, HashInv, pageVars
    <2> QED
      BY <1>1, <1>2, <2>1, <2>2, PageRests DEF BInv
  <1>5. ASSUME NEW i \in DOMAIN wire, Rejects(i) PROVE BInv'
    <2>1. WireInv' /\ UNCHANGED pageVars
      BY <1>5, WireRejected DEF Rejects
    <2>2. HashInv'
      BY <2>1 DEF BInv, HashInv, pageVars
    <2> QED
      BY <1>1, <1>2, <2>1, <2>2, PageRests DEF BInv
  <1>6. CASE UNCHANGED allVars
    <2>1. UNCHANGED pageVars /\ UNCHANGED bridgeVars /\ UNCHANGED vars
      BY <1>6 DEF allVars, bridgeVars
    <2>2. WireInv'
      BY <1>1, <2>1, WireKept DEF vars, calls
    <2>3. HashInv'
      BY <2>1 DEF BInv, HashInv, pageVars
    <2> QED
      BY <1>1, <1>2, <2>1, <2>2, <2>3, PageRests DEF BInv
  <1> QED
    BY <1>3, <1>4, <1>5, <1>6 DEF BrowserNext

\* The page and the server keep the invariant for ever.
THEOREM BrowserInvariance == BrowserSpec => []BInv
  <1>1. Init /\ BridgeInit => BInv
    BY BrowserStarts
  <1>2. BInv /\ [BrowserNext]_allVars => BInv'
    BY BrowserStep
  <1> QED
    BY <1>1, <1>2, PTL DEF BrowserSpec

\* What a record of the attempt held is held by the record that is stored.
LEMMA PastIsHeld ==
  ASSUME SInv, NEW r \in Past
  PROVE  /\ record[Ticket] # None
         /\ \A f \in Fragments : Prior(r, f) = f => Prior(record[Ticket], f) = f
         /\ r.status \in Terminal => record[Ticket].status \in Terminal
  <1> PICK h \in history : h[1] = Ticket /\ h[2] = r
    BY DEF Past
  <1>1. record[Ticket] # None /\ Extends(record[Ticket], r)
    BY TicketAssumption DEF SInv, HistoryInv
  <1>2. ASSUME NEW f \in Fragments, Prior(r, f) = f PROVE Prior(record[Ticket], f) = f
    <2>1. f # None /\ (f \in Codes \/ f \in Sessions)
      BY FragmentAssumption DEF Fragments
    <2> QED
      BY <1>1, <1>2, <2>1 DEF Extends, Prior
  <1>3. r.status \in Terminal => record[Ticket].status \in Terminal
    <2>1. View(record[Ticket]).status = record[Ticket].status /\ View(r).status = r.status
      BY DEF View
    <2> QED
      BY <1>1, <2>1 DEF Extends
  <1> QED
    BY <1>1, <1>2, <1>3

\* What the page shows as acknowledged (signup-callback-bridge.mjs:121) is
\* recorded, and what it shows as cancelled is closed.
THEOREM ShownRecorded == BrowserSpec => []ShownIsRecorded
  <1>1. BInv => ShownIsRecorded
    <2> SUFFICES ASSUME BInv PROVE ShownIsRecorded
      OBVIOUS
    <2>1. ASSUME NEW k \in Kinds, Acked(k)
          PROVE  record[Ticket] # None /\ Prior(record[Ticket], slots[k].fragment) = slots[k].fragment
      <3>1. slots[k].fragment \in Fragments
        BY <2>1 DEF BInv, PageInv, Filled, Acked, Slots
      <3> PICK r \in Past : Prior(r, slots[k].fragment) = slots[k].fragment
        BY <2>1 DEF BInv, ShownInv
      <3> QED
        BY <3>1, PastIsHeld DEF BInv
    <2>2. bridge = "cancelled" => record[Ticket] # None /\ record[Ticket].status \in Terminal
      BY PastIsHeld DEF BInv, ShownInv
    <2> QED
      BY <2>1, <2>2 DEF ShownIsRecorded
  <1> QED
    BY <1>1, BrowserInvariance, PTL

\* The bridge has one call under way at a time, and knows of it
\* (signup-callback-bridge.mjs:110).
THEOREM OneCall == BrowserSpec => []OneCallAtATime
  <1>1. BInv => OneCallAtATime
    <2> SUFFICES ASSUME BInv PROVE OneCallAtATime
      OBVIOUS
    <2>1. WireInv
      BY DEF BInv
    <2>2. CASE wire = <<>>
      <3>1. Len(wire) <= 1
        BY <2>2
      <3> QED
        BY <2>2, <3>1 DEF OneCallAtATime
    <2>3. CASE wire # <<>>
      <3> PICK m \in Messages : wire = <<m>>
        BY <2>1, <2>3 DEF WireInv
      <3>1. outstanding
        BY <2>1, <2>3 DEF WireInv
      <3>2. Len(wire) <= 1
        OBVIOUS
      <3> QED
        BY <3>1, <3>2 DEF OneCallAtATime
    <2> QED
      BY <2>2, <2>3
  <1> QED
    BY <1>1, BrowserInvariance, PTL
-----------------------------------------------------------------------------
(* The composition implements its component                                *)

\* Whatever the page, its window and its transport do, the service does what it
\* does without them: BrowserSpec implements the specification of SignupAttempts.
THEOREM ServerRefined == BrowserSpec => Spec
  <1>1. [BrowserNext]_allVars => [Next]_vars
    BY ServerSteps DEF allVars
  <1> QED
    BY <1>1, PTL DEF BrowserSpec, Spec

\* Under a page, too, a stored attempt can be read, what a caller was told of an
\* attempt is not taken back, codes are held by the vault or lost, an authorisation
\* is not used after it has been withdrawn, and every change of a record is a
\* change that the store allows (repository.go:137, service.go:215).
THEOREM ServerPromises ==
  BrowserSpec => /\ [](RecordsAreReadable /\ ToldIsFinal /\ CodeInCustody)
                 /\ AuthorityIsFresh
                 /\ ImplementsStore
  BY ServerRefined, RecordsReadable, ToldFinal, CodesInCustody, FreshAuthority, Refinement, PTL
=============================================================================
