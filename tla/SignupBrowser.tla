--------------------------- MODULE SignupBrowser ---------------------------
(* The callback bridge of a page and the signup attempts behind its transport.
   The host of the transport makes one call of SignupAttempts for each request,
   with the correlation secrets of the ticket.                               *)
EXTENDS CallbackBridge, SignupAttempts

CONSTANT Ticket  \* the attempt the page collects for

ASSUME TicketAssumption == Ticket \in Attempts /\ Callers \cap {"sent", "answered"} = {}

allVars == <<vars, bridgeVars>>

\* What the host makes of a request.
Asked(m) ==
  {r \in Requests :
     /\ r.attempt = Ticket /\ r.secret = Ticket
     /\ IF m.kind = "cancel" THEN r.op = "cancel"
        ELSE r.op = "receive" /\ r.fragment = m.body}

Carry(c, i) ==
  /\ i \in DOMAIN wire /\ wire[i].at = "sent"
  /\ \E r \in Asked(wire[i]) : Start(c, r)
  /\ wire' = [wire EXCEPT ![i].at = c]
  /\ UNCHANGED pageVars

\* The answer of a call leaves for the page, if the page asked.
Replied(c, v) ==
  /\ wire' = [i \in DOMAIN wire |->
       IF wire[i].at = c THEN [wire[i] EXCEPT !.at = "answered", !.view = v] ELSE wire[i]]
  /\ UNCHANGED pageVars

Serve(c) ==
  \/ (Answer(c) \/ Return(c)) /\ Replied(c, told'[c][2])
  \/ Reject(c) /\ Replied(c, None)
  \/ (Insert(c) \/ Authorize(c) \/ Admit(c) \/ Sealed(c) \/ Commit(c) \/ Close(c))
       /\ UNCHANGED bridgeVars

Break(c) == Fail(c) /\ Replied(c, None)

PortsAnswer ==
  \/ \E w \in writes :
       \/ Apply(w) /\ UNCHANGED bridgeVars
       \/ Refuse(w) /\ IF w.awaited THEN Replied(w.by, None) ELSE UNCHANGED bridgeVars
  \/ \E s \in seals : Seal(s) /\ UNCHANGED bridgeVars

\* The transport rejects: the network failed, the page aborted it, or there was no
\* body to send.  The host may be at work on the request all the same.
Rejects(i) ==
  /\ i \in DOMAIN wire /\ wire[i].at # "answered"
  /\ wire' = [wire EXCEPT ![i].at = "answered"]
  /\ UNCHANGED <<vars, pageVars>>

\* Calls that do not come from the page: begin, and the job that closes.
HostStart(c, r) == Start(c, r) /\ UNCHANGED bridgeVars

\* What the user, the provider's window and the clock make the page do.
User ==
  /\ bridge = "unbound" => Ticket \in launched
  /\ Page
  /\ UNCHANGED vars

Browser ==
  /\ Run \/ TimeOut \/ \E i \in DOMAIN wire : Deliver(i)
  /\ UNCHANGED vars

World == (Tick \/ Revoke \/ Grant) /\ UNCHANGED bridgeVars

BrowserNext ==
  \/ User \/ Browser \/ PortsAnswer \/ World
  \/ \E i \in DOMAIN wire : Rejects(i)
  \/ \E c \in Callers :
       \/ Serve(c) \/ Break(c)
       \/ \E r \in Requests : HostStart(c, r)
       \/ \E i \in DOMAIN wire : Carry(c, i)

BrowserSpec == Init /\ BridgeInit /\ [][BrowserNext]_allVars

\* The event loop runs, and the timer of an operation fires; a call of the server
\* goes on when it can; the ports answer; revocations end.
Fairness ==
  /\ WF_allVars(Run /\ UNCHANGED vars) /\ WF_allVars(TimeOut /\ UNCHANGED vars)
  /\ WF_allVars(PortsAnswer) /\ WF_allVars(Grant /\ UNCHANGED bridgeVars)
  /\ \A c \in Callers : WF_allVars(Serve(c))

-----------------------------------------------------------------------------
(* Properties                                                              *)

\* What the page shows as acknowledged is recorded, and what it shows as
\* cancelled is closed: through time-outs, retries, aborted requests whose call
\* goes on, and calls of the bridge from its own observer.
ShownIsRecorded ==
  /\ \A k \in Kinds : Acked(k) =>
       /\ record[Ticket] # None
       /\ Prior(record[Ticket], slots[k].fragment) = slots[k].fragment
  /\ bridge = "cancelled" => record[Ticket] # None /\ record[Ticket].status \in Terminal

\* "Prevents another concurrent call": the bridge never has two calls under way,
\* even while one that it gave up is still executing.
OneCallAtATime == Len(wire) <= 1 /\ (wire # <<>> => outstanding)

\* A cancellation comes to an end, whatever the pump, the transport and the
\* observer were doing when it was asked for.
CancelEnds == intent ~> ~Open

-----------------------------------------------------------------------------
(* The inductive invariant                                                 *)

\* What the attempt of the page has been.
Past == {h[2] : h \in {g \in history : g[1] = Ticket}}

Messages == [kind : Kinds \cup {"cancel"}, at : Callers \cup {"sent", "answered"},
             view : Views \cup {None}, body : Fragments \cup {None}]

Filled == {k \in Kinds : slots[k] # None}

\* What is queued, pending or taken up has a fragment of its kind; and the pump
\* is about to call only while no call is outstanding.
PageInv ==
  /\ slots \in [Kinds -> Slots \cup {None}]
  /\ \A k \in Filled : slots[k] \in Slots /\ KindOf(slots[k].fragment) = k
  /\ queue \in Seq(Filled)
  /\ pending # None => pending \in Filled
  /\ pump \in {"turn", "recording", "closing"} => ~outstanding
  /\ pump \in {"recording", "await"} => active \in Filled \cup {"cancel"}
  /\ pump = "closing" => active = "cancel"

\* What the pump awaits, what the host makes of it, and what its answer says.
Tracked(m) ==
  /\ pump = "await" =>
       /\ m.kind = active
       /\ active \in Kinds => m.body \in {None, slots[active].fragment}
  /\ m.at \in Callers =>
       /\ stage[m.at] # "idle" /\ req[m.at].attempt = Ticket
       /\ m.kind \in Kinds => req[m.at].op = "receive" /\ req[m.at].fragment = m.body
  /\ m.view # None => \E r \in Past :
       /\ m.view = View(r)
       /\ m.kind \in Kinds => m.body \in Fragments /\ Prior(r, m.body) = m.body

WireInv ==
  wire # <<>> => outstanding /\ \E m \in Messages : wire = <<m>> /\ Tracked(m)

\* A call that records a fragment answers with a record that holds it.
OfferInv ==
  \A c \in Callers :
    stage[c] \in {"commit", "acknowledged"} /\ req[c].op = "receive" =>
      Prior(seen[c], req[c].fragment) = req[c].fragment

\* ShownIsRecorded, of what was recorded at some time.
ShownInv ==
  /\ \A k \in Kinds : Acked(k) =>
       \E r \in Past : Prior(r, slots[k].fragment) = slots[k].fragment
  /\ bridge = "cancelled" => \E r \in Past : r.status \in Terminal

HashInv == hashing \subseteq Fragments

BInv == SInv /\ PageInv /\ HashInv /\ WireInv /\ OfferInv /\ ShownInv
=============================================================================
