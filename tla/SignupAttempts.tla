--------------------------- MODULE SignupAttempts ---------------------------
(***************************************************************************)
(* SignupAttempts over its repository, authority and vault: any number of  *)
(* concurrent calls of begin, receive, inspect and close.                  *)
(*                                                                         *)
(* Each awaited port call is a step, and the code that runs between its    *)
(* result and the next call belongs to it.  A call that gives up leaves    *)
(* behind what it sent: a compare-and-set may be applied, and a code       *)
(* sealed, when nobody waits for it.  The service reads a clock that may   *)
(* differ from that of the database by Skew.  All calls are made in one    *)
(* context; the state and nonce a caller presents stand for the attempt    *)
(* they are of.                                                            *)
(***************************************************************************)
EXTENDS SignupRecord

CONSTANTS Callers,    \* concurrent calls
          Profiles,   \* digests of signup configurations
          Evidence,   \* profile -> time its evidence expires
          Lifetime,   \* policy.lifetimeMs
          Requests,   \* what callers ask for
          MaxTime,    \* bound on the time of the database
          Skew,       \* bound on the distance of the service's clock from it
          MaxFaults   \* bound on failures and revocations

ASSUME ClockAssumption ==
  /\ Lifetime \in Nat \ {0} /\ MaxTime \in Nat \ {0} /\ Skew \in Nat /\ MaxFaults \in Nat
  /\ Evidence \in [Profiles -> Nat]

Operations == {"begin", "receive", "inspect", "cancel", "expire"}

ASSUME RequestAssumption ==
  Requests \subseteq [op : Operations, attempt : Attempts, fragment : Fragments,
                      secret : Attempts, profile : Profiles]

Records == [profile : Profiles, expires : Nat, updated : Nat,
            version : 1 .. 4, status : States,
            code : Codes \cup {None}, session : Sessions \cup {None}]

Writes == [by : Callers, awaited : BOOLEAN, attempt : Attempts,
           prev : Records \cup {None}, new : Records]

ASSUME NoneAssumption ==
  None \notin Records \cup Views \cup Requests \cup (Attempts \X Views)

VARIABLES
  time,       \* clock of the database
  record,     \* attempt -> its row, or None
  history,    \* <<attempt, record>> pairs, with the outbox event of each
  vault,      \* attempt -> the code sealed for it, or None
  granted,    \* the authority accepts the context
  writes,     \* inserts and compare-and-sets on their way
  seals,      \* <<attempt, code>> pairs on their way to the vault
  stage,      \* caller -> the port call it awaits
  req,        \* caller -> its request
  seen,       \* caller -> the record it acts on, or None
  launched,   \* attempts whose state and nonce were handed out
  told,       \* caller -> the <<attempt, view>> it was last given, or None
  witnessed,  \* caller -> the grant held at some time since its last check began
  faults      \* failures and revocations so far

stores == <<record, history, vault>>
calls == <<stage, req, seen>>
results == <<launched, told>>
vars == <<time, stores, granted, writes, seals, calls, results, witnessed, faults>>

Stages == {"idle", "authorize", "read", "seal", "reauthorize", "commit", "acknowledged"}

Init ==
  /\ time = 1
  /\ record = [a \in Attempts |-> None]
  /\ history = {}
  /\ vault = [a \in Attempts |-> None]
  /\ granted = TRUE
  /\ writes = {}
  /\ seals = {}
  /\ stage = [c \in Callers |-> "idle"]
  /\ req = [c \in Callers |-> None]
  /\ seen = [c \in Callers |-> None]
  /\ launched = {}
  /\ told = [c \in Callers |-> None]
  /\ witnessed = [c \in Callers |-> TRUE]
  /\ faults = 0

-----------------------------------------------------------------------------
(* What the code looks at                                                  *)

\* What the clock of the service may return.
Clock == {t \in 1 .. MaxTime + Skew : t <= time + Skew /\ time <= t + Skew}

View(r) == [version |-> r.version, status |-> r.status,
            code |-> r.code, session |-> r.session]

\* prepareSignupConfiguration does not throw.
Prepared(profile, now) == now < Evidence[profile]

Expiry(profile, now) ==
  IF now + Lifetime <= Evidence[profile] THEN now + Lifetime ELSE Evidence[profile]

\* Wrong: not in the millisecond of the last write either.
TimelyStrict(r, now) == r.updated < now /\ now < r.expires

\* Neither before the last write nor after the end.
Timely(r, now) == r.updated <= now /\ now < r.expires

\* The request is about this record, and with its correlation secrets.
Correlated(c, r) == req[c].secret = req[c].attempt /\ req[c].profile = r.profile

\* What validatedRecord accepts.
Valid(r) ==
  /\ r.status \notin Terminal => r.status = ExpectedState(r.code, r.session)
  /\ r.version = FactCount(r)
  /\ (r.status = "EXPIRED") <=> (r.expires <= r.updated)

Goto(c, s) == stage' = [stage EXCEPT ![c] = s]

Idle(c) ==
  /\ Goto(c, "idle")
  /\ req' = [req EXCEPT ![c] = None]
  /\ seen' = [seen EXCEPT ![c] = None]
  /\ witnessed' = [witnessed EXCEPT ![c] = TRUE]

Tell(c, r) == told' = [told EXCEPT ![c] = <<req[c].attempt, View(r)>>]

\* The request leaves for the database; the caller awaits the acknowledgement.
Send(c, a, prev, new) ==
  /\ writes' = writes \cup {[by |-> c, awaited |-> TRUE, attempt |-> a,
                             prev |-> prev, new |-> new]}
  /\ Goto(c, "commit")

-----------------------------------------------------------------------------
(* The calls                                                               *)

\* No attempt has it, and no other call has drawn it.
FreshId(a) ==
  /\ record[a] = None
  /\ \A w \in writes : w.attempt # a
  /\ \A c \in Callers : stage[c] # "idle" => ~(req[c].op = "begin" /\ req[c].attempt = a)

Start(c, r) ==
  /\ stage[c] = "idle"
  /\ r.op = "receive" => r.secret \in launched
  /\ r.op = "begin" => FreshId(r.attempt)
  /\ Goto(c, "authorize")
  /\ req' = [req EXCEPT ![c] = r]
  /\ UNCHANGED <<time, stores, granted, writes, seals, seen, results, witnessed, faults>>

\* begin, with the id that randomUUID returned.
Insert(c) ==
  /\ stage[c] = "authorize" /\ req[c].op = "begin" /\ granted
  /\ \E now \in Clock :
       LET r == [profile |-> req[c].profile, expires |-> Expiry(req[c].profile, now),
                 updated |-> now, version |-> 1, status |-> "AWAITING_CALLBACK",
                 code |-> None, session |-> None]
       IN /\ Prepared(req[c].profile, now)
          /\ Send(c, req[c].attempt, None, r)
          /\ seen' = [seen EXCEPT ![c] = r]
  /\ UNCHANGED <<time, stores, granted, seals, req, results, witnessed, faults>>

Authorize(c) ==
  /\ stage[c] = "authorize" /\ req[c].op # "begin" /\ granted
  /\ req[c].op = "receive" => \E now \in Clock : Prepared(req[c].profile, now)
  /\ Goto(c, "read")
  /\ UNCHANGED <<time, stores, granted, writes, seals, req, seen, results, witnessed, faults>>

Row(c) == record[req[c].attempt]

\* #load: the row is read, and is one that the service would write.
Loaded(c) == stage[c] = "read" /\ Row(c) # None /\ Valid(Row(c))

Closes(c) == Loaded(c) /\ req[c].op \in {"cancel", "expire"}

\* Wrong: an attempt that is closed takes fragments until its time is over.
ReceivesClosed(c) ==
  /\ Loaded(c) /\ req[c].op = "receive"
  /\ Correlated(c, Row(c))
  /\ \E now \in Clock : Timely(Row(c), now)

\* receive gets past the checks of the record it has read.
Receives(c) ==
  /\ Loaded(c) /\ req[c].op = "receive"
  /\ Correlated(c, Row(c))
  /\ \E now \in Clock : Timely(Row(c), now)
  /\ Row(c).status \notin Terminal

\* inspect; a fragment that is recorded already; an attempt that is closed.
Answered(c) ==
  \/ Loaded(c) /\ req[c].op = "inspect"
  \/ Receives(c) /\ Prior(Row(c), req[c].fragment) = req[c].fragment
  \/ /\ Closes(c) /\ Row(c).status \in Terminal
     /\ \E now \in Clock : Row(c).updated <= now

Answer(c) ==
  /\ Answered(c)
  /\ Tell(c, Row(c))
  /\ Idle(c)
  /\ UNCHANGED <<time, stores, granted, writes, seals, launched, faults>>

\* A new fragment: a code goes to the vault first.
Admit(c) ==
  /\ Receives(c) /\ Prior(Row(c), req[c].fragment) = None
  /\ seen' = [seen EXCEPT ![c] = Row(c)]
  /\ IF req[c].fragment \in Codes
     THEN /\ seals' = seals \cup {<<req[c].attempt, req[c].fragment>>}
          /\ Goto(c, "seal")
          /\ UNCHANGED witnessed
     ELSE /\ Goto(c, "reauthorize")
          /\ witnessed' = [witnessed EXCEPT ![c] = granted]
          /\ UNCHANGED seals
  /\ UNCHANGED <<time, stores, granted, writes, req, results, faults>>

\* Wrong: the custody receipt is not compared with the code.
SealedUncompared(c) ==
  /\ stage[c] = "seal" /\ vault[req[c].attempt] # None
  /\ Goto(c, "reauthorize")
  /\ witnessed' = [witnessed EXCEPT ![c] = granted]
  /\ UNCHANGED <<time, stores, granted, writes, seals, req, seen, results, faults>>

Sealed(c) ==
  /\ stage[c] = "seal" /\ vault[req[c].attempt] = req[c].fragment
  /\ Goto(c, "reauthorize")
  /\ witnessed' = [witnessed EXCEPT ![c] = granted]
  /\ UNCHANGED <<time, stores, granted, writes, seals, req, seen, results, faults>>

\* Wrong: authorized once, before the vault was awaited.
CommitUnauthorized(c) ==
  /\ stage[c] = "reauthorize"
  /\ \E now \in Clock :
       LET new == [WithFragment(seen[c], req[c].fragment) EXCEPT !.updated = now]
       IN /\ Timely(seen[c], now)
          /\ Send(c, req[c].attempt, seen[c], new)
          /\ seen' = [seen EXCEPT ![c] = new]
  /\ UNCHANGED <<time, stores, granted, seals, req, results, witnessed, faults>>

Commit(c) ==
  /\ stage[c] = "reauthorize" /\ granted
  /\ \E now \in Clock :
       LET new == [WithFragment(seen[c], req[c].fragment) EXCEPT !.updated = now]
       IN /\ Prepared(req[c].profile, now)
          /\ Timely(seen[c], now)
          /\ Send(c, req[c].attempt, seen[c], new)
          /\ seen' = [seen EXCEPT ![c] = new]
  /\ UNCHANGED <<time, stores, granted, seals, req, results, witnessed, faults>>

\* The terminal record that close sends.
End(c, now, status) ==
  LET new == [Closed(Row(c), status) EXCEPT !.updated = now]
  IN /\ Send(c, req[c].attempt, Row(c), new)
     /\ seen' = [seen EXCEPT ![c] = new]
     /\ UNCHANGED <<time, stores, granted, seals, req, results, witnessed, faults>>

\* Wrong: the request decides between CANCELLED and EXPIRED.
CloseAsAsked(c) ==
  /\ Closes(c) /\ Row(c).status \notin Terminal
  /\ \E now \in Clock :
       /\ Row(c).updated <= now
       /\ req[c].op = "expire" => Row(c).expires <= now
       /\ End(c, now, IF req[c].op = "expire" THEN "EXPIRED" ELSE "CANCELLED")

\* Wrong: what is closed already is closed again.
CloseAgain(c) ==
  /\ Closes(c)
  /\ \E now \in Clock : Row(c).updated <= now /\ End(c, now, "CANCELLED")

\* Wrong: close is refused outside the time of the attempt, as receive is.
CloseInTime(c) ==
  /\ Closes(c) /\ Row(c).status \notin Terminal
  /\ \E now \in Clock : Timely(Row(c), now) /\ End(c, now, "CANCELLED")

\* close: the clock decides between CANCELLED and EXPIRED.
Close(c) ==
  /\ Closes(c) /\ Row(c).status \notin Terminal
  /\ \E now \in Clock :
       /\ Row(c).updated <= now
       /\ req[c].op = "expire" => Row(c).expires <= now
       /\ End(c, now, IF Row(c).expires <= now THEN "EXPIRED" ELSE "CANCELLED")

\* Wrong: the acknowledgement is not awaited.
ReturnEarly(c) ==
  /\ stage[c] \in {"commit", "acknowledged"}
  /\ Tell(c, seen[c])
  /\ launched' = IF req[c].op = "begin" THEN launched \cup {req[c].attempt} ELSE launched
  /\ Idle(c)
  /\ UNCHANGED <<time, stores, granted, writes, seals, faults>>

\* The exact acknowledgement of the record that was sent.
Return(c) ==
  /\ stage[c] = "acknowledged"
  /\ Tell(c, seen[c])
  /\ launched' = IF req[c].op = "begin" THEN launched \cup {req[c].attempt} ELSE launched
  /\ req[c].op = "begin" => \E now \in Clock : now < seen[c].expires
  /\ Idle(c)
  /\ UNCHANGED <<time, stores, granted, writes, seals, faults>>

\* Every other way out that is an error of the request.
Rejected(c) ==
  \/ stage[c] \in {"authorize", "reauthorize"} /\ ~granted              \* DENIED
  \/ /\ stage[c] \in {"authorize", "reauthorize"}                       \* a SetupError
     /\ req[c].op \in {"begin", "receive"}
     /\ \E now \in Clock : ~Prepared(req[c].profile, now)
  \/ stage[c] = "read" /\ ~Loaded(c)                                    \* RECEIPT
  \/ /\ Loaded(c) /\ req[c].op = "receive"
     /\ \/ ~Correlated(c, Row(c))                                       \* DENIED, CONFLICT
        \/ \E now \in Clock : ~Timely(Row(c), now)                      \* STALE
        \/ Row(c).status \in Terminal                                   \* CLOSED
        \/ Prior(Row(c), req[c].fragment) \notin {None, req[c].fragment} \* CONFLICT
  \/ Closes(c) /\ \E now \in Clock : now < Row(c).updated               \* STALE
  \/ /\ Closes(c) /\ req[c].op = "expire" /\ Row(c).status \notin Terminal
     /\ \E now \in Clock : now < Row(c).expires                         \* CONFLICT
  \/ stage[c] = "seal" /\ vault[req[c].attempt] \notin {None, req[c].fragment}
  \/ stage[c] = "reauthorize" /\ \E now \in Clock : ~Timely(seen[c], now) \* STALE
  \/ /\ stage[c] = "acknowledged" /\ req[c].op = "begin"                \* STALE
     /\ \E now \in Clock : seen[c].expires <= now

Reject(c) ==
  /\ Rejected(c)
  /\ Idle(c)
  /\ UNCHANGED <<time, stores, granted, writes, seals, results, faults>>

\* The deadline, the caller's abort, a crash, or a lost answer.
Fail(c) ==
  /\ stage[c] # "idle" /\ faults < MaxFaults
  /\ faults' = faults + 1
  /\ writes' = {IF w.by = c THEN [w EXCEPT !.awaited = FALSE] ELSE w : w \in writes}
  /\ Idle(c)
  /\ UNCHANGED <<time, stores, granted, seals, results>>

-----------------------------------------------------------------------------
(* The repository, the vault, the authority and the clock                  *)

\* The condition is checked in the transaction that writes.
RowMatches(w) == record[w.attempt] = w.prev

\* The clock of the database at the write; an attempt may be closed at any time.
InTime(w) == w.new.status \in Terminal \/ time < w.new.expires

Apply(w) ==
  /\ w \in writes /\ RowMatches(w) /\ InTime(w)
  /\ writes' = writes \ {w}
  /\ record' = [record EXCEPT ![w.attempt] = w.new]
  /\ history' = history \cup {<<w.attempt, w.new>>}
  /\ stage' = IF w.awaited THEN [stage EXCEPT ![w.by] = "acknowledged"] ELSE stage
  /\ UNCHANGED <<time, vault, granted, seals, req, seen, results, witnessed, faults>>

\* CONFLICT, a write that comes too late, or a transaction that aborts.
Refuse(w) ==
  /\ w \in writes
  /\ IF RowMatches(w) /\ InTime(w)
     THEN faults < MaxFaults /\ faults' = faults + 1
     ELSE UNCHANGED faults
  /\ writes' = writes \ {w}
  /\ IF w.awaited THEN Idle(w.by) ELSE UNCHANGED <<calls, witnessed>>
  /\ UNCHANGED <<time, stores, granted, seals, results>>

\* The same code again has the same reference; another code conflicts.
Seal(s) ==
  /\ s \in seals
  /\ seals' = seals \ {s}
  /\ vault' = [vault EXCEPT ![s[1]] = IF @ = None THEN s[2] ELSE @]
  /\ UNCHANGED <<time, record, history, granted, writes, calls, results, witnessed, faults>>

Tick ==
  /\ time < MaxTime
  /\ time' = time + 1
  /\ UNCHANGED <<stores, granted, writes, seals, calls, results, witnessed, faults>>

Revoke ==
  /\ granted /\ faults < MaxFaults
  /\ granted' = FALSE
  /\ faults' = faults + 1
  /\ UNCHANGED <<time, stores, writes, seals, calls, results, witnessed>>

Grant ==
  /\ ~granted
  /\ granted' = TRUE
  /\ witnessed' = [c \in Callers |-> TRUE]
  /\ UNCHANGED <<time, stores, writes, seals, calls, results, faults>>

-----------------------------------------------------------------------------
Call(c) ==
  \/ \E r \in Requests : Start(c, r)
  \/ Insert(c) \/ Authorize(c) \/ Answer(c) \/ Admit(c) \/ Sealed(c)
  \/ Commit(c) \/ Close(c) \/ Return(c) \/ Reject(c) \/ Fail(c)

Ports ==
  \/ \E w \in writes : Apply(w) \/ Refuse(w)
  \/ \E s \in seals : Seal(s)
  \/ Tick \/ Revoke \/ Grant

Next == Ports \/ \E c \in Callers : Call(c)

Spec == Init /\ [][Next]_vars

-----------------------------------------------------------------------------
(* Properties                                                              *)

TypeOK ==
  /\ time \in 1 .. MaxTime
  /\ record \in [Attempts -> Records \cup {None}]
  /\ history \subseteq Attempts \X Records
  /\ vault \in [Attempts -> Codes \cup {None}]
  /\ granted \in BOOLEAN
  /\ writes \subseteq Writes
  /\ seals \subseteq Attempts \X Codes
  /\ stage \in [Callers -> Stages]
  /\ req \in [Callers -> Requests \cup {None}]
  /\ seen \in [Callers -> Records \cup {None}]
  /\ launched \subseteq Attempts
  /\ told \in [Callers -> (Attempts \X Views) \cup {None}]
  /\ witnessed \in [Callers -> BOOLEAN]
  /\ faults \in 0 .. MaxFaults

\* Whatever call wrote it, at whatever time of whatever clock, a row is one that
\* #load accepts: no attempt is locked out by its own record.
RecordsAreReadable ==
  \A a \in Attempts : record[a] # None => Valid(record[a])

\* A caller that was told an attempt is closed, or that a fragment is recorded,
\* can rely on it: nothing recorded later takes it back.
ToldIsFinal ==
  \A c \in Callers : told[c] # None =>
    LET now == record[told[c][1]]
        v == told[c][2]
    IN /\ now # None
       /\ v.version <= now.version
       /\ v.code # None => now.code = v.code
       /\ v.session # None => now.session = v.session
       /\ v.status \in Terminal => View(now) = v

\* A recorded code is in custody, and it is the only one that ever was.
CodeInCustody ==
  \A a \in Attempts : record[a] # None /\ record[a].code # None =>
    vault[a] = record[a].code

\* Each version of an attempt was recorded, and announced, exactly once.
OneEventPerVersion ==
  \A a \in Attempts :
    LET mine == {h \in history : h[1] = a}
        last == IF record[a] = None THEN 0 ELSE record[a].version
    IN /\ {h[2].version : h \in mine} = 1 .. last
       /\ \A h, g \in mine : h[2].version = g[2].version => h = g

\* No fragment is sent to the repository on a grant that was revoked, and not
\* given back, since before the vault had answered.
AuthorityIsFresh ==
  [][\A w \in writes' \ writes :
       w.awaited /\ w.prev # None /\ w.new.status \notin Terminal => witnessed[w.by]]_vars

\* State and nonce are handed out only for an attempt that is recorded with them:
\* a begin of unknown outcome launches nothing.
LaunchesAreDurable == \A a \in launched : record[a] # None

Promise == INSTANCE SignupStore WITH
  current <- [a \in Attempts |-> IF record[a] = None THEN None ELSE View(record[a])],
  past <- {<<h[1], View(h[2])>> : h \in history}

ImplementsStore == Promise!Spec

\* Once the time of an attempt is over, a host that keeps closing expired
\* attempts gets its end recorded, whatever fragments arrive in between.
AttemptsEnd ==
  \A r \in Requests : r.op = "expire" =>
    LET row == record[r.attempt]
    IN (row # None /\ row.expires + Skew <= time) ~>
         (row # None /\ row.status \in Terminal)

-----------------------------------------------------------------------------
(* The inductive invariant                                                 *)

\* s is r, or what a later step made of it.
Extends(s, r) ==
  /\ r.version <= s.version
  /\ r.code # None => s.code = r.code
  /\ r.session # None => s.session = r.session
  /\ r.status \in Terminal => View(s) = View(r)

\* One fragment more, or closed.
Follows(new, prev) ==
  /\ prev.status \notin Terminal
  /\ \/ \E f \in Fragments :
          /\ Prior(prev, f) = None
          /\ View(new) = WithFragment(View(prev), f)
     \/ \E s \in Terminal : View(new) = Closed(View(prev), s)

InCustody(a, r) == r.code # None => vault[a] = r.code

HistoryInv ==
  /\ \A a \in Attempts : record[a] # None => <<a, record[a]>> \in history
  /\ \A h \in history :
       /\ record[h[1]] # None
       /\ Extends(record[h[1]], h[2])
       /\ Valid(h[2])
       /\ InCustody(h[1], h[2])

\* What is on its way to the repository.
WriteInv ==
  /\ \A w \in writes :
       /\ Valid(w.new)
       /\ InCustody(w.attempt, w.new)
       /\ w.prev = None => View(w.new) = FirstView
       /\ w.prev # None => <<w.attempt, w.prev>> \in history /\ Follows(w.new, w.prev)
       /\ w.awaited => /\ stage[w.by] = "commit"
                       /\ req[w.by].attempt = w.attempt
                       /\ seen[w.by] = w.new
  /\ \A v, w \in writes : v.awaited /\ w.awaited /\ v.by = w.by => v = w

\* What the stage of a call says of its request and of the record it acts on.
CallInv ==
  \A c \in Callers :
    /\ (stage[c] = "idle") <=> (req[c] = None)
    /\ stage[c] \in {"seal", "reauthorize"} =>
         /\ req[c].op = "receive"
         /\ seen[c] # None
         /\ <<req[c].attempt, seen[c]>> \in history
         /\ seen[c].status \notin Terminal
         /\ Prior(seen[c], req[c].fragment) = None
    /\ stage[c] = "reauthorize" /\ req[c].fragment \in Codes =>
         vault[req[c].attempt] = req[c].fragment
    /\ stage[c] = "commit" => seen[c] # None
    /\ stage[c] = "acknowledged" =>
         seen[c] # None /\ <<req[c].attempt, seen[c]>> \in history
    /\ granted => witnessed[c]

ToldInv ==
  \A c \in Callers : told[c] # None =>
    \E h \in history : told[c] = <<h[1], View(h[2])>>

SInv ==
  /\ TypeOK /\ HistoryInv /\ WriteInv /\ CallInv /\ ToldInv
  /\ OneEventPerVersion /\ LaunchesAreDurable
=============================================================================
