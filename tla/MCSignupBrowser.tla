-------------------------- MODULE MCSignupBrowser --------------------------
(* Instances of SignupBrowser for TLC.  Two stories share a run.  In "host" the
   requests come from hosts and no page is open.  In "page" the fragments come
   from the bridge of one page; the host begins the attempt and runs the calls
   of its transport.                                                         *)
EXTENDS SignupBrowser, TLC

CONSTANTS a1, a2, k1, k2, s1, p1, p2,
          HostRequests,  \* what hosts ask for
          MaxActs        \* bound on what user, clock and provider do to a page

Ask(op, a, f, p) == [op |-> op, attempt |-> a, fragment |-> f, secret |-> a, profile |-> p]

\* Two codes and a session race with a cancellation.
RaceRequests ==
  {Ask("begin", a1, s1, p1), Ask("receive", a1, k1, p1), Ask("receive", a1, k2, p1),
   Ask("receive", a1, s1, p1), Ask("cancel", a1, s1, p1)}

\* Two attempts on different configurations, one of them only begun; fragments
\* that carry the secrets of the other attempt, or a configuration that changed;
\* a host that closes what has expired.
RetryRequests ==
  {Ask("begin", a1, s1, p1), Ask("begin", a2, s1, p2),
   Ask("receive", a1, k1, p1), Ask("receive", a1, s1, p1), Ask("receive", a1, k1, p2),
   [Ask("receive", a1, k1, p1) EXCEPT !.secret = a2],
   Ask("expire", a1, s1, p1), Ask("cancel", a1, s1, p1), Ask("inspect", a1, s1, p1)}

AllRequests == RaceRequests \cup RetryRequests

TwoTicks == [p \in Profiles |-> 2]

RaceSymmetry == Permutations(Callers) \cup Permutations(Codes)

VARIABLES story, acts
mcVars == <<allVars, story, acts>>

Collected(k) == slots[k] # None \/ \E f \in hashing : KindOf(f) = k

HostStep ==
  /\ UNCHANGED acts
  /\ \/ PortsAnswer \/ World
     \/ \E c \in Callers : Serve(c) \/ Break(c) \/ \E r \in HostRequests : HostStart(c, r)

\* The first fragments of the page are not counted.
FirstFragments == \E f \in Fragments : ~Collected(KindOf(f)) /\ Collect(f)
Acts ==
  \/ Pass \/ Denied \/ Dispose \/ RetryPending \/ Cancel
  \/ \E f \in Codes : Collected("code") /\ Collect(f)

PageStep ==
  \/ acts < MaxActs /\ acts' = acts + 1 /\ Acts /\ UNCHANGED vars
  \/ /\ UNCHANGED acts
     /\ \/ Bind /\ Ticket \in launched /\ UNCHANGED vars
        \/ FirstFragments /\ UNCHANGED vars
        \/ Browser
        \/ PortsAnswer /\ UNCHANGED faults
        \/ \E c \in Callers :
             \/ Serve(c)
             \/ HostStart(c, Ask("begin", Ticket, s1, p1))
             \/ \E i \in DOMAIN wire : Carry(c, i)
        \/ \E i \in DOMAIN wire : Rejects(i)

StoryInit == Init /\ BridgeInit /\ story \in {"host", "page"} /\ acts = 0

StoryNext ==
  /\ IF story = "host" THEN HostStep ELSE PageStep
  /\ UNCHANGED story

StorySpec == StoryInit /\ [][StoryNext]_mcVars

LiveSpec ==
  /\ StorySpec /\ Fairness
  /\ \A r \in HostRequests :
       r.op = "expire" => SF_allVars(story = "host" /\ \E c \in Callers : HostStart(c, r))
=============================================================================
