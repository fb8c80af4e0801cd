---------------------------- MODULE SignupRecord ----------------------------
(***************************************************************************)
(* Vocabulary of a signup attempt.  A fragment stands for its digest: a    *)
(* code by the hash of the raw code, a session by the digest of its        *)
(* claims.  Times are the positive integers the clock returns.             *)
(***************************************************************************)
EXTENDS Naturals, FiniteSets

CONSTANTS Attempts,  \* attempt ids
          Codes,     \* digests of raw codes
          Sessions,  \* digests of session claims
          None       \* null

ASSUME FragmentAssumption ==
  /\ Codes \cap Sessions = {}
  /\ None \notin Codes \cup Sessions

Fragments == Codes \cup Sessions

Terminal == {"CANCELLED", "EXPIRED"}
States == {"AWAITING_CALLBACK", "CODE_RECEIVED", "SESSION_RECEIVED",
           "CALLBACK_CORRELATED"} \cup Terminal

\* The state of an attempt that is not closed.
ExpectedState(code, session) ==
  IF code # None
  THEN IF session # None THEN "CALLBACK_CORRELATED" ELSE "CODE_RECEIVED"
  ELSE IF session # None THEN "SESSION_RECEIVED" ELSE "AWAITING_CALLBACK"

One(b) == IF b THEN 1 ELSE 0

\* The version that the facts of a record amount to.
FactCount(r) ==
  1 + One(r.code # None) + One(r.session # None) + One(r.status \in Terminal)

\* The fragment of the same kind that a record already holds, or None.
Prior(r, f) == IF f \in Codes THEN r.code ELSE r.session

\* Wrong: the version is only advanced by the end of an attempt.
WithFragmentSameVersion(r, f) ==
  LET code == IF f \in Codes THEN f ELSE r.code
      session == IF f \in Sessions THEN f ELSE r.session
  IN [r EXCEPT !.code = code, !.session = session, !.status = ExpectedState(code, session)]

\* A record, or a view of it, with one more fragment.
WithFragment(r, f) ==
  LET code == IF f \in Codes THEN f ELSE r.code
      session == IF f \in Sessions THEN f ELSE r.session
  IN [r EXCEPT !.code = code, !.session = session,
               !.status = ExpectedState(code, session), !.version = @ + 1]

Closed(r, status) == [r EXCEPT !.status = status, !.version = @ + 1]

\* What a view shows of a record.
Views == [version : 1 .. 4, status : States,
          code : Codes \cup {None}, session : Sessions \cup {None}]

FirstView == [version |-> 1, status |-> "AWAITING_CALLBACK",
              code |-> None, session |-> None]
=============================================================================
