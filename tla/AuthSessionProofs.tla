-------------------------- MODULE AuthSessionProofs --------------------------
(***************************************************************************)
(* TLAPS proofs about AuthSession: type correctness, SessionPersisted and  *)
(* LoginSingleFlight, for every set of users and every bound on logins.    *)
(***************************************************************************)
EXTENDS AuthSession, TLAPS

\* While the mount effect has not run, the provider holds no user and no
\* login of the new page can have been sent (Login waits for the provider).
LoadingClean == authLoading => user = NoUser /\ inflight = {}

IInv == TypeOK /\ LoadingClean /\ SessionPersisted /\ LoginSingleFlight

\* The calls of an unmounted Login are well typed and none of them is live.
LEMMA OrphanedCalls ==
    ASSUME NEW S \in SUBSET LoginReqs
    PROVE  /\ Orphaned(S) \in SUBSET LoginReqs
           /\ \A q \in Orphaned(S) : ~q.live
<1>1. FALSE \in BOOLEAN
  BY Zenon
<1>2. \A q \in S : [n |-> q.n, live |-> FALSE] \in LoginReqs
  BY <1>1, Zenon DEF LoginReqs
<1>3. ASSUME NEW q \in Orphaned(S)
      PROVE  q \in LoginReqs /\ ~q.live
  <2>1. PICK x \in S : q = [n |-> x.n, live |-> FALSE]
    BY <1>3 DEF Orphaned
  <2>2. QED
    BY <1>2, <2>1
<1>4. QED
  BY <1>3

LEMMA IInvInit == Init => IInv
<1> SUFFICES ASSUME Init PROVE IInv
  OBVIOUS
<1>1. authLoading \in BOOLEAN /\ loginLoading \in BOOLEAN
      /\ redirecting \in BOOLEAN /\ loggedOut \in BOOLEAN
      /\ rejected \in BOOLEAN
  BY Zenon DEF Init
<1>2. QED
  BY <1>1, AuthAssumption DEF Init, IInv, TypeOK, LoadingClean,
     SessionPersisted, LoginSingleFlight, LoginErrors, Pages, NoError

LEMMA IInvStep == IInv /\ [Next]_vars => IInv'
<1> SUFFICES ASSUME IInv, [Next]_vars PROVE IInv'
  OBVIOUS
<1> USE AuthAssumption
<1> USE DEF IInv, TypeOK, LoadingClean, SessionPersisted, LoginSingleFlight,
            LoginErrors, Pages, NoError, LoginReqs
<1>1. CASE RestoreSession
  <2>1. authLoading' \in BOOLEAN
    BY <1>1, Zenon DEF RestoreSession
  <2>2. QED
    BY <1>1, <2>1 DEF RestoreSession
<1>2. CASE SubmitLogin
  <2>1. loggedOut' \in BOOLEAN /\ rejected' \in BOOLEAN
    BY <1>2, Zenon DEF SubmitLogin
  <2>2. sent + 1 \in 1..MaxLogins /\ sent' \in 0..MaxLogins
    BY <1>2 DEF SubmitLogin
  <2>3. inflight' \subseteq LoginReqs
    <3>1. [n |-> sent + 1, live |-> TRUE] \in LoginReqs
      BY <2>2, Zenon
    <3>2. QED
      BY <1>2, <3>1, Zenon DEF SubmitLogin
  <2>4. \A r \in inflight : ~r.live
    BY <1>2 DEF SubmitLogin
  <2>5. QED
    BY <1>2, <2>1, <2>2, <2>3, <2>4 DEF SubmitLogin
<1>3. ASSUME NEW r \in inflight, LoginOk(r) PROVE IInv'
  <2>1. ~authLoading
    BY <1>3 DEF LoginOk
  <2>2. inflight' \subseteq LoginReqs /\ \A q \in inflight' : ~q.live
    BY <1>3, OrphanedCalls DEF LoginOk
  <2>3. loginLoading' \in BOOLEAN
    BY <1>3, Zenon DEF LoginOk
  <2>4. QED
    BY <1>3, <2>1, <2>2, <2>3 DEF LoginOk
<1>4. ASSUME NEW r \in inflight, LoginUnauthorized(r) PROVE IInv'
  <2>1. r.live \in BOOLEAN /\ TRUE \in BOOLEAN
    OBVIOUS
  <2>2. QED
    BY <1>4, <2>1 DEF LoginUnauthorized, LoginSettles
<1>5. ASSUME NEW r \in inflight, LoginFailed(r) PROVE IInv'
  BY <1>5 DEF LoginFailed, LoginSettles
<1>6. CASE Logout
  <2>1. loggedOut' \in BOOLEAN
    BY <1>6, Zenon DEF Logout
  <2>2. QED
    BY <1>6, <2>1 DEF Logout
<1>7. CASE Navigate
  <2>1. rejected' \in BOOLEAN /\ loginLoading' \in BOOLEAN
    BY <1>7, Zenon DEF Navigate
  <2>2. inflight' \subseteq LoginReqs /\ \A q \in inflight' : ~q.live
    BY <1>7, OrphanedCalls DEF Navigate
  <2>3. QED
    BY <1>7, <2>1, <2>2 DEF Navigate
<1>8. CASE Redirect401 \/ Refresh
  <2>1. loginLoading' \in BOOLEAN /\ redirecting' \in BOOLEAN
        /\ rejected' \in BOOLEAN /\ authLoading' \in BOOLEAN
    BY <1>8, Zenon DEF Redirect401, Refresh, PageLoad
  <2>2. QED
    BY <1>8, <2>1 DEF Redirect401, Refresh, PageLoad
<1>9. CASE UNCHANGED vars
  BY <1>9 DEF vars, heapVars
<1>10. QED
  BY <1>1, <1>2, <1>3, <1>4, <1>5, <1>6, <1>7, <1>8, <1>9 DEF Next

\* Type correctness of the provider, the Login form and the pending logins.
THEOREM AuthTypeCorrect == Spec => []TypeOK
<1>1. Spec => []IInv
  BY IInvInit, IInvStep, PTL DEF Spec
<1>2. QED
  BY <1>1, PTL DEF IInv

\* Once loaded, AuthProvider's user is the one in localStorage, across any
\* number of logins, logouts, route changes and page loads:
\* SessionPersisted, for every value of the constants.
THEOREM SessionPersistedInvariant == Spec => []SessionPersisted
<1>1. Spec => []IInv
  BY IInvInit, IInvStep, PTL DEF Spec
<1>2. QED
  BY <1>1, PTL DEF IInv

\* The mounted Login form never has two of its own login calls pending and
\* is loading exactly while it has one, across route changes that orphan
\* calls and page loads that drop them: LoginSingleFlight, for every value
\* of the constants.
THEOREM LoginSingleFlightInvariant == Spec => []LoginSingleFlight
<1>1. Spec => []IInv
  BY IInvInit, IInvStep, PTL DEF Spec
<1>2. QED
  BY <1>1, PTL DEF IInv

=============================================================================
