---------------------------- MODULE AuthSession ----------------------------
(***************************************************************************)
(* Authentication in docs/examples/REACT_EXAMPLES.js: the AuthProvider     *)
(* (user, loading, the 'user' entry of localStorage), the Login component  *)
(* (loading, error), usuarioService.login and the axios response           *)
(* interceptor that sends the browser to /login on a 401.                  *)
(*                                                                         *)
(* A page load is a restart: the JavaScript heap (React state, pending     *)
(* requests) is lost and only localStorage survives.  The user data the    *)
(* backend returns is a model value; JSON.stringify then JSON.parse gives  *)
(* back an equal plain object, so storage holds the same value.            *)
(***************************************************************************)
EXTENDS Naturals

CONSTANTS
    Users,      \* user data objects the backend may return
    NoUser,     \* null: no user / no 'user' entry in localStorage
    MaxLogins   \* bound on the number of login submissions explored

ASSUME AuthAssumption ==
    /\ Users # {} /\ NoUser \notin Users
    /\ MaxLogins \in Nat

NoError == "none"
LoginErrors == {NoError, "InvalidCredentials", "ServerError"}
Pages == {"login", "dashboard"}

VARIABLES
    storage,      \* localStorage 'user' (survives page loads)
    user,         \* AuthProvider user
    authLoading,  \* AuthProvider loading
    page,         \* current route; Login is mounted on "login"
    loginLoading, loginError,  \* Login component state
    inflight,     \* pending login calls: [n, live], live = sender mounted
    sent,         \* login submissions so far
    redirecting,  \* the interceptor assigned window.location.href
    loggedOut,    \* history: logout since the last login submission
    rejected      \* history: a 401 answered the last submission

heapVars == <<user, authLoading, page, loginLoading, loginError, inflight,
              redirecting>>
vars == <<storage, heapVars, sent, loggedOut, rejected>>

LoginReqs == [n : 1..MaxLogins, live : BOOLEAN]

\* Type invariant of the provider, the Login form and the pending calls.
TypeOK ==
    /\ storage \in Users \cup {NoUser} /\ user \in Users \cup {NoUser}
    /\ authLoading \in BOOLEAN /\ page \in Pages
    /\ loginLoading \in BOOLEAN /\ loginError \in LoginErrors
    /\ inflight \subseteq LoginReqs /\ sent \in 0..MaxLogins
    /\ redirecting \in BOOLEAN
    /\ loggedOut \in BOOLEAN /\ rejected \in BOOLEAN

\* Login unmounts: the calls it sent stay pending but have no component
\* left to run their setLoading / setError on.
Orphaned(S) == {[n |-> q.n, live |-> FALSE] : q \in S}

\* A page load: AuthProvider mounts with user null and loading true, Login
\* (if routed) mounts fresh, and nothing of the old page is pending.
PageLoad(p) ==
    /\ user' = NoUser /\ authLoading' = TRUE /\ page' = p
    /\ loginLoading' = FALSE /\ loginError' = NoError
    /\ inflight' = {} /\ redirecting' = FALSE

Init ==
    /\ storage \in Users \cup {NoUser}   \* left by an earlier visit
    /\ \E p \in Pages :
          /\ user = NoUser /\ authLoading = TRUE /\ page = p
          /\ loginLoading = FALSE /\ loginError = NoError
          /\ inflight = {} /\ redirecting = FALSE
    /\ sent = 0 /\ loggedOut = FALSE /\ rejected = FALSE

\* Mutant of RestoreSession: setLoading(false) moved inside if (savedUser).
RestoreSessionInsideIf ==
    /\ authLoading
    /\ user' = IF storage # NoUser THEN storage ELSE user
    /\ authLoading' = (storage = NoUser)
    /\ UNCHANGED <<storage, page, loginLoading, loginError, inflight,
                   redirecting, sent, loggedOut, rejected>>

\* AuthProvider's mount effect.  React flushes it before the next user
\* event, so the other actions wait for it (~authLoading).
RestoreSession ==
    /\ authLoading
    /\ user' = IF storage # NoUser THEN storage ELSE user
    /\ authLoading' = FALSE
    /\ UNCHANGED <<storage, page, loginLoading, loginError, inflight,
                   redirecting, sent, loggedOut, rejected>>

\* Login.handleSubmit up to the await of login(email, senha).
SubmitLogin ==
    /\ ~authLoading /\ page = "login" /\ ~loginLoading
    /\ sent < MaxLogins
    /\ loginLoading' = TRUE /\ loginError' = NoError
    /\ sent' = sent + 1
    /\ inflight' = inflight \cup {[n |-> sent + 1, live |-> TRUE]}
    /\ loggedOut' = FALSE /\ rejected' = FALSE
    /\ UNCHANGED <<storage, user, authLoading, page, redirecting>>

\* Mutant of LoginSettles: the finally { setLoading(false) } dropped.
LoginSettlesNoFinally(r, msg) ==
    IF r.live THEN loginLoading' = loginLoading /\ loginError' = msg
              ELSE UNCHANGED <<loginLoading, loginError>>

\* The Login that sent r, if still mounted, runs catch/finally.
LoginSettles(r, msg) ==
    IF r.live THEN loginLoading' = FALSE /\ loginError' = msg
              ELSE UNCHANGED <<loginLoading, loginError>>

\* Mutant of LoginOk: the object stored without JSON.stringify, which
\* localStorage turns into the string "[object Object]".
LoginOkNoStringify(r) ==
    /\ r \in inflight
    /\ \E u \in Users : user' = u /\ storage' = "[object Object]"
    /\ page' = "dashboard"
    /\ inflight' = Orphaned(inflight \ {r})
    /\ loginLoading' = FALSE
    /\ UNCHANGED <<authLoading, loginError, redirecting, sent, loggedOut,
                   rejected>>

\* 200: AuthProvider.login stores the user in state and in localStorage,
\* then Login navigates to /dashboard (unmounting itself).
LoginOk(r) ==
    /\ r \in inflight
    /\ \E u \in Users : user' = u /\ storage' = u
    /\ page' = "dashboard"
    /\ inflight' = Orphaned(inflight \ {r})
    /\ loginLoading' = FALSE
    /\ UNCHANGED <<authLoading, loginError, redirecting, sent, loggedOut,
                   rejected>>

\* 401: the interceptor assigns window.location.href = '/login' (the page
\* unloads later) and rejects; usuarioService.login throws 'Credenciais
\* inválidas', AuthProvider.login rethrows, Login shows it.
LoginUnauthorized(r) ==
    /\ r \in inflight
    /\ redirecting' = TRUE
    /\ LoginSettles(r, "InvalidCredentials")
    /\ rejected' = r.live
    /\ inflight' = inflight \ {r}
    /\ UNCHANGED <<storage, user, authLoading, page, sent, loggedOut>>

\* Any other failure: 'Erro no servidor'.
LoginFailed(r) ==
    /\ r \in inflight
    /\ LoginSettles(r, "ServerError")
    /\ inflight' = inflight \ {r}
    /\ UNCHANGED <<storage, user, authLoading, page, redirecting, sent,
                   loggedOut, rejected>>

\* Mutant of Logout: localStorage.removeItem forgotten.
LogoutKeepStorage ==
    /\ ~authLoading
    /\ user' = NoUser
    /\ loggedOut' = TRUE
    /\ UNCHANGED <<storage, authLoading, page, loginLoading, loginError,
                   inflight, redirecting, sent, rejected>>

\* AuthProvider.logout, called from anywhere under the provider.
Logout ==
    /\ ~authLoading
    /\ user' = NoUser /\ storage' = NoUser
    /\ loggedOut' = TRUE
    /\ UNCHANGED <<authLoading, page, loginLoading, loginError, inflight,
                   redirecting, sent, rejected>>

\* Client-side route change.  Leaving /login unmounts Login: its pending
\* call loses its component; entering it mounts a fresh Login.
Navigate ==
    /\ ~authLoading
    /\ \E p \in Pages \ {page} :
          /\ page' = p
          /\ inflight' = Orphaned(inflight)
          /\ loginLoading' = FALSE /\ loginError' = NoError
    /\ rejected' = FALSE
    /\ UNCHANGED <<storage, user, authLoading, redirecting, sent, loggedOut>>

\* The navigation the interceptor started completes: /login is loaded.
Redirect401 ==
    /\ redirecting
    /\ PageLoad("login")
    /\ UNCHANGED <<storage, sent, loggedOut, rejected>>

\* The user reloads the page.
Refresh ==
    /\ ~authLoading
    /\ PageLoad(page)
    /\ rejected' = FALSE
    /\ UNCHANGED <<storage, sent, loggedOut>>

Next ==
    \/ RestoreSession \/ SubmitLogin
    \/ \E r \in inflight : LoginOk(r) \/ LoginUnauthorized(r) \/ LoginFailed(r)
    \/ Logout \/ Navigate \/ Redirect401 \/ Refresh

Spec == Init /\ [][Next]_vars

\* React runs a mounted component's effect once it has committed: weak
\* fairness of the mount effect.  Nothing is assumed of users or backend.
FairSpec == Spec /\ WF_vars(RestoreSession)

(***************************************************************************)
(* Properties.                                                             *)
(***************************************************************************)

\* Once the provider has loaded, the user in memory is the one persisted in
\* localStorage, across logins, logouts and any number of page loads (the
\* restart that keeps only localStorage).  About login and logout updating
\* both, and the mount effect restoring from storage.
SessionPersisted == ~authLoading => user = storage

\* A logout is final until the user submits a new login: no answer to a
\* login sent before it brings the user back (spec: clear on logout).
\* About the await in AuthProvider.login, after which setUser and
\* localStorage.setItem run unconditionally.
LogoutSticks == loggedOut => user = NoUser /\ storage = NoUser

\* The mounted Login form has at most one login call of its own pending, and
\* shows 'Entrando...' (loading) exactly while it has one.  About the submit
\* button's disabled={loading} being the only guard against a second
\* submission, and every path of handleSubmit ending in finally.
LoginSingleFlight ==
    /\ \A r, q \in inflight : r.live /\ q.live => r = q
    /\ loginLoading <=> \E r \in inflight : r.live

\* Every page load ends with the provider loaded, whether or not a user was
\* saved, so consumers of useAuth() stop seeing loading true.  About the mount
\* effect ending with setLoading(false) outside the if (savedUser).
ProviderLoads == authLoading ~> ~authLoading

\* After a login answered 401, Login shows 'Credenciais inválidas' until the
\* user acts again (usuarioService.login maps 401 to that message).  About
\* the interceptor's redirect on the same 401.
CredentialErrorShown == rejected => loginError = "InvalidCredentials"

=============================================================================
