----------------------------- MODULE ResetHook -----------------------------
(***************************************************************************)
(* The usePasswordReset hook of docs/examples/PASSWORD_RESET_REACT.jsx:    *)
(* one `loading` flag and one `error` message shared by generateCode,      *)
(* verifyCode and resetPassword.  Nothing stops a caller from starting a   *)
(* call while another is pending, so calls are modelled as concurrent     *)
(* async functions: each starts (setLoading(true), setError('')), awaits   *)
(* the service, and settles in one step (catch, then finally).            *)
(***************************************************************************)
EXTENDS Naturals

CONSTANTS
    Calls    \* identities of calls a caller may have pending at once

\* '' in the code: no error.
NoError == "none"

Ops == {"generate", "verify", "reset"}

\* The message each operation's catch sets.
ErrorOf(op) ==
    CASE op = "generate" -> "GenerateFailed"
      [] op = "verify"   -> "VerifyFailed"
      [] op = "reset"    -> "ResetFailed"

VARIABLES
    loading, error,
    pending    \* [Calls -> Ops \cup {"idle"}]: the operation awaiting

vars == <<loading, error, pending>>

\* Type invariant of the hook's state.
TypeOK ==
    /\ loading \in BOOLEAN
    /\ error \in {NoError} \cup {ErrorOf(op) : op \in Ops}
    /\ pending \in [Calls -> Ops \cup {"idle"}]

Init ==
    /\ loading = FALSE /\ error = NoError
    /\ pending = [c \in Calls |-> "idle"]

\* generateCode / verifyCode / resetPassword up to the await.
Start(c, op) ==
    /\ pending[c] = "idle"
    /\ loading' = TRUE /\ error' = NoError
    /\ pending' = [pending EXCEPT ![c] = op]

\* Mutant of Resolve: the finally block dropped on the success path.
ResolveNoFinally(c) ==
    /\ pending[c] # "idle"
    /\ loading' = loading
    /\ pending' = [pending EXCEPT ![c] = "idle"]
    /\ UNCHANGED error

\* The awaited service call resolves: the value is returned, finally runs.
Resolve(c) ==
    /\ pending[c] # "idle"
    /\ loading' = FALSE
    /\ pending' = [pending EXCEPT ![c] = "idle"]
    /\ UNCHANGED error

\* Mutant of Reject: the `|| 'Erro ao ...'` fallback dropped, so an answer
\* without data.message sets the error to undefined.
RejectNoFallback(c) ==
    /\ pending[c] # "idle"
    /\ error' \in {ErrorOf(pending[c]), "undefined"} /\ loading' = FALSE
    /\ pending' = [pending EXCEPT ![c] = "idle"]

\* The awaited call rejects: catch sets the error and rethrows, finally runs.
Reject(c) ==
    /\ pending[c] # "idle"
    /\ error' = ErrorOf(pending[c]) /\ loading' = FALSE
    /\ pending' = [pending EXCEPT ![c] = "idle"]

Next ==
    \E c \in Calls :
        \/ \E op \in Ops : Start(c, op)
        \/ Resolve(c)
        \/ Reject(c)

Spec == Init /\ [][Next]_vars

\* The hook reports loading whenever one of its calls is still awaiting the
\* service, so a caller that disables its UI on `loading` never lets a
\* second request race a pending one (spec section 5, busy flag).  About
\* each call's finally clearing the shared flag.
LoadingWhilePending == (\E c \in Calls : pending[c] # "idle") => loading

\* What the shared flags do guarantee: the hook never reports loading with
\* no call awaiting the service (no spinner stuck after the last answer),
\* and never shows an error while reporting loading.  About every path of
\* the three functions ending in finally { setLoading(false) }, and
\* setError('') running together with setLoading(true).
LoadingSound ==
    /\ loading => \E c \in Calls : pending[c] # "idle"
    /\ error # NoError => ~loading

=============================================================================
