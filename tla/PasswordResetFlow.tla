------------------------- MODULE PasswordResetFlow -------------------------
(***************************************************************************)
(* The password-reset wizard of docs/examples/PASSWORD_RESET_REACT.jsx:    *)
(* the PasswordResetFlow component (step, email, token, generatedToken),   *)
(* the one form it mounts for the current step (ForgotPasswordForm,        *)
(* VerifyCodeForm, NewPasswordForm: input fields, loading, error) and the  *)
(* requests those forms have sent to passwordResetService and that have    *)
(* not been answered yet.                                                  *)
(*                                                                         *)
(* Data is abstracted to what the properties tell apart: an email, a       *)
(* 6-digit code or a password is a model value; an input that the browser  *)
(* or the handler refuses is one of a few distinguished model values.      *)
(* Each reply of the backend is an action that runs the whole continuation *)
(* after the await (try / catch / finally) in one step, as the JavaScript  *)
(* event loop does.  The backend itself is not in this repository: its     *)
(* answers are free choices, and two history variables record what it     *)
(* accepted so that properties can relate the client's state to it.       *)
(***************************************************************************)
EXTENDS Naturals, FiniteSets

CONSTANTS
    Emails,         \* well-formed, non-empty emails a user can type
    NoEmail,        \* the empty email field ''
    Codes,          \* 6-digit numeric codes
    NoCode,         \* the empty code field '' (also the initial token)
    PartialCode,    \* a sanitized code shorter than 6 digits, e.g. "12456"
    Passwords,      \* passwords of at least 6 characters
    NoPwd,          \* the empty password field ''
    ShortPwd,       \* a non-empty password shorter than 6 characters
    MaxCompletions  \* bound on the number of onComplete calls explored

ASSUME ConstantsAssumption ==
    /\ Emails # {} /\ Codes # {} /\ Passwords # {}
    /\ NoEmail \notin Emails
    /\ NoCode \notin Codes /\ PartialCode \notin Codes /\ NoCode # PartialCode
    /\ NoPwd \notin Passwords /\ ShortPwd \notin Passwords /\ NoPwd # ShortPwd
    /\ MaxCompletions \in Nat

EmailInputs == Emails \cup {NoEmail}
CodeInputs  == Codes \cup {NoCode, PartialCode}
PwdInputs   == Passwords \cup {NoPwd, ShortPwd}

\* The error messages the three forms set; NoError stands for '', the
\* value under which no error is rendered.
NoError == "none"
Errors == {NoError, "SendFailed", "CodeLength", "CodeInvalid",
           "VerifyFailed", "PwdLength", "PwdMismatch", "ResetRejected",
           "ResetFailed"}

Requests == [op : {"generate", "verify", "reset"}, email : EmailInputs,
             code : CodeInputs, pwd : PwdInputs]

VARIABLES
    step, email, token, generatedToken,  \* PasswordResetFlow state
    completions,                          \* calls of onComplete so far
    emailField, codeField, pwdField, confirmField, loading, error,
                                          \* state of the mounted form
    inflight,                             \* requests awaiting an answer
    mounted,                              \* the flow is still rendered
    generated,   \* history: <<email, token>> pairs generate answered ok
    verified     \* history: <<email, code>> pairs verify answered true

flowVars == <<step, email, token, generatedToken, completions>>
formVars == <<emailField, codeField, pwdField, confirmField, loading, error>>
histVars == <<generated, verified>>
vars == <<flowVars, formVars, inflight, mounted, histVars>>

\* Type invariant: every variable of the flow, the mounted form and the
\* pending requests holds a value the component's state can take.
TypeOK ==
    /\ step \in {1, 2, 3}
    /\ email \in EmailInputs
    /\ token \in {NoCode} \cup Codes
    /\ generatedToken \in {NoCode} \cup Codes
    /\ completions \in 0..MaxCompletions
    /\ emailField \in EmailInputs
    /\ codeField \in CodeInputs
    /\ pwdField \in PwdInputs /\ confirmField \in PwdInputs
    /\ loading \in BOOLEAN
    /\ error \in Errors
    /\ inflight \subseteq Requests
    /\ mounted \in BOOLEAN
    /\ generated \subseteq Emails \X Codes
    /\ verified \subseteq Emails \X Codes

\* A form mounts with its useState initial values.
FreshForm ==
    /\ emailField' = NoEmail /\ codeField' = NoCode
    /\ pwdField' = NoPwd /\ confirmField' = NoPwd
    /\ loading' = FALSE /\ error' = NoError

Init ==
    /\ step = 1 /\ email = NoEmail /\ token = NoCode
    /\ generatedToken = NoCode /\ completions = 0
    /\ emailField = NoEmail /\ codeField = NoCode
    /\ pwdField = NoPwd /\ confirmField = NoPwd
    /\ loading = FALSE /\ error = NoError
    /\ inflight = {} /\ mounted = TRUE
    /\ generated = {} /\ verified = {}

(***************************************************************************)
(* Typing into an input.  Inputs stay enabled while a request is in        *)
(* flight; the code input's onChange keeps digits only, at most six.       *)
(***************************************************************************)
EditEmail ==
    /\ mounted /\ step = 1
    /\ \E v \in EmailInputs \ {emailField} : emailField' = v
    /\ UNCHANGED <<flowVars, codeField, pwdField, confirmField, loading,
                   error, inflight, mounted, histVars>>

EditCode ==
    /\ mounted /\ step = 2
    /\ \E v \in CodeInputs \ {codeField} : codeField' = v
    /\ UNCHANGED <<flowVars, emailField, pwdField, confirmField, loading,
                   error, inflight, mounted, histVars>>

EditPassword ==
    /\ mounted /\ step = 3
    /\ \E p \in PwdInputs, c \in PwdInputs :
          /\ <<p, c>> # <<pwdField, confirmField>>
          /\ pwdField' = p /\ confirmField' = c
    /\ UNCHANGED <<flowVars, emailField, codeField, loading, error,
                   inflight, mounted, histVars>>

(***************************************************************************)
(* Submitting a form.  The submit button is disabled={loading}, and the    *)
(* inputs are `required`, so the browser fires onSubmit only for a form    *)
(* that is not loading and whose required inputs are non-empty.  The      *)
(* handler's own checks come next; a failed check sets the error and       *)
(* returns before setLoading(true).                                        *)
(***************************************************************************)
Send(r) ==
    /\ loading' = TRUE /\ error' = NoError
    /\ inflight' = inflight \cup {r}

\* ForgotPasswordForm.handleSubmit; its `if (!email)` is unreachable since
\* the input is required.
SubmitEmail ==
    /\ mounted /\ step = 1 /\ ~loading
    /\ emailField \in Emails
    /\ Send([op |-> "generate", email |-> emailField, code |-> NoCode,
             pwd |-> NoPwd])
    /\ UNCHANGED <<flowVars, emailField, codeField, pwdField, confirmField,
                   mounted, histVars>>

\* Mutant of RejectCode: the length check placed after setLoading(true).
RejectCodeAfterLoading ==
    /\ mounted /\ step = 2 /\ ~loading
    /\ codeField = PartialCode
    /\ error' = "CodeLength" /\ loading' = TRUE
    /\ UNCHANGED <<flowVars, emailField, codeField, pwdField, confirmField,
                   inflight, mounted, histVars>>

\* VerifyCodeForm.handleSubmit, for a code that is not 6 digits long.
RejectCode ==
    /\ mounted /\ step = 2 /\ ~loading
    /\ codeField = PartialCode
    /\ error' = "CodeLength"
    /\ UNCHANGED <<flowVars, emailField, codeField, pwdField, confirmField,
                   loading, inflight, mounted, histVars>>

\* VerifyCodeForm.handleSubmit, calling verifyResetCode(email, code).
SubmitCode ==
    /\ mounted /\ step = 2 /\ ~loading
    /\ codeField \in Codes
    /\ Send([op |-> "verify", email |-> email, code |-> codeField,
             pwd |-> NoPwd])
    /\ UNCHANGED <<flowVars, emailField, codeField, pwdField, confirmField,
                   mounted, histVars>>

\* NewPasswordForm.handleSubmit: the length check, then the equality check.
RejectPassword ==
    /\ mounted /\ step = 3 /\ ~loading
    /\ pwdField # NoPwd /\ confirmField # NoPwd
    /\ \/ pwdField = ShortPwd /\ error' = "PwdLength"
       \/ pwdField \in Passwords /\ pwdField # confirmField
          /\ error' = "PwdMismatch"
    /\ UNCHANGED <<flowVars, emailField, codeField, pwdField, confirmField,
                   loading, inflight, mounted, histVars>>

\* NewPasswordForm.handleSubmit, calling resetPassword(email, token, pwd).
\* Exploration stops sending once MaxCompletions completions happened.
SubmitPassword ==
    /\ mounted /\ step = 3 /\ ~loading
    /\ pwdField \in Passwords /\ pwdField = confirmField
    /\ completions < MaxCompletions
    /\ Send([op |-> "reset", email |-> email, code |-> token,
             pwd |-> pwdField])
    /\ UNCHANGED <<flowVars, emailField, codeField, pwdField, confirmField,
                   mounted, histVars>>

(***************************************************************************)
(* Answers of passwordResetService while the flow is mounted.  A call     *)
(* ends with data.success truthy, falsy, or a rejected promise (network    *)
(* error, non-2xx status): the three disjuncts of each reply action.  A    *)
(* request is answered at most once, in any order with respect to typing.  *)
(* The callbacks use the values the handler captured when it ran (r.email, *)
(* r.code), not the fields as they are when the answer arrives.            *)
(***************************************************************************)
Settle(msg) == loading' = FALSE /\ error' = msg

\* Mutant of ReplyGenerate: onCodeSent's two arguments passed swapped.
ReplyGenerateSwapped(r) ==
    /\ mounted /\ r \in inflight /\ r.op = "generate"
    /\ inflight' = inflight \ {r}
    /\ \E tok \in Codes :
          /\ generated' = generated \cup {<<r.email, tok>>}
          /\ email' = tok /\ generatedToken' = r.email /\ step' = 2
          /\ FreshForm
          /\ UNCHANGED <<token, completions, verified, mounted>>

\* ForgotPasswordForm: success -> onCodeSent -> handleCodeSent, which moves
\* the flow to step 2 and mounts VerifyCodeForm; a falsy success only
\* clears loading; a rejection shows an error.
ReplyGenerate(r) ==
    /\ mounted /\ r \in inflight /\ r.op = "generate"
    /\ inflight' = inflight \ {r}
    /\ \/ \E tok \in Codes :
             /\ generated' = generated \cup {<<r.email, tok>>}
             /\ email' = r.email /\ generatedToken' = tok /\ step' = 2
             /\ FreshForm
             /\ UNCHANGED <<token, completions, verified>>
       \/ /\ Settle(error)
          /\ UNCHANGED <<flowVars, emailField, codeField, pwdField,
                         confirmField, histVars>>
       \/ /\ Settle("SendFailed")
          /\ UNCHANGED <<flowVars, emailField, codeField, pwdField,
                         confirmField, histVars>>
    /\ UNCHANGED mounted

\* Mutant of ReplyVerify: onCodeVerified given the code field as it is when
\* the answer arrives instead of the code that was verified.
ReplyVerifyLiveField(r) ==
    /\ mounted /\ r \in inflight /\ r.op = "verify"
    /\ inflight' = inflight \ {r}
    /\ verified' = verified \cup {<<r.email, r.code>>}
    /\ token' = codeField /\ step' = 3
    /\ FreshForm
    /\ UNCHANGED <<email, generatedToken, completions, generated, mounted>>

\* Mutant of ReplyVerify: handleCodeVerified forgets setToken(code).
ReplyVerifyNoToken(r) ==
    /\ mounted /\ r \in inflight /\ r.op = "verify"
    /\ inflight' = inflight \ {r}
    /\ verified' = verified \cup {<<r.email, r.code>>}
    /\ step' = 3
    /\ FreshForm
    /\ UNCHANGED <<email, token, generatedToken, completions, generated,
                   mounted>>

\* VerifyCodeForm: true -> onCodeVerified(code) -> handleCodeVerified.
ReplyVerify(r) ==
    /\ mounted /\ r \in inflight /\ r.op = "verify"
    /\ inflight' = inflight \ {r}
    /\ \/ /\ verified' = verified \cup {<<r.email, r.code>>}
          /\ token' = r.code /\ step' = 3
          /\ FreshForm
          /\ UNCHANGED <<email, generatedToken, completions, generated>>
       \/ /\ Settle("CodeInvalid")
          /\ UNCHANGED <<flowVars, emailField, codeField, pwdField,
                         confirmField, histVars>>
       \/ /\ Settle("VerifyFailed")
          /\ UNCHANGED <<flowVars, emailField, codeField, pwdField,
                         confirmField, histVars>>
    /\ UNCHANGED mounted

\* NewPasswordForm: true -> onPasswordReset -> handlePasswordReset, which
\* alerts and calls onComplete but leaves the flow at step 3 with the form
\* (and its filled fields) mounted.
ReplyReset(r) ==
    /\ mounted /\ r \in inflight /\ r.op = "reset"
    /\ inflight' = inflight \ {r}
    /\ \/ /\ completions' = completions + 1
          /\ Settle(error)
       \/ Settle("ResetRejected") /\ UNCHANGED completions
       \/ Settle("ResetFailed") /\ UNCHANGED completions
    /\ UNCHANGED <<step, email, token, generatedToken, emailField,
                   codeField, pwdField, confirmField, mounted, histVars>>

(***************************************************************************)
(* The parent stops rendering the flow (navigation, or its own reaction to *)
(* onComplete).  State updates of an unmounted component are dropped, but  *)
(* a pending request still settles and its callback still runs: a late     *)
(* successful reset still alerts and calls onComplete.                     *)
(***************************************************************************)
Unmount ==
    /\ mounted
    /\ mounted' = FALSE
    /\ UNCHANGED <<flowVars, formVars, inflight, histVars>>

ReplyUnmounted(r) ==
    /\ ~mounted /\ r \in inflight
    /\ inflight' = inflight \ {r}
    /\ \/ /\ r.op = "generate"
          /\ \E tok \in Codes : generated' = generated \cup {<<r.email, tok>>}
          /\ UNCHANGED <<completions, verified>>
       \/ /\ r.op = "verify"
          /\ verified' = verified \cup {<<r.email, r.code>>}
          /\ UNCHANGED <<completions, generated>>
       \/ /\ r.op = "reset"
          /\ completions' = completions + 1
          /\ UNCHANGED histVars
       \/ UNCHANGED <<completions, histVars>>   \* false or rejected
    /\ UNCHANGED <<step, email, token, generatedToken, formVars, mounted>>

Next ==
    \/ EditEmail \/ EditCode \/ EditPassword
    \/ SubmitEmail \/ RejectCode \/ SubmitCode
    \/ RejectPassword \/ SubmitPassword
    \/ \E r \in inflight : ReplyGenerate(r) \/ ReplyVerify(r) \/ ReplyReset(r)
    \/ Unmount
    \/ \E r \in inflight : ReplyUnmounted(r)

Spec == Init /\ [][Next]_vars

(***************************************************************************)
(* Properties.                                                             *)
(***************************************************************************)

\* The session binds what the backend accepted: once past step 1 the flow's
\* email is one a code was generated for (with the token it returned); at
\* step 3 its token is a code the backend verified for that email; and
\* every resetPassword call in flight carries such a verified pair.  This
\* is about the callbacks using the values captured at submit time while
\* the user keeps typing in the still-enabled inputs.
SessionBinding ==
    /\ step >= 2 => <<email, generatedToken>> \in generated
    /\ step = 3 => <<email, token>> \in verified
    /\ \A r \in inflight : r.op = "reset" => <<r.email, r.code>> \in verified

\* While the flow is mounted, at most one request is outstanding and the
\* form is busy (submit disabled) exactly while it is: no submission is
\* duplicated and no form stays stuck in loading.  About the ordering of
\* setLoading(true), the early returns and finally { setLoading(false) }.
SingleRequestInFlight ==
    mounted => /\ Cardinality(inflight) <= 1
               /\ loading <=> inflight # {}

\* Every answer that leaves a mounted flow in the same step without
\* completing it shows an error (spec section 4: "on failure ... remains in
\* RequestCode and exposes an error message").  About the `if
\* (result.success)` branch of ForgotPasswordForm, which has no else.
FailureSurfaced ==
    [][\A r \in inflight :
         (mounted /\ r \notin inflight' /\ step' = step
                  /\ completions' = completions) => error' # NoError]_vars

\* The wizard implements PasswordResetAbstract: the step only moves forward
\* one at a time, the email is fixed when the code is sent and the token
\* when it is verified (spec section 3).  About every answer, early or late,
\* mounted or not, touching step, email and token only in that order.
Abstract == INSTANCE PasswordResetAbstract WITH phase <- step
AbstractSpec == Abstract!Spec

\* Teardown abandons the flow: once the parent has stopped rendering it, no
\* step signals completion (spec section 5: network calls are cancelled only
\* by component teardown, abandoning the flow).  About the late answer of a
\* resetPassword sent before the unmount still running handlePasswordReset,
\* since nothing cancels the request.
NoCompletionAfterTeardown == [][~mounted => completions' = completions]_vars

\* onComplete is signalled at most once (spec: RequestCode -> VerifyCode ->
\* SetPassword -> Complete exactly once each, Complete terminal).  About
\* handlePasswordReset leaving the flow at step 3 with its form mounted.
CompletesOnce == completions <= 1

=============================================================================
