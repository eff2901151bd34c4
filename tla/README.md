# Formal models of the projetoback front-end examples

This directory models the code in `src/docs/examples/` in TLA+. It has
specifications, TLC configurations that check them on small instances,
and TLAPS proofs that hold for every value of the constants.

## 1. Inventory

The repository has two source files. Both are front-end examples that talk
to an external backend over HTTP. Nothing of the backend is in the repository.

| Component | Source | State it keeps | Operations |
|---|---|---|---|
| **PasswordResetFlow** (the core) | `PASSWORD_RESET_REACT.jsx` 228-281 | `step` (1..3), `email`, `token`, `generatedToken` | `handleCodeSent`, `handleCodeVerified`, `handlePasswordReset`; renders one form per step |
| ForgotPasswordForm | 31-85 | `email` field, `loading`, `error` | typing, `handleSubmit` → `generateResetCode` |
| VerifyCodeForm | 88-150 | `code` field (digits only, at most 6), `loading`, `error` | typing, `handleSubmit` → `verifyResetCode` |
| NewPasswordForm | 153-226 | `password`, `confirmPassword`, `loading`, `error` | typing, `handleSubmit` → `resetPassword` |
| passwordResetService | 6-28 | none | three POSTs |
| usePasswordReset hook | 284-338 | one `loading` and one `error` for three calls | `generateCode`, `verifyCode`, `resetPassword` |
| AuthProvider / useAuth / Login | `REACT_EXAMPLES.js` 182-296 | `user`, `loading`, `localStorage.user`; Login: fields, `loading`, `error` | mount effect (restore), `login`, `logout`, Login submit |
| axios instance + 401 interceptor | 4-26 | none (a 401 triggers a full page reload) | response interceptor |
| ClienteForm + clienteService.criar | 78-98, 298-435 | nested `formData`, `loading`, `error` | `handleChange`, `handleSubmit` |
| useEspecialidades | 437-462 | `especialidades`, `loading`, `error` | one fetch at mount |
| Other CRUD wrappers | 28-180 | none | one HTTP call each |

**How the parts interact.** Callbacks connect the flow and its forms. A form
calls the service, awaits the answer and then calls back into the flow
(`onCodeSent`, `onCodeVerified`, `onPasswordReset`). The flow changes
`step`, which unmounts the current form and mounts the next one with fresh
state. The parent of the flow gets `onComplete`. The hook, AuthProvider and
ClienteForm each follow the same pattern. Each one awaits an HTTP call and
updates React state once the call settles.

**What is hard here.** JavaScript runs single-threaded, but every handler is
split at its `await`. These things can happen while a request is pending:
- the user keeps typing, because the inputs are not disabled;
- the user clicks again, which only the button's `disabled={loading}` blocks;
- the parent unmounts the flow;
- another call of the hook starts.

The answer can be a success, a falsy `success`, or a rejection. No request
has a timeout, and nothing retries automatically. After the await, the
callbacks use the values the handler captured at submit time.

**What makes each component correct.**
- The flow only holds, and only sends, an email/code pair that the backend
  generated and verified together, whatever the user types meanwhile.
- There is never more than one request at a time, and `loading` is true
  exactly while one is pending.
- Every failure shows a message.
- Completion happens once, and never after the flow has been abandoned.
- The hook's `loading` is true while any of its calls is pending.
- AuthProvider's memory agrees with `localStorage` once it has loaded, it
  always finishes loading, a logout is not undone, and a failed login's
  message is shown.

The hazards are listed with their lines in `PROJECT.json`.

## 2. Modules

### `PasswordResetFlow` (core)
This module models the flow, the one form it has mounted, and the requests
still in flight.

**Variables:**
- `step`, `email`, `token`, `generatedToken`: the flow's `useState`.
- `completions`: the number of times `onComplete` has been called.
- `emailField`, `codeField`, `pwdField`, `confirmField`, `loading`, `error`:
  the mounted form. The mounted form is always the one for `step`, and
  mounting a form resets these variables to the form's `useState` initial
  values (`FreshForm`).
- `inflight`: the set of requests that have been sent and not yet answered.
  Each request is a record holding the values the handler captured.
- `mounted`: whether the flow is still rendered.
- `generated`, `verified`: history variables. They hold the pairs the
  backend accepted. No code reads them; the properties do.

**Data abstraction.** Emails, codes and passwords are model values. A few
distinguished values stand for the inputs that get refused:
- `NoEmail`, `NoCode`, `NoPwd`: the empty field.
- `PartialCode`: a code with fewer than 6 digits. The `onChange` sanitiser
  keeps only digits and at most six of them, so `"12a456"` becomes such a
  partial code.
- `ShortPwd`: a password shorter than 6 characters.

The inputs are `required`, so the browser fires `onSubmit` only when they
are non-empty. That makes ForgotPasswordForm's `if (!email)` unreachable,
and the model has no action for it.

**Actions.**

| Action | Code |
|---|---|
| `EditEmail`, `EditCode`, `EditPassword` | the inputs' `onChange` (allowed while loading) |
| `SubmitEmail` | ForgotPasswordForm.handleSubmit up to the await |
| `RejectCode`, `SubmitCode` | VerifyCodeForm.handleSubmit: the length check, or the call |
| `RejectPassword`, `SubmitPassword` | NewPasswordForm.handleSubmit: the length or equality check, or the call |
| `ReplyGenerate`, `ReplyVerify`, `ReplyReset` | the continuation after the await: `try` body, `catch`, `finally` and the flow callback it calls, as one step (the event loop runs a continuation to completion). Each has three disjuncts: success, falsy success, rejection |
| `Unmount` | the parent stops rendering the flow |
| `ReplyUnmounted` | an answer that arrives after unmount: React drops its state updates, but `handlePasswordReset` still alerts and calls `onComplete` |

### `ResetHook`
This module models `usePasswordReset`. The variables are `loading`, `error`,
and `pending`, a map from call identity to the operation that call is
awaiting. The actions are:
- `Start`: everything before the await.
- `Resolve`: the value is returned, then `finally` runs.
- `Reject`: `catch` sets the error and rethrows, then `finally` runs.

Callers may overlap calls, because nothing in the hook prevents it.

### `PasswordResetAbstract`
This module states what the wizard promises, with no forms or requests.
Its variables are `phase` (1..3), `email` and `token`. It has two actions:
- `CodeSent`: phase 1 → 2, with an email chosen;
- `CodeVerified`: phase 2 → 3, with a token chosen and the email kept.

The code has no separate Complete phase, because a reset leaves the flow at
step 3. The abstract spec therefore has none either.

`PasswordResetFlow` instantiates it as
`Abstract == INSTANCE PasswordResetAbstract WITH phase <- step`, with
`email` and `token` mapped to themselves, and checks `AbstractSpec` as a
PROPERTY.

### Environment actions
`Unmount` (the parent stops rendering the flow) and `Navigate` (the user
changes route) are steps of the environment, not of the code: the parent and
the router are not in the repository. They have no "map" entry. What the
code does after them is modelled: `ReplyUnmounted` runs the callbacks of
an answer that arrives after unmount, and an answer to an orphaned Login
call runs no state update (`LoginSettles`).

### `AuthSession` (`REACT_EXAMPLES.js` 7-46, 182-296)
This module models AuthProvider, the Login component and the axios 401
interceptor.

**Variables:**
- `storage`: `localStorage.user`, which survives page loads.
- `user`, `authLoading`: AuthProvider's state.
- `page`: the route, `"login"` or `"dashboard"`.
- `loginLoading`, `loginError`: the Login form.
- `inflight`: pending `login` calls, as records `[n, live]`. `live` is false
  once the Login component that sent the call has unmounted
  (`Orphaned`, on `navigate` or a route change).
- `sent`: a bounded counter of submissions.
- `redirecting`: the interceptor has set `window.location.href`.
- `loggedOut`, `rejected`: history variables for the properties.

A page load (`PageLoad`) is modelled as a restart. React state and pending
calls are lost, and `localStorage` survives.

**Actions.**

| Action | Code |
|---|---|
| `RestoreSession` | the mount effect: restore the saved user if there is one, then `setLoading(false)` |
| `SubmitLogin` | `Login.handleSubmit` up to the await |
| `LoginOk` | `AuthProvider.login` after the await (`setUser`, `setItem`), then `navigate('/dashboard')` |
| `LoginUnauthorized` | a 401: the interceptor starts the redirect, and `usuarioService.login` throws 'Credenciais inválidas' |
| `LoginFailed` | any other error: 'Erro no servidor' |
| `Logout` | `AuthProvider.logout` |
| `Navigate` | a client-side route change, which unmounts or mounts Login |
| `Redirect401` | the navigation to `/login` that the interceptor started completes |
| `Refresh` | the user reloads the page |

User actions wait for the mount effect (`~authLoading`), because React runs
an effect before the next user event. `FairSpec` adds `WF_vars(RestoreSession)`:
React runs the effect of every mounted component.

The email and password inputs are not modelled, since no property depends
on what is typed.

### Proof modules
`PasswordResetFlowProofs`, `AuthSessionProofs` and `ResetHookProofs` hold the TLAPS proofs
(section 4).

### MC modules
`MCPasswordResetFlow`, `MCResetHook` and `MCAuthSession` give the constants
their values.

## 3. Runs

All PasswordResetFlow runs use the same instance:
- emails `{e1, e2}`, codes `{c1, c2}`, passwords `{p1, p2}`, as model values;
- `MaxCompletions = 2`;
- symmetry over each of these sets (the spec only compares them for equality).

Two values of each kind let the user change a field to a *different* valid
value while a request is pending, which is what the binding property is
about. `MaxCompletions = 2` lets a second completion happen. The check
reaches 787 distinct states and every action and disjunct fires.

`CHECK_DEADLOCK FALSE` is set because the flow really does stop. Once the
parent has unmounted it and the last answer has arrived, no action is
enabled. While the flow is mounted, typing is always possible.

| Run | Expect | Property | What it shows |
|---|---|---|---|
| `flow_binding` | pass | `SessionBinding` | The flow's email and `generatedToken` are a pair the backend generated. At step 3 its token is a code verified for that email. Every `resetPassword` in flight carries a verified pair. This holds because the callbacks use values captured at submit time. The mutant that hands `onCodeVerified` the live field breaks it in 5 steps. |
| `flow_single_request` | pass | `TypeOK`, `SingleRequestInFlight` | States are well typed (the mutant passing `onCodeSent` its arguments swapped breaks it). While mounted, there is at most one request and `loading ⇔ request pending`. The mutant that validates after `setLoading(true)` breaks it. |
| `flow_failure_surfaced` | violation | `FailureSurfaced` (action property) | A falsy `success` from generate leaves step 1 with no error shown (`if (result.success)` has no else). This contradicts spec §4. |
| `flow_completes_once` | violation | `CompletesOnce` | `handlePasswordReset` does not reset the flow. Resubmitting the still-mounted form calls `resetPassword` and `onComplete` again. This contradicts the spec's terminal Complete phase. |
| `flow_teardown` | violation | `NoCompletionAfterTeardown` (action property) | Submit a reset, the parent unmounts the flow, then the success arrives: `handlePasswordReset` still alerts and calls `onComplete` for an abandoned flow. Nothing cancels the request, while spec §5 says teardown cancels the flow's calls. |
| `flow_refines` | pass | `AbstractSpec` | The wizard refines `PasswordResetAbstract`: every step, including late answers and answers after unmount, is an abstract step or a stutter on `step`/`email`/`token`. A late generate answer that changes the email at step 2 would break it, which `SessionBinding` alone would not. The mutant where `handleCodeVerified` forgets `setToken(code)` breaks it. |
| `hook_loading` | violation | `LoadingWhilePending` | Two overlapping hook calls: the first `finally` clears the shared `loading` while the second is still pending. |
| `hook_sound` | pass | `TypeOK`, `LoadingSound` | States are well typed (the mutant dropping the fallback message of `catch` breaks it). What the shared flags do guarantee: `loading` is never reported with no call pending, and never together with an error. The mutant without `finally` on the success path breaks it. |
| `auth_persisted` | pass | `TypeOK`, `SessionPersisted` | The auth model is well typed (the mutant storing the user without `JSON.stringify` breaks it). Once loaded, `user = localStorage.user` across logins, logouts, route changes, 401 redirects and reloads. The mutant without `removeItem` breaks it. `LoginSingleFlight`: the mounted Login has at most one live call and is loading exactly while it has one, also after a route change orphans a pending call. The mutant without Login's `finally` breaks it. |
| `auth_loads` | pass | `ProviderLoads` (liveness, under `FairSpec`) | Every page load ends with `loading` false. The mutant with `setLoading(false)` inside `if (savedUser)` breaks it. |
| `auth_logout` | violation | `LogoutSticks` | Submit login, logout while it is pending, then the 200 answer: the user is back in memory and in storage. |
| `auth_credential` | violation | `CredentialErrorShown` | A 401 answer shows 'Credenciais inválidas', then the interceptor's reload mounts a fresh Login without it. |

ResetHook runs use three call identities `{call1, call2, call3}`: two overlap, and a third can start and settle between them. `hook_sound` reaches 211 distinct states.

AuthSession runs use users `{u1, u2}` with symmetry (except `auth_loads`) and
`MaxLogins = 2`. Two logins let one be pending across a route change while
another is sent. Two users let a late answer bring back a *different*
user. The passing runs reach 154 distinct states (218 without symmetry),
every action fires, and deadlock is checked. The system never stops,
because a reload is always possible.

The only liveness property is `ProviderLoads`, under weak fairness of
React's mount effect. No liveness is claimed for the forms. Whether a form
ever leaves loading depends on the backend answering, and the code does not
enforce that, because it sets no timeout. That is the `liveness` hazard at
line 9, and it is left without a property.

## 4. Proofs (checked by `tlapm`)

### `PasswordResetFlowProofs`

All proofs assume `ConstantsAssumption`:
- the sets of emails, codes and passwords are non-empty;
- the distinguished empty and short values are not among the valid ones;
- `MaxCompletions ∈ Nat`.

**`TypeCorrect` (`Spec ⇒ []TypeOK`).** `TypeOK` is not inductive. A
successful reset increments `completions`, and it stays within bounds only
because the request was sent below the bound. A reply also stores
`r.email`/`r.code` into `email`/`token` and into the history, which needs
them to be real emails and codes. The proof therefore uses
`TypeInv = TypeOK ∧ ResetBound ∧ SessionFilled ∧ RequestsFilled ∧ OneRequest`:
- `ResetBound`: a pending reset means `completions < MaxCompletions`.
- `SessionFilled`: past step 1, the email is a real one; at step 3, the
  token is a real code.
- `RequestsFilled`: requests carry real emails and codes.
- `OneRequest`: all pending requests are equal, and while the flow is
  mounted, `loading ⇔ inflight ≠ {}`. This is needed because a second
  pending reset would break `ResetBound`.

The proof checks `Init ⇒ TypeInv` and `TypeInv ∧ [Next]_vars ⇒ TypeInv'`,
with one step per action. Z3 cannot show `FALSE ∈ BOOLEAN` by itself here,
so a separate Zenon step proves the types of `loading` and `mounted`.

**`SessionBindingInvariant` (`Spec ⇒ []SessionBinding`).** This uses
`IInv = TypeInv ∧ RequestsMatchStep ∧ SessionBinding`. `RequestsMatchStep`
says a generate request is pending only at step 1, a reset only at step 3,
and a verify only at step 2 and with the flow's own email. Without it, a
verify answer could bind the token to a different email. `OneRequest`
guarantees that moving to the next step leaves no request behind.

**`SingleRequestInvariant` (`Spec ⇒ []SingleRequestInFlight`).** This
follows from `OneRequest` and the lemma `AtMostOneRequest`: a set whose
elements are all equal has cardinality at most 1 (`FS_EmptySet`,
`FS_Singleton`).

**`Refinement` (`Spec ⇒ AbstractSpec`).** The initial state maps to
`Abstract!Init`. The lemma `RefinementStep` shows
`IInv ∧ [Next]_vars ⇒ [Abstract!Next]_absVars`, with one step per action:
- typing, submits, unmount, reset answers and answers after unmount leave
  `step`, `email` and `token` unchanged;
- a mounted generate success is `CodeSent`. `RequestsMatchStep` gives
  `step = 1`, and `RequestsFilled` gives `r.email ∈ Emails`;
- a mounted verify success is `CodeVerified`, with `step = 2` and
  `r.code ∈ Codes`.

Without `IInv`, a generate answer arriving at step 2 would look like a
backward or repeated transition. The theorem follows by PTL from
`IInvInit`, `IInvStep` and `RefinementStep`.

### `AuthSessionProofs`
All proofs assume `AuthAssumption`: `Users ≠ {}`, `NoUser ∉ Users`, and
`MaxLogins ∈ Nat`.

`SessionPersisted` is not inductive. `RestoreSession` with nothing saved
keeps the in-memory `user`, and a `LoginOk` during loading would set a user
before the effect. The proofs therefore use
`IInv = TypeOK ∧ LoadingClean ∧ SessionPersisted ∧ LoginSingleFlight`, where `LoadingClean`
says that while loading, the provider holds no user and no login is pending.
It holds because every page load clears both and `SubmitLogin` waits for
the effect. TLC checked `IInv` on the instance above before the proof was
written. `AuthTypeCorrect` (`Spec ⇒ []TypeOK`) and
`SessionPersistedInvariant` (`Spec ⇒ []SessionPersisted`) follow from it.

`LoginSingleFlightInvariant` (`Spec ⇒ []LoginSingleFlight`) also follows
from `IInv`. The property is inductive together with `TypeOK`:
- `SubmitLogin` requires `~loginLoading`, so no live call exists before it
  adds its own;
- a live call's answer clears `loginLoading`, and by uniqueness it leaves
  no live call behind;
- an orphaned call's answer touches neither `loginLoading` nor the live
  calls;
- `LoginOk` and `Navigate` unmount Login. The lemma `OrphanedCalls` shows
  that `Orphaned(S)` is well typed and holds no live call.

`Orphaned` is written as a record constructor `[n |-> q.n, live |-> FALSE]`
rather than `[q EXCEPT !.live = FALSE]`. The two are equal on `LoginReqs`,
but the SMT backend cannot translate a record `EXCEPT` under a set map.

### `ResetHookProofs`
There are no assumptions: the proofs hold for every set `Calls`. The
invariant is `IInv = TypeOK ∧ LoadingSound`, and it is inductive as it
stands:
- `Start` raises `loading` with its own call now pending and clears the
  error;
- `Resolve` and `Reject` lower `loading`.

The lemma `ErrorOfShown` says a rejected call's message is a non-empty
error. `HookTypeCorrect` (`Spec ⇒ []TypeOK`) and `LoadingSoundInvariant`
(`Spec ⇒ []LoadingSound`) follow by PTL.

**Left to TLC only:**
- liveness (`ProviderLoads`), because TLAPS does not handle
  fairness or ENABLED;
- the properties the runs show violated. A violated property has no
  proof, and TLC's trace is the result.

## 5. Not modelled, and what could come next

- **ClienteForm** and `clienteService.criar` (`REACT_EXAMPLES.js` 298-435):
  not modelled. A model would cover nested form edits, the `valid`/
  `mensagemErro` classification, and the reset on success, which wipes
  edits made while the request was pending. The hazard is listed without a
  property.
- **useEspecialidades**: a single fetch at mount, with no interaction.
- **Not covered by any property:**
  - two logins answering in either order, since no claim says which should
    win;
  - a saved user revoked on the server, since the backend is not in the
    repository;
  - a form waiting forever, since the code sets no timeout.

  `SessionPersisted` covers a single tab only; another tab writing
  `localStorage` is outside the model.
- The CRUD wrappers and the axios instance are stateless single HTTP calls.
  The only control flow in the axios instance is the 401 interceptor, which
  `AuthSession` models.
- The CSS and the JSX layout are presentation only.
