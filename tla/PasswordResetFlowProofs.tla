---------------------- MODULE PasswordResetFlowProofs ----------------------
(***************************************************************************)
(* Proofs about PasswordResetFlow, for every value of the constants that   *)
(* satisfies ConstantsAssumption.                                          *)
(***************************************************************************)
EXTENDS PasswordResetFlow, FiniteSetTheorems, TLAPS

(***************************************************************************)
(* The strengthening.  TypeOK alone is not inductive: a successful reset   *)
(* answer adds one to completions, which stays in 0..MaxCompletions only   *)
(* because SubmitPassword sent the request while completions was below the *)
(* bound.  SessionBinding is not inductive either: a verify answer binds   *)
(* the token to r.email, which must be the flow's email, and a generate    *)
(* answer moves the flow to step 2, which must not leave a second request  *)
(* of step 1 behind; so the requests in flight are tied to the step and,   *)
(* while the flow is mounted, there is at most one of them.                *)
(***************************************************************************)
ResetBound ==
    \A r \in inflight : r.op = "reset" => completions < MaxCompletions

\* The session and the requests hold real emails and codes, never the
\* empty or partial inputs the types admit: what a reply stores in the
\* history (and in email, token) comes from them.
SessionFilled ==
    /\ step >= 2 => email \in Emails
    /\ step = 3 => token \in Codes

RequestsFilled ==
    \A r \in inflight :
        /\ r.email \in Emails
        /\ r.op # "generate" => r.code \in Codes /\ step >= 2

\* At most one request is ever in flight (after an unmount no new one can
\* be sent), and a mounted form is loading exactly while it is.
OneRequest ==
    /\ \A r, s \in inflight : r = s
    /\ mounted => (loading <=> inflight # {})

TypeInv == TypeOK /\ ResetBound /\ SessionFilled /\ RequestsFilled
           /\ OneRequest

RequestsMatchStep ==
    \A r \in inflight :
        /\ r.op = "generate" => step = 1
        /\ r.op = "verify" => step = 2 /\ r.email = email
        /\ r.op = "reset" => step = 3

IInv == TypeInv /\ RequestsMatchStep /\ SessionBinding

USE ConstantsAssumption

(***************************************************************************)
(* Type correctness.  Every action keeps each variable in its type; the   *)
(* only arithmetic is completions + 1, bounded by ResetBound.             *)
(***************************************************************************)
LEMMA TypeInvInit == Init => TypeInv
<1> SUFFICES ASSUME Init PROVE TypeInv
  OBVIOUS
<1>1. loading \in BOOLEAN /\ mounted \in BOOLEAN
  BY Zenon DEF Init
<1>2. QED
  BY <1>1 DEF Init, TypeInv, TypeOK, ResetBound, SessionFilled, RequestsFilled,
            OneRequest, EmailInputs, CodeInputs,
              PwdInputs, Errors, NoError

LEMMA TypeInvStep == TypeInv /\ [Next]_vars => TypeInv'
<1> SUFFICES ASSUME TypeInv, [Next]_vars PROVE TypeInv'
  OBVIOUS
<1>0. loading' \in BOOLEAN /\ mounted' \in BOOLEAN
  BY Zenon DEF TypeInv, TypeOK, Next, vars, formVars, EditEmail, EditCode,
               EditPassword, SubmitEmail, RejectCode, SubmitCode,
               RejectPassword, SubmitPassword, Send, ReplyGenerate,
               ReplyVerify, ReplyReset, Settle, FreshForm, Unmount,
               ReplyUnmounted
<1> USE <1>0 DEF TypeInv, TypeOK, ResetBound, SessionFilled, RequestsFilled,
            OneRequest, EmailInputs, CodeInputs, PwdInputs,
            Errors, NoError, Requests, flowVars, formVars, histVars
<1>1. CASE EditEmail
  BY <1>1 DEF EditEmail
<1>2. CASE EditCode
  BY <1>2 DEF EditCode
<1>3. CASE EditPassword
  BY <1>3 DEF EditPassword
<1>4. CASE SubmitEmail
  <2>1. inflight = {} /\ mounted' /\ loading'
    BY <1>4 DEF SubmitEmail, Send
  <2>2. QED
    BY <1>4, <2>1 DEF SubmitEmail, Send
<1>5. CASE RejectCode
  BY <1>5 DEF RejectCode
<1>6. CASE SubmitCode
  <2>1. inflight = {} /\ mounted' /\ loading'
    BY <1>6 DEF SubmitCode, Send
  <2>2. QED
    BY <1>6, <2>1 DEF SubmitCode, Send
<1>7. CASE RejectPassword
  BY <1>7 DEF RejectPassword
<1>8. CASE SubmitPassword
  <2>1. inflight = {} /\ mounted' /\ loading'
    BY <1>8 DEF SubmitPassword, Send
  <2>2. QED
    BY <1>8, <2>1 DEF SubmitPassword, Send
<1>9. ASSUME NEW r \in inflight, ReplyGenerate(r) PROVE TypeInv'
  BY <1>9 DEF ReplyGenerate, Settle, FreshForm
<1>10. ASSUME NEW r \in inflight, ReplyVerify(r) PROVE TypeInv'
  BY <1>10 DEF ReplyVerify, Settle, FreshForm
<1>11. ASSUME NEW r \in inflight, ReplyReset(r) PROVE TypeInv'
  <2>1. inflight' = {} /\ completions < MaxCompletions
    BY <1>11 DEF ReplyReset
  <2>2. CASE completions' = completions + 1
    BY <1>11, <2>1, <2>2 DEF ReplyReset, Settle
  <2>3. CASE completions' = completions
    BY <1>11, <2>1, <2>3 DEF ReplyReset, Settle
  <2>4. QED
    BY <1>11, <2>2, <2>3 DEF ReplyReset, Settle
<1>12. CASE Unmount
  BY <1>12 DEF Unmount
<1>13. ASSUME NEW r \in inflight, ReplyUnmounted(r) PROVE TypeInv'
  <2>1. inflight' = {} /\ ~mounted'
    BY <1>13 DEF ReplyUnmounted
  <2>2. r.op = "reset" => completions < MaxCompletions
    OBVIOUS
  <2>3. QED
    BY <1>13, <2>1, <2>2 DEF ReplyUnmounted
<1>14. CASE UNCHANGED vars
  BY <1>14 DEF vars, flowVars, formVars, histVars
<1>15. QED
  BY <1>1, <1>2, <1>3, <1>4, <1>5, <1>6, <1>7, <1>8, <1>9, <1>10, <1>11,
     <1>12, <1>13, <1>14 DEF Next

\* Every reachable state has all variables in their types: TypeOK of the
\* component, for any sets of emails, codes and passwords and any bound.
THEOREM TypeCorrect == Spec => []TypeOK
<1>1. Spec => []TypeInv
  BY TypeInvInit, TypeInvStep, PTL DEF Spec
<1>2. QED
  BY <1>1, PTL DEF TypeInv

(***************************************************************************)
(* The session binding.  A generate answer binds email and generatedToken *)
(* to the pair it adds to generated; a verify answer binds token to the    *)
(* pair it adds to verified, using the request's email, which is the       *)
(* flow's (RequestsMatchStep); a reset request copies the flow's verified  *)
(* pair.  The history only grows, so bound pairs stay bound.               *)
(***************************************************************************)
LEMMA IInvInit == Init => IInv
<1> SUFFICES ASSUME Init PROVE IInv
  OBVIOUS
<1>1. TypeInv
  BY TypeInvInit
<1>2. QED
  BY <1>1 DEF Init, IInv, RequestsMatchStep, SessionBinding

LEMMA IInvStep == IInv /\ [Next]_vars => IInv'
<1> SUFFICES ASSUME IInv, [Next]_vars
             PROVE  RequestsMatchStep' /\ SessionBinding'
  BY TypeInvStep DEF IInv
<1> USE DEF IInv, TypeInv, TypeOK, SessionFilled, RequestsFilled, OneRequest,
            RequestsMatchStep, SessionBinding, flowVars, formVars, histVars
<1>1. CASE EditEmail \/ EditCode \/ EditPassword \/ RejectCode
           \/ RejectPassword \/ Unmount
  BY <1>1 DEF EditEmail, EditCode, EditPassword, RejectCode, RejectPassword,
              Unmount
<1>2. CASE SubmitEmail
  <2>1. inflight = {}
    BY <1>2 DEF SubmitEmail
  <2>2. QED
    BY <1>2, <2>1 DEF SubmitEmail, Send
<1>3. CASE SubmitCode
  <2>1. inflight = {}
    BY <1>3 DEF SubmitCode
  <2>2. QED
    BY <1>3, <2>1 DEF SubmitCode, Send
<1>4. CASE SubmitPassword
  <2>1. inflight = {}
    BY <1>4 DEF SubmitPassword
  <2>2. QED
    BY <1>4, <2>1 DEF SubmitPassword, Send
<1>5. ASSUME NEW r \in inflight, ReplyGenerate(r)
      PROVE  RequestsMatchStep' /\ SessionBinding'
  <2>1. inflight' = {}
    BY <1>5 DEF ReplyGenerate
  <2>2. step = 1
    BY <1>5 DEF ReplyGenerate
  <2>3. QED
    BY <1>5, <2>1, <2>2 DEF ReplyGenerate, Settle, FreshForm
<1>6. ASSUME NEW r \in inflight, ReplyVerify(r)
      PROVE  RequestsMatchStep' /\ SessionBinding'
  <2>1. inflight' = {}
    BY <1>6 DEF ReplyVerify
  <2>2. step = 2 /\ r.email = email
    BY <1>6 DEF ReplyVerify
  <2>3. QED
    BY <1>6, <2>1, <2>2 DEF ReplyVerify, Settle, FreshForm
<1>7. ASSUME NEW r \in inflight, ReplyReset(r)
      PROVE  RequestsMatchStep' /\ SessionBinding'
  BY <1>7 DEF ReplyReset, Settle
<1>8. ASSUME NEW r \in inflight, ReplyUnmounted(r)
      PROVE  RequestsMatchStep' /\ SessionBinding'
  <2>1. inflight' = {}
    BY <1>8 DEF ReplyUnmounted
  <2>2. generated \subseteq generated' /\ verified \subseteq verified'
    BY <1>8 DEF ReplyUnmounted
  <2>3. QED
    BY <1>8, <2>1, <2>2 DEF ReplyUnmounted
<1>9. CASE UNCHANGED vars
  BY <1>9 DEF vars
<1>10. QED
  BY <1>1, <1>2, <1>3, <1>4, <1>5, <1>6, <1>7, <1>8, <1>9 DEF Next

\* Whatever the user types while a request is in flight, the flow's email
\* is one the backend generated a code for, its token one the backend
\* verified for that email, and every resetPassword call in flight sends
\* such a verified pair: SessionBinding, for every value of the constants.
THEOREM SessionBindingInvariant == Spec => []SessionBinding
<1>1. Spec => []IInv
  BY IInvInit, IInvStep, PTL DEF Spec
<1>2. QED
  BY <1>1, PTL DEF IInv

(***************************************************************************)
(* No duplicate submission.  OneRequest, part of the type strengthening,   *)
(* says the requests in flight are all equal, so there is none or one.     *)
(***************************************************************************)
LEMMA AtMostOneRequest ==
    ASSUME NEW S, \A r, s \in S : r = s
    PROVE  Cardinality(S) <= 1
<1>1. CASE S = {}
  BY <1>1, FS_EmptySet
<1>2. CASE S # {}
  <2>1. PICK x \in S : TRUE
    BY <1>2
  <2>2. S = {x}
    BY <2>1
  <2>3. Cardinality({x}) = 1
    BY FS_Singleton
  <2>4. QED
    BY <2>2, <2>3
<1>3. QED
  BY <1>1, <1>2

\* While the flow is mounted at most one request is outstanding and the form
\* is loading exactly while it is: SingleRequestInFlight, for every value
\* of the constants.
THEOREM SingleRequestInvariant == Spec => []SingleRequestInFlight
<1>1. TypeInv => SingleRequestInFlight
  BY AtMostOneRequest DEF TypeInv, OneRequest, SingleRequestInFlight
<1>2. Spec => []TypeInv
  BY TypeInvInit, TypeInvStep, PTL DEF Spec
<1>3. QED
  BY <1>1, <1>2, PTL

(***************************************************************************)
(* Refinement.  Under the mapping phase <- step (email and token map to    *)
(* themselves), every step of the wizard is a step of the abstract one or  *)
(* leaves step, email and token alone.  Only the mounted success answers   *)
(* of generate and verify move the step, and RequestsMatchStep says they    *)
(* arrive at the step that sent them: that is why the invariant is needed. *)
(***************************************************************************)
LEMMA RefinementStep ==
    IInv /\ [Next]_vars => [Abstract!Next]_Abstract!absVars
<1> SUFFICES ASSUME IInv, [Next]_vars
             PROVE  [Abstract!Next]_Abstract!absVars
  OBVIOUS
<1> USE DEF IInv, TypeInv, TypeOK, RequestsFilled, RequestsMatchStep,
            Abstract!Next, Abstract!absVars, flowVars, formVars, histVars
<1>1. CASE EditEmail \/ EditCode \/ EditPassword \/ RejectCode
           \/ RejectPassword \/ Unmount
           \/ SubmitEmail \/ SubmitCode \/ SubmitPassword
  BY <1>1 DEF EditEmail, EditCode, EditPassword, RejectCode, RejectPassword,
              Unmount, SubmitEmail, SubmitCode, SubmitPassword
<1>2. ASSUME NEW r \in inflight, ReplyGenerate(r)
      PROVE  [Abstract!Next]_Abstract!absVars
  <2>1. step = 1 /\ r.email \in Emails
    BY <1>2 DEF ReplyGenerate
  <2>2. QED
    BY <1>2, <2>1 DEF ReplyGenerate, Settle, Abstract!CodeSent
<1>3. ASSUME NEW r \in inflight, ReplyVerify(r)
      PROVE  [Abstract!Next]_Abstract!absVars
  <2>1. step = 2 /\ r.code \in Codes
    BY <1>3 DEF ReplyVerify
  <2>2. QED
    BY <1>3, <2>1 DEF ReplyVerify, Settle, Abstract!CodeVerified
<1>4. ASSUME NEW r \in inflight, ReplyReset(r) \/ ReplyUnmounted(r)
      PROVE  [Abstract!Next]_Abstract!absVars
  BY <1>4 DEF ReplyReset, ReplyUnmounted
<1>5. CASE UNCHANGED vars
  BY <1>5 DEF vars
<1>6. QED
  BY <1>1, <1>2, <1>3, <1>4, <1>5 DEF Next

\* The wizard implements PasswordResetAbstract for every value of the
\* constants: its step moves forward one at a time, the email is fixed when
\* the code is sent and the token when it is verified, whatever answers
\* arrive late or after unmount.
THEOREM Refinement == Spec => AbstractSpec
<1>1. Init => Abstract!Init
  BY DEF Init, Abstract!Init
<1>2. QED
  BY <1>1, IInvInit, IInvStep, RefinementStep, PTL
     DEF Spec, AbstractSpec, Abstract!Spec

=============================================================================
