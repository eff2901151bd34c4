--------------------------- MODULE ResetHookProofs ---------------------------
(***************************************************************************)
(* TLAPS proofs about ResetHook, for every set of call identities: type   *)
(* correctness and LoadingSound.  LoadingSound is inductive together with *)
(* TypeOK: a start raises loading with its own call pending and clears the *)
(* error; every settle, resolved or rejected, lowers loading.              *)
(***************************************************************************)
EXTENDS ResetHook, TLAPS

IInv == TypeOK /\ LoadingSound

\* A rejected call's message is never the empty error.
LEMMA ErrorOfShown ==
    ASSUME NEW op \in Ops
    PROVE  ErrorOf(op) \in {ErrorOf(o) : o \in Ops} /\ ErrorOf(op) # NoError
BY DEF Ops, ErrorOf, NoError

LEMMA IInvInit == Init => IInv
<1> SUFFICES ASSUME Init PROVE IInv
  OBVIOUS
<1>1. loading \in BOOLEAN
  BY Zenon DEF Init
<1>2. QED
  BY <1>1 DEF Init, IInv, TypeOK, LoadingSound

LEMMA IInvStep == IInv /\ [Next]_vars => IInv'
<1> SUFFICES ASSUME IInv, [Next]_vars PROVE IInv'
  OBVIOUS
<1> USE DEF IInv, TypeOK, LoadingSound
<1>1. ASSUME NEW c \in Calls, NEW op \in Ops, Start(c, op) PROVE IInv'
  <2>1. pending'[c] # "idle"
    BY <1>1 DEF Start, Ops
  <2>2. QED
    BY <1>1, <2>1 DEF Start, Ops
<1>2. ASSUME NEW c \in Calls, Resolve(c) PROVE IInv'
  <2>1. loading' \in BOOLEAN
    BY <1>2, Zenon DEF Resolve
  <2>2. QED
    BY <1>2, <2>1 DEF Resolve
<1>3. ASSUME NEW c \in Calls, Reject(c) PROVE IInv'
  <2>1. loading' \in BOOLEAN
    BY <1>3, Zenon DEF Reject
  <2>2. pending[c] \in Ops
    BY <1>3 DEF Reject
  <2>3. error' \in {NoError} \cup {ErrorOf(o) : o \in Ops}
    BY <1>3, <2>2, ErrorOfShown DEF Reject
  <2>4. QED
    BY <1>3, <2>1, <2>3 DEF Reject
<1>4. CASE UNCHANGED vars
  BY <1>4 DEF vars
<1>5. QED
  BY <1>1, <1>2, <1>3, <1>4 DEF Next

\* Every reachable state of the hook is well typed, for any set of calls.
THEOREM HookTypeCorrect == Spec => []TypeOK
<1>1. Spec => []IInv
  BY IInvInit, IInvStep, PTL DEF Spec
<1>2. QED
  BY <1>1, PTL DEF IInv

\* However many calls overlap, the hook never reports loading with no call
\* awaiting the service, and never an error together with loading:
\* LoadingSound, for every set of call identities.
THEOREM LoadingSoundInvariant == Spec => []LoadingSound
<1>1. Spec => []IInv
  BY IInvInit, IInvStep, PTL DEF Spec
<1>2. QED
  BY <1>1, PTL DEF IInv

=============================================================================
