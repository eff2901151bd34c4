----------------------- MODULE PasswordResetAbstract -----------------------
(***************************************************************************)
(* What the password-reset wizard promises its user, without forms,        *)
(* requests or answers: the phase only moves forward one step at a time,   *)
(* the email is chosen when leaving the first phase and never changes     *)
(* again, and the token is chosen only when entering the last phase.       *)
(* The code has no separate Complete phase (a reset leaves it in phase 3), *)
(* so neither has this specification.                                      *)
(***************************************************************************)
CONSTANTS Emails, NoEmail, Codes, NoCode

VARIABLES phase, email, token

absVars == <<phase, email, token>>

Init ==
    /\ phase = 1 /\ email = NoEmail /\ token = NoCode

\* A code was sent for email e: the wizard asks for the code.
CodeSent ==
    /\ phase = 1 /\ phase' = 2
    /\ email' \in Emails
    /\ UNCHANGED token

\* The code was verified: the wizard asks for the new password.
CodeVerified ==
    /\ phase = 2 /\ phase' = 3
    /\ token' \in Codes
    /\ UNCHANGED email

Next == CodeSent \/ CodeVerified

Spec == Init /\ [][Next]_absVars

=============================================================================
