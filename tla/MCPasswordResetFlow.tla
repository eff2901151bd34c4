------------------------ MODULE MCPasswordResetFlow ------------------------
(* Model-checking instance of PasswordResetFlow: two emails, two codes and *)
(* two long passwords, so that a user can edit a field to a *different*    *)
(* valid value while a request is in flight.                               *)
EXTENDS PasswordResetFlow, TLC

CONSTANTS e1, e2, c1, c2, p1, p2

MCEmails == {e1, e2}
MCCodes == {c1, c2}
MCPasswords == {p1, p2}

\* Emails, codes and passwords are only compared for equality.
MCSymmetry == Permutations(MCEmails) \cup Permutations(MCCodes)
              \cup Permutations(MCPasswords)
=============================================================================
