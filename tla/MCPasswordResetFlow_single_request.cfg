CONSTANTS
    e1 = e1  e2 = e2  c1 = c1  c2 = c2  p1 = p1  p2 = p2
    Emails <- MCEmails
    Codes <- MCCodes
    Passwords <- MCPasswords
    NoEmail = NoEmail
    NoCode = NoCode
    PartialCode = PartialCode
    NoPwd = NoPwd
    ShortPwd = ShortPwd
    MaxCompletions = 2
SYMMETRY MCSymmetry
SPECIFICATION Spec
INVARIANT TypeOK SingleRequestInFlight
CHECK_DEADLOCK FALSE
