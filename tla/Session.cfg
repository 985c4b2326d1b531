SPECIFICATION Spec
CONSTANTS
    a = a
    inv = inv
    Node = {a, j, k}
    Joiner = {j, k}
    Invitation = {inv}
    Code <- MCCode
    Link <- MCLink
    MaxStarts = 4
    MaxLosses = 1
SYMMETRY
    Joiners
INVARIANTS
    TypeOK
    AuthorizedNow
    AcceptanceIsMutual
    OneRedemption
    SessionOpens
CHECK_DEADLOCK FALSE
