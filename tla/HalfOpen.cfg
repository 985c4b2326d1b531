SPECIFICATION Spec
CONSTANTS
    a = a
    inv = inv
    Node = {a, j}
    Joiner = {}
    Invitation = {inv}
    Code <- MCCode
    Link <- MCLink
    MaxStarts = 3
    MaxLosses = 0
INVARIANT
    BothSendHello
CHECK_DEADLOCK FALSE
