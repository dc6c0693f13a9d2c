SPECIFICATION Spec
CONSTANTS
    Requests = {r1, r2, r3}
    r1 = r1
    r2 = r2
    r3 = r3
    Keys = {k1}
    k1 = k1
    k2 = k2
    KeyOf <- SameKey
    Slots = {s1}
    Null = Null
    RingCap = 1
    MaxToggles = 0
    MaxEvictions = 0
    MaxParts = 0
INVARIANT NoWrongEvidence
CHECK_DEADLOCK FALSE
