SPECIFICATION Spec
CONSTANTS
    Requests = {r1, r2, r3}
    r1 = r1
    r2 = r2
    r3 = r3
    Keys = {k1, k2}
    k1 = k1
    k2 = k2
    KeyOf <- TwoKeys
    Slots = {s1, s2}
    Null = Null
    RingCap = 1
    MaxToggles = 2
    MaxEvictions = 1
    MaxParts = 2
SYMMETRY Alike
INVARIANTS
    EntryOwnerInFlight
    PairsNeverConfused
CHECK_DEADLOCK FALSE
