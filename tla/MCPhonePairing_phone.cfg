SPECIFICATION PhoneSpec
CONSTANTS
    Pairings = {p1, p2}
    Keys = {k1, k2}
    Flows = {f1, f2}
    None = None
    MaxFailed = 1
    LockFor = 1
    Ttl = 2
    Retention = 1
    WriteInterval = 2
    MaxTime = 1
    MaxFaults = 0
    MaxRestarts = 1
    Kinds = {"request", "answer", "late", "flash", "stop", "recreate", "death"}
    MaxMishaps = 1
    MaxOps = 3
    MaxPages = 1
    MaxRevokes = 1
SYMMETRY Symmetry
INVARIANT DialogHasRequest
INVARIANT OneDevicePerPairing
INVARIANT GuessesBounded
PROPERTY NoGhost
PROPERTY PairedIsSaved
CHECK_DEADLOCK FALSE
