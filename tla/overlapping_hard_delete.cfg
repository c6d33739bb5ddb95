SPECIFICATION Spec
CONSTANTS
    h1 = h1
    h2 = h2
    f1 = f1
    w1 = w1
    w2 = w2
    r1 = r1
    r2 = r2
    d1 = d1
    d2 = d2
    HeavyPhoto = {h1, h2}
    FastPhoto = {}
    VaultPhoto = {}
    OwnerDeletes = {}
    Sizes = {1}
    Limits = {2}
    Handler = {w1}
    Reaper = {}
    HardDeleter = {d1, d2}
INVARIANTS LiveBytesCovered
CHECK_DEADLOCK FALSE
