SPECIFICATION LiveSpec
CONSTANTS
    h1 = h1
    h2 = h2
    f1 = f1
    w1 = w1
    w2 = w2
    r1 = r1
    r2 = r2
    d1 = d1
    d2 = d2
    HeavyPhoto = {}
    FastPhoto = {f1}
    VaultPhoto = {}
    OwnerDeletes = {}
    Sizes = {1}
    Limits = {2}
    Handler = {}
    Reaper = {}
    HardDeleter = {}
PROPERTIES FastLaneReconciles
CHECK_DEADLOCK FALSE
