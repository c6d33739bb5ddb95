SPECIFICATION Spec
CONSTANTS
    h1 = h1
    h2 = h2
    f1 = f1
    w1 = w1
    w2 = w2
    r1 = r1
    r2 = r2
    d1 = d1
    d2 = d2
    HeavyPhoto = {h1}
    FastPhoto = {f1}
    VaultPhoto = {f1}
    OwnerDeletes = {h1, f1}
    Sizes = {1, 2}
    Limits = {3}
    Handler = {w1}
    Reaper = {}
    HardDeleter = {d1}
INVARIANTS LedgerInv ReadyHasOriginal
PROPERTIES NoOversell NoResurrection ImplementsAccount
CHECK_DEADLOCK FALSE
