SPECIFICATION Spec
CONSTANTS
    g1 = g1
    full1 = full1
    pick1 = pick1
    r1 = r1
    r2 = r2
    c1 = c1
    c2 = c2
    Job = {1}
    Gallery = {g1}
    Run = {r1, r2}
    Capacity = 2
    GalleryCap = 1
    LeaseTTL = 2
    FullScope = {full1}
    PickScope = {pick1}
    Client = {c1}
    GalleryOf <- MCGalleryOf
    MaxRetries = 1
    MaxFaults = 1
INVARIANTS ArchiveTypeOK DownloadServes BuildsApart
PROPERTIES OnlyHolderFrees
CHECK_DEADLOCK FALSE
