\* Small instances of each component; the README gives the reason for each bound.
SPECIFICATION ServicesSpec
CONSTANTS
    g1 = g1
    g2 = g2
    r1 = r1
    r2 = r2
    Job = {1, 2, 3}
    Gallery = {g1, g2}
    Run = {r1, r2}
    Capacity = 2
    GalleryCap = 1
    LeaseTTL = 2
    GalleryOfJob <- MCGalleryOfJob
    Session = {1}
    Plan = {1}
    MaxEvents = 3
    MaxDeliveries = 2
    MaxRetries = 1
    MaxPrunes = 1
    MaxFaults = 1
    Buyer = {1, 2, 3}
    MaxSessions = 4
    MaxOverruns = 2
    Token = {1, 2}
    Callback = {1, 2}
    Result = {0, 1}
    Tenant = {1, 2}
    Host = {11}
    Nobody = 0
    Absent = 9
    Lookup = {1}
    pa = pa
    pb = pb
    Saver = {pa, pb}
    Limit <- MCLimit
    MaxOwed = 1
    Photo = {1}
    Deriver = {1, 2}
    MaxDerivations = 2
    MaxPurges = 2
    Replica = {1, 2}
    Skew <- MCSkew
    Rate = 2
    Window = 4
    MaxTime = 8
    Chunk = 2
    MaxParts = 3
    MaxStream = 9
    MaxRefusals = 2
    Time = {1, 2}
    Id = {1, 2, 3}
    PageSize = 1
    Shot = {1, 2}
    Hasher = {1, 2}
    Debounce = 2
    MaxHashings = 2
    MaxGroupings = 2
    Image = {1, 2, 3, 4}
    Bands = 2
    BandSize = 1
    Threshold = 1
    Instants = {0, 1}
    BurstWindow = 0
    Canvas <- MCCanvas
    Luminance = {0, 3}
    MaxSide = 4
    MinPixels = 8
    Epsilon = 1
    Txn = {1, 2, 3}
    f1 = f1
    f2 = f2
    Frame = {f1, f2}
SYMMETRY SaverSymmetry
INVARIANTS ServicesTypeOK GlobalCap GalleryCapHolds BooksAgree AppliedOnce Converges CheckoutsBounded DarajaOnce CacheFresh NothingLeft WindowHolds UploadWhole SeenOnce BurstsCatchUp GroupsAreBursts LogoInQuietCorner DeadlocksExplained
\* Events, links and secrets are used up, time ends.
CHECK_DEADLOCK FALSE
