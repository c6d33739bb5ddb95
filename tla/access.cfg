\* Two requests of the photographer at a time against a guest; three links for
\* an address that may have one, two requests each to ask and to redeem; three
\* attempts at a PIN, whose counter the cache drops once.
SPECIFICATION AccessSpec
CONSTANTS
    e1 = e1
    e2 = e2
    v1 = v1
    v2 = v2
    v3 = v3
    q1 = q1
    q2 = q2
    c1 = c1
    c2 = c2
    Editor = {e1, e2}
    Guest = {v1}
    MaxPins = 2
    MaxCodes = 1
    MaxStamps = 2
    Link = {1, 2, 3}
    Asker = {q1, q2}
    Redeemer = {c1, c2}
    MaxLive = 1
    Visitor = {v1, v2, v3}
    MaxFailures = 2
    IpLimit = 2
    MaxOutages = 1
SYMMETRY Symmetry
INVARIANTS AccessTypeOK RotationRevokes LinkBound ConsumeOnce AttemptsBounded
PROPERTIES ExpiryKept
