SPECIFICATION IdSpec
CONSTANTS
    p1 = p1
    p2 = p2
    home = home
    work = work
    homeKey = homeKey
    workKey = workKey
    k1 = k1
    k2 = k2
    k3 = k3
    Procs = {p1, p2}
    Files = {home, work, homeKey, workKey}
    Paths = {home, work}
    KeyPath <- OwnKeyFiles
    SecretKeys = {k1, k2, k3}
SYMMETRY Symmetry
INVARIANTS IdTypeOK IdentityMatches IdentitiesDiffer
\* Every file may be emptied and no key left to draw.
CHECK_DEADLOCK FALSE
