SPECIFICATION SigSpec
CONSTANTS
    c1 = c1
    c2 = c2
    c3 = c3
    None = None
    Clients = {c1, c2, c3}
    MaySplit = TRUE
    MaxConns = 3
    MaxRestarts = 0
    Mortal = {}
    MaxConnects <- Once
    MaxSends <- NoSends
SYMMETRY Symmetry
INVARIANTS ListsMeet ListedWhileListening
PROPERTIES ServesAsDirectory
\* The bounds on connections and messages may be used up.
CHECK_DEADLOCK FALSE
