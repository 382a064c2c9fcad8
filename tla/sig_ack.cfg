SPECIFICATION SigSpec
CONSTANTS
    c1 = c1
    c2 = c2
    c3 = c3
    None = None
    Clients = {c1, c2}
    MaySplit = FALSE
    MaxConns = 2
    MaxRestarts = 0
    Mortal = {}
    MaxConnects <- Once
    MaxSends <- NoSends
INVARIANTS AcknowledgedIsConnected
\* The bounds on connections and messages may be used up.
CHECK_DEADLOCK FALSE
