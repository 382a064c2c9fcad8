SPECIFICATION AsyncSpec
CONSTANTS
    a = a
    b = b
    x = x
    y = y
    p = p
    q = q
    e = e
    Addresses = {a, b}
    Data = {x, y}
    MaxPackets = 3
    PeerIds = {p, q}
    Endpoints = {e}
    MaxConnections = 2
    MaxAge = 2
SYMMETRY Symmetry
INVARIANTS RouterTypeOK ConnectedFirst EventsTellCounts PoolTypeOK
PROPERTIES YoungStay
