SPECIFICATION Spec
CONSTANTS
    k1 = k1
    k2 = k2
    k3 = k3
    e1 = e1
    e2 = e2
    a1 = a1
    a2 = a2
    Endpoints = {e1, e2}
    Absent = Absent
    Keys = {k1, k2, k3}
    Callers = {a1, a2}
    KeysOf <- SharedKeys
    ConfigPeers <- NoConfig
    TunEnabled = TRUE
    EphemeralPort = FALSE
    MaxPushes = 2
INVARIANT TunnelForgetsRemoved
