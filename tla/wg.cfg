SPECIFICATION WGSpec
CONSTANTS
    n1 = n1
    n2 = n2
    t1 = t1
    t2 = t2
    NoEndpoint = NoEndpoint
    Nodes = {n1, n2}
    Tasks = {t1, t2}
    NodeOf <- OneTaskEach
    Entries <- SomeEntries
    WireBase = 2
    LengthByte = 1
    MaxPeers = 2
    MaxIndex = 2
INVARIANTS WGTypeOK ResponsesAnswer SessionsAreMutual
PROPERTIES IndexUsedOnce JobsEnd
