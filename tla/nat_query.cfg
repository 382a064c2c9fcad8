SPECIFICATION NatSpec
CONSTANTS
    i = i
    j = j
    l = l
    t1 = t1
    t2 = t2
    atI = atI
    atJ = atJ
    atL = atL
    server = server
    public = public
    Agents = {i, j, l}
    LiteAgents = {l}
    Drawn <- DrawnBytes
    Tasks = {t1, t2}
    Servers = {server}
    Host <- Hosts
    SeenAs <- Seen
    Forwards <- PublicOfI
    Replies <- SomeReplies
    Extra <- RelayAndPublic
    MaxCandidates <- Bounds
    MaxOffers = 2
    MaxSent = 2
SYMMETRY Symmetry
INVARIANT QueryTellsAddress
