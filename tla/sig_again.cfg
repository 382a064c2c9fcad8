SPECIFICATION SigSpec
CONSTANTS
    c1 = c1
    c2 = c2
    c3 = c3
    None = None
    Clients = {c1, c2}
    MaySplit = FALSE
    MaxConns = 3
    MaxRestarts = 1
    Mortal = {c1}
    MaxConnects <- FirstTwice
    MaxSends <- SecondSends
INVARIANTS SigTypeOK RegistryExplained NothingIsHeard
PROPERTIES ConnectReturns LoopsEnd
\* The bounds on connections and messages may be used up.
CHECK_DEADLOCK FALSE
