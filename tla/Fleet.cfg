SPECIFICATION FairSpec
CONSTANTS
    a = a
    b = b
    x = x
    y = y
    z = z
    Nobody = Nobody
    Sweep = Sweep
    Host = {a, b}
    Agent = {x, y}
    HostOf <- TwoAgents
    Task = {t1}
    Sweeper = {a}
    Peer <- BothWays
    Learned <- BothWays
    LinksFail = TRUE
    RepliesFail = TRUE
    Mortal = {x}
    MaxPosts = 5
INVARIANTS WorkIsLeased DuplicatesAreExplained
PROPERTY EventuallyReported
