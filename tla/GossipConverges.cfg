SPECIFICATION FairSpec
CONSTANTS
    a = a
    b = b
    c = c
    x = x
    y = y
    Nobody = Nobody
    Host = {a, b, c}
    Agent = {x}
    Task = {t1}
    Peer <- Chain
    Kind = {"done"}
    MaxMerge = 9
    SameSecond = FALSE
    MaxTs = 1
    MaxPosts = 1
    MaxPrunes = 2
PROPERTIES Convergence
