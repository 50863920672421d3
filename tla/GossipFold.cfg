SPECIFICATION Spec
CONSTANTS
    a = a
    b = b
    c = c
    x = x
    y = y
    Nobody = Nobody
    Host = {a, b}
    Agent = {x, y}
    Task = {t1}
    Peer <- OneWay
    Kind = {"announce", "bid", "award", "done"}
    MaxMerge = 1
    SameSecond = FALSE
    MaxTs = 2
    MaxPosts = 2
    MaxPrunes = 1
SYMMETRY Symmetry
INVARIANTS TypeOK BoardsAgree FoldIsViewOfSet OnlyTheWindowLoses
