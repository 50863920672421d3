SPECIFICATION JournalSpec
CONSTANTS
    Id = {d1, d2}
    Title = {a, b}
    Verdict = {yes, no}
    Thread = {p, q}
    NoVerdict = NoVerdict
    MaxCalls = 5
    MaxFaults = 1
SYMMETRY Symmetry
INVARIANTS OneCardPerId VerdictStands
CHECK_DEADLOCK FALSE
