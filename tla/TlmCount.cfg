CONSTANTS
    Threads = {t1, t2}
    Size = 6
    Align = 2
    MaxEntries = 4
    Sizes = {1, 2, 3}
    MaxUsed = 8
SPECIFICATION Spec
INVARIANTS
    CountIsRight
