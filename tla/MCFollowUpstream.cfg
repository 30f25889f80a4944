CONSTANTS
    w1 = w1
    Releases = {1, 2, 3, 4}
    StableReleases = {1, 2, 4}
    LineOf <- MCLineOf
    Pinned = 1
    Work = {w1}
    MaxMain = 3
    MaxActs = 1
    MaxFailures = 1
SPECIFICATION Spec
CHECK_DEADLOCK FALSE
INVARIANTS WorkIsKept
PROPERTIES LineIsKept Converges
