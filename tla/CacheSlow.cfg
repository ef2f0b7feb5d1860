SPECIFICATION Spec
CONSTANTS
    Callers = {c1, c2, c3}
    LockTtl = 2
    EntryTtl = 3
    MaxVersion = 0
    MaxOutages = 0
    MaxCrashes = 0
    MaxThrows = 0
    Regimes = {FALSE}
SYMMETRY CallerSymmetry
INVARIANT OnlyIfSlow
