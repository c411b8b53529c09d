SPECIFICATION Spec
CONSTANTS
    Keys <- MCKeys
    Values = {1, 2}
    MaxOps = 3
INVARIANT Canonical
INVARIANT DiskFaithful
