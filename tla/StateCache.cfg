SPECIFICATION Spec
CONSTANT Addresses = {"a"}
CONSTANT Keys <- MCKeys
CONSTANT Codes = {"code"}
CONSTANT Genesis <- MCGenesis
CONSTANT Updates <- MCUpdates
CONSTANT Jobs = {j1, j2}
CONSTANT MaxBlocks = 3
CONSTANT MaxCommits = 3
CONSTANT Capacity = 1
INVARIANT CachedReadsAreTheParentState
SYMMETRY Symmetry
CHECK_DEADLOCK FALSE
