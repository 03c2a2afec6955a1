SPECIFICATION Spec
CONSTANTS
    N = 3
    Repeats = {3}
    Bbv = FALSE
    JobCounts = {1, 2}
    Rebuilds = {FALSE, TRUE}
    Cuts = {1, 4, 5, 9}
    Faults = {"place", "rerun", "write", "main", "interrupt"}
    MaxFaults = 1
    MaxRuns = 2
CHECK_DEADLOCK FALSE
INVARIANTS JobsInv
PROPERTIES StatusIsTrue RebuildRepairs KeepsProcessed RunEnds
