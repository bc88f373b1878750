SPECIFICATION Spec
CONSTANTS
    Names = {a, b}
    MaxInode = 3
    MaxFaults = 1
    MaxAftermath = 2
INVARIANT OrphansUnnamed
