SPECIFICATION Spec
CONSTANTS
    Names = {a, b}
    MaxInode = 4
    MaxFaults = 1
    MaxAftermath = 2
PROPERTY ExchangeAtomic
