SPECIFICATION Spec
CONSTANTS
    Servers = {s1, s2}
    Creator = Creator
    None = None
    MaxReceipts = 2
    MaxFaults = 0
PROPERTY NoneAfterFailure
CHECK_DEADLOCK FALSE
