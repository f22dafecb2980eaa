CONSTANTS
    c1 = c1  c2 = c2  None = None
    Commands = {c1}
    MaxFaults = 0
    MaxQueue = 2
SPECIFICATION Spec
INVARIANTS MirrorIsTrue
CHECK_DEADLOCK FALSE
