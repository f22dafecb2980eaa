CONSTANTS
    c1 = c1  c2 = c2  None = None
    Commands = {c1, c2}
    MaxFaults = 1
    MaxQueue = 2
SPECIFICATION Spec
SYMMETRY Symmetry
INVARIANTS RecordsAreTrue ExecutedInOrder
PROPERTIES NeverDowngrade
CHECK_DEADLOCK FALSE
