CONSTANTS
    FDR = FDR  TX1 = TX1  TX2 = TX2  BUS = BUS  MGD = MGD
    SW1 = SW1  SW2 = SW2  XF = XF  TIE = TIE  CB = CB
    a1 = a1  a2 = a2  p1 = p1  p2 = p2  None = None
    Nodes = {FDR, TX1, TX2, BUS, MGD}
    Edges = {SW1, SW2, XF, TIE, CB}
    From <- MCFrom
    To <- MCTo
    Substations = {FDR}
    Switchable = {SW1, SW2, TIE, CB}
    Ties <- MCTies
    Critical = {BUS}
    Actions = {a1, a2}
    Procs = {p1, p2}
    Breaker = CB
    Wanted <- MCWanted
    Faulty = {TX1}
    MaySet = {SW1}
    MaxFaults = 1
    MaxSent = 1
SPECIFICATION Spec
SYMMETRY Symmetry
INVARIANTS ModelAndField
PROPERTIES InterlocksHold  AbortRestores
