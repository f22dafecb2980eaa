SPECIFICATION Spec
CONSTANTS
    root = root  a = a  b = b  e1 = e1  e2 = e2  e3 = e3
    NodeIds = {root, a, b}
    EdgeIds = {e1, e2, e3}
    Files <- MCFiles
    Jobs = {j1, j2}
    f = f  t1 = t1  t2 = t2  m1 = m1  m2 = m2  m3 = m3
    SF = SF  S1 = S1  S2 = S2  TB = TB  TIE = TIE  BM = BM  TM = TM  UM = UM
    Nodes = {root, f, t1, t2, b, m1, m2, m3}
    Edges = {SF, S1, S2, TB, TM, TIE, UM, BM}
    FromNode <- MCFrom
    ToNode <- MCTo
    Meters = {m1, m2, m3}
    Transformers = {t1, t2}
    EdgeOrder <- MCEdgeOrder
    Switchable = {S1, S2, TIE}
    NormallyClosed = {SF, S1, S2, TB, TM, UM, BM}
    Reconfigurable = {S1, S2, TIE}
    Movable = {S1, S2, TIE, TB}
    BaseLoad <- MCLoad
    Customers <- MCCustomers
    Resistance <- MCResistance
    Ampacity <- MCAmpacity
    MaxDrop = 30
    CollapseDrop = 60
    NoAnswer = NoAnswer
    Metered = {m1, m2}
    Reports = {r1}
    SectionOf <- MCSectionOf
    Sections = {t1}
    Sweepers = {detector, caller}
    Detector = detector
    None = None
    MaxModels = 3
    MaxWrites = 1
    MaxFailures = 1
    MaxCases = 4
    MaxChanges = 2
    MaxTouches = 1
INVARIANTS NewestIsCurrent ModelIsRight SwitchingHolds InferenceAgrees OneCasePerSection
PROPERTIES CasesFollowMeters
CHECK_DEADLOCK FALSE
