CONSTANTS
    m1 = m1  m2 = m2  m3 = m3  TX1 = TX1  r1 = r1
    detector = detector  caller = caller  None = None
    Meters = {m1, m3}
    Reports = {}
    SectionOf <- MCStraySections
    Sections = {TX1}
    Sweepers = {detector}
    Detector = detector
    MaxCases = 2
    MaxChanges = 3
    MaxTouches = 0
SPECIFICATION FairSpec
PROPERTIES BackMeansRestored
