CONSTANTS
    None = None
    Tabs = {t1}
    Ranks <- MCRanks
    Codes = {c1}
    Visited <- MCVisited

SPECIFICATION SessionSpec
INVARIANTS SessionTypeOK RefusedOnlyOutOfStep 
PROPERTY LoginEnds
CHECK_DEADLOCK FALSE
