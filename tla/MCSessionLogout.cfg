CONSTANTS
    None = None
    Tabs = {t1, t2}
    Ranks <- MCOneRank
    Codes = {c1, c2}
    Visited <- MCFew

SPECIFICATION SessionSpec

PROPERTY LogoutReachesEveryTab
CHECK_DEADLOCK FALSE
