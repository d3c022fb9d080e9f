CONSTANTS
    r1 = r1
    r2 = r2
    v1 = v1
    v2 = v2
    All = All
    Absent = Absent
    None = None
    Offered <- SiteScreens
    Ids = {r1, r2}
    Values = {v1, v2}
    Lost = {v2}
    Start <- MCStart
    MaxPast = 2
    MaxCalls = 1

SPECIFICATION BSpec
INVARIANTS BrowserTypeOK FilterHonoured OwnChangesShow
PROPERTY PolledPageCatchesUp
CHECK_DEADLOCK FALSE
