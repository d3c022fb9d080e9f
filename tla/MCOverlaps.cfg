CONSTANTS
    NoEntry = NoEntry
    Authors = {rita}
    Subjects = {alice}
    Callers = {c1, c2}
    MaxReports = 2

    NoAsset = NoAsset  NoHash = NoHash
    Hashes = {x1}
    Clients = {m1, m2}
    MaxAssets = 2

    None = None
    Tabs = {t1, t2}
    Ranks <- MCOneRank
    Codes = {d1, d2}
    Visited <- MCSome

    s1 = s1  s2 = s2  a = a  v1 = v1  v2 = v2  v3 = v3
    NoLine = NoLine
    ServerOf <- MCServerOf
    PairOf <- MCPairOf
    NotifyCap = 1
    Servers = {s1, s2}
    Votes = {v1, v2, v3}
    Won = {v1, v3}
    Readers = {"votes"}
    Types = {"success", "failed", "details"}
    MaxLines = 4

SPECIFICATION OverlapsSpec
SYMMETRY MCSymmetry
INVARIANT RefusedOnlyOutOfStep
PROPERTY SecondOpenOnlyOvertaken
PROPERTY PartialOnlyByFailure
PROPERTY NoTwinWithinWindow
PROPERTY OutcomeIsItsOwn
