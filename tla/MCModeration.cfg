CONSTANTS
    p1 = p1  p2 = p2  alice = alice  rita = rita
    NoReport = NoReport  NoRow = NoRow  NoEntry = NoEntry
    Players = {alice}
    Groups = {}
    Reports = {1}
    Handlers = {p1, p2}
    BanTypes = {2}
    AppealStates = {Open}
    Open = Open
    MaxBans = 1
    MaxTime = 0
    Authors = {rita}
    Subjects = {alice}
    Callers = {p1, p2}
    MaxReports = 1
SPECIFICATION ModerationSpec
SYMMETRY MCSymmetry
INVARIANT ClosedForABan
INVARIANT PairedUnlessParted
PROPERTY OnlyStatusRequestsMoveStatus
PROPERTY FreshWriteKeepsOtherColumns
