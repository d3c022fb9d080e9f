CONSTANTS
    p1 = p1  alice = alice  clan = clan  r1 = r1
    NoReport = NoReport  NoRow = NoRow
    Players = {alice}
    Groups = {clan}
    Reports = {r1}
    Handlers = {p1}
    BanTypes = {2}
    AppealStates = {Open}
    Open = Open
    MaxBans = 3
    MaxTime = 1
SPECIFICATION FairSpec
INVARIANT TypeOK
INVARIANT OneLiveBanPerPlayer
PROPERTY UnbannedMeansFree
PROPERTY MonitorDeletesOnlyLapsed
PROPERTY BansKeepIdentity
PROPERTY LapsedBansEnd
