CONSTANTS
    x1 = x1  host = host  cron = cron
    NoAsset = NoAsset  NoHash = NoHash  NoDemo = NoDemo
    Hashes = {x1}
    Clients = {host, cron}
    Receiver = host
    Cleaner = cron
    CountLimit = 1
    MaxAssets = 2
    MaxDemos = 2
SPECIFICATION DLiveSpec
PROPERTY ErasedOnlyWhenStored
PROPERTY BrokenDemosHidden
PROPERTY CountRespected
