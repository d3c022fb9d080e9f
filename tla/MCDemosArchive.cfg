CONSTANTS
    x1 = x1  host = host  cron = cron
    NoAsset = NoAsset  NoHash = NoHash  NoDemo = NoDemo
    Hashes = {x1}
    Clients = {host, cron}
    Receiver = host
    Cleaner = cron
    CountLimit = 1
    MaxAssets = 1
    MaxDemos = 3
SPECIFICATION DSpec
PROPERTY ArchivedNotFlushed
