CONSTANTS
    c1 = c1  x1 = x1  x2 = x2
    NoAsset = NoAsset  NoHash = NoHash
    Hashes = {x1, x2}
    Clients = {c1}
    MaxAssets = 3
SPECIFICATION ASpec
SYMMETRY MCSymmetry
INVARIANT AssetTypeOK
INVARIANT LiveHasFile
INVARIANT OneRowPerHash
PROPERTY IsBlobStore
