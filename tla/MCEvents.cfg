CONSTANTS
    s1 = s1  s2 = s2  a = a  v1 = v1  v2 = v2  v3 = v3
    NoLine = NoLine
    ServerOf <- MCServerOf
    PairOf <- MCPairOf
    NotifyCap = 1
    Servers = {s1}
    Votes = {v1}
    Won = {v1}
    Readers = {"metrics", "chat", "votes"}
    Types = {"say", "success", "details"}
    MaxLines = 3
SPECIFICATION FairSpec
PROPERTY OnlyWarningsBlock
