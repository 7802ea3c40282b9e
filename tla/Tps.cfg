CONSTANTS
    s1 = s1
    s2 = s2
    Shards = {s1, s2}
    Runs = {r1, r2}
    NoRun = NoRun
    TxCount <- Counts
    LookBehind = 1
    Frequencies = {2}
    MaxTroubles = 1
SPECIFICATION FairSpec
INVARIANTS TypeOK TotalNeverOver BucketsExact BucketsComplete
PROPERTIES CatchesUp
