CONSTANTS
    a = a  b = b  c = c  d = d  r1 = r1  r2 = r2  k1 = k1
    NoBatch = NoBatch
    NoKey = NoKey
    Requests = {r1, r2}
    Handlers = {h1}
    Droppers = {}
    Batches = {k1}
    Txs = {a, b, c, d}
    BatchOf <- TwiceBatchOf
    Groups <- TwiceGroups
    IdOf <- OneId
    SlowTxs = {}
    FastBlocks = FALSE
    MaxCrashes = 0
SPECIFICATION FairSpec
INVARIANTS TypeOK
PROPERTIES Completes Notified
CHECK_DEADLOCK FALSE
