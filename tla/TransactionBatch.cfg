CONSTANTS
    a = a  b = b  c = c  d = d  r1 = r1  r2 = r2  k1 = k1
    NoBatch = NoBatch
    NoKey = NoKey
    Requests = {r1}
    Handlers = {h1, h2}
    Droppers = {d1}
    Batches = {k1}
    Txs = {a, b, c}
    BatchOf <- OneBatchOf
    Groups <- OneGroups
    IdOf <- OneId
    SlowTxs = {a}
    FastBlocks = TRUE
    MaxCrashes = 1
SPECIFICATION Spec
INVARIANTS SuccessIsReal BatchSuccessIsReal InvalidNeverSuccessful SubmittedOnce
PROPERTIES ImplementsGroupedSubmission
CHECK_DEADLOCK FALSE
