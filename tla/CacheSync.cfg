CONSTANTS
    Procs = {api, cron}
    Cron = cron
    Readers = {api}
    WarmRuns = {r1, r2}
    NoRun = NoRun
    Warmers = {"locked", "remoteOnly", "unlocked"}
    MaxVersion = 1
    MaxInbox = 1
    MaxTroubles = 2
SYMMETRY Symmetry
CONSTRAINT Unraced
SPECIFICATION Spec
INVARIANTS NoSilentStaleness
PROPERTIES WarmsForward
