CONSTANTS
    Procs = {api, cron}
    Cron = cron
    Readers = {api}
    WarmRuns = {r1}
    NoRun = NoRun
    Warmers = {"locked", "remoteOnly"}
    MaxVersion = 1
    MaxInbox = 1
    MaxTroubles = 1
SPECIFICATION FairSpec
PROPERTIES Converges
