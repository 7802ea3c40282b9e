CONSTANTS
    Calls = {c1, c2, c3}
    DurationThreshold = 1
    FailureCountThreshold = 2
    ResetTimeout = 2
SPECIFICATION FairSpec
INVARIANTS TypeOK ThresholdOpens
PROPERTIES OpensOnlyAfterStreak ShedsWhileOpen Recovers CallersAnswered
