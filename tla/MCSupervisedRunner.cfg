SPECIFICATION FairSpec
CONSTANTS
    Entries <- MCEntries
    MaxRestarts = 3
    Runs = {r1, r2, r3}
    NoRun = NoRun
INVARIANTS
    TypeOK
    NeverStranded
    HandleIsCurrentRun
    StrayRunsCondemned
    FailureBudget
PROPERTIES
    StrayExitInert
    KilledRunIsAFailure
    KeepsTicking
    WakeIsServed
