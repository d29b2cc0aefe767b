SPECIFICATION FairSpec
CONSTANTS
    MaxRequests = 2
    Wordy <- LastIsWordy
INVARIANTS
    TypeOK
    NoFalseAlarm
    CalmMeansAnswered
PROPERTIES
    SignalIsKept
    AckIsSettled
