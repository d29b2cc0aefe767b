SPECIFICATION FairSpec
CONSTANTS
    Prs = {1, 2}
    Limit = 1
    States = {"none", "open"}
    MaxLeft = 1
    NoEntry = NoEntry
    Left = Left
INVARIANTS TypeOK PoolIsServed
PROPERTY ViewCatchesUp
