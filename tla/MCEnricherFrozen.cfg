SPECIFICATION Spec
CONSTANTS
    Prs = {1}
    Limit = 1
    States = {"none", "open", "final"}
    MaxLeft = 0
    NoEntry = NoEntry
    Left = Left
INVARIANT FrozenIsFinal
