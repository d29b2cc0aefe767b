SPECIFICATION ViewSpec
CONSTANTS
    Keys = {1}
    Tickets <- MCTickets
    Acks = {"none", "pending", "spent"}
    Forge <- MCForge
    Failures = {TRUE}
    Late = {"ack"}
    Filters <- MCFilters
    Eye = {FALSE}
    Picked = {1}
    Absent = Absent
    Corrupt = Corrupt
    NoInfo = NoInfo
    NoLoad = NoLoad
    NoCards = NoCards
    NoNote = NoNote
    NoMsg = NoMsg
    Nobody = Nobody
INVARIANTS ViewTypeOK ViewIsCurrent NobodyStarves AlarmsAreTold
PROPERTIES RevivedIsNotRemoved
