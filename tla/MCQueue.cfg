SPECIFICATION FairSpec
CONSTANTS
    Keys = {1}
    Tickets <- MCTickets
    Acks = {"none", "pending"}
    Forge <- MCForge
    Failures = {}
    Late = {"ticket", "ack"}
    Absent = Absent
    Corrupt = Corrupt
    NoInfo = NoInfo
    NoLoad = NoLoad
    NoCards = NoCards
PROPERTIES OverdueAckReachesOperator
