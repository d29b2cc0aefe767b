SPECIFICATION FairSpec
CONSTANTS
    Keys = {k1, k2, k3}
    MaxConcurrent = 2
    Requests = {}
    NoRequest = NoRequest
    NoTicket = NoTicket
    NoAck = NoAck
    Asking = {}
    Closable = {}
    Broken = {k1}
    Lingering = {k2}
    Dated = TRUE
PROPERTIES
    NoStarvation
